---------------------------- MODULE QXSyncProofs ----------------------------
(***************************************************************************)
(* For any number of basic and extended threads, up to 64 priorities, any  *)
(* queue lengths, lock ceilings and counts: basic frames nest, the thread  *)
(* of the highest eligible priority runs, the mutex excludes, no thread is *)
(* stranded, and no assertion of the kernel fires but the known ones.      *)
(***************************************************************************)
EXTENDS QXSync, SequenceTheorems, FiniteSetTheorems, WellFoundedInduction, TLAPS

\* A non-empty set of naturals has a smallest element.
LEMMA SmallestExists ==
    ASSUME NEW S, S \subseteq Nat, S # {}
    PROVE  \E x \in S : \A y \in S : x <= y
<1>1. PICK x \in S : \A y \in S : ~(<<y, x>> \in OpToRel(<, Nat))
  BY WFMin, NatLessThanWellFounded
<1>2. \A y \in S : ~(y < x)
  BY <1>1 DEF OpToRel
<1> QED BY <1>2

\* A non-empty set of naturals that is bounded has a largest element: its
\* smallest upper bound.
LEMMA LargestExists ==
    ASSUME NEW m \in Nat, NEW S, S \subseteq 0 .. m, S # {}
    PROVE  \E x \in S : \A y \in S : x >= y
<1> DEFINE U == {b \in Nat : \A y \in S : b >= y}
<1>1. m \in U /\ U \subseteq Nat
  OBVIOUS
<1>2. PICK b \in U : \A u \in U : b <= u
  <2> HIDE DEF U
  <2> QED BY <1>1, SmallestExists
<1>3. b \in Nat /\ \A y \in S : b >= y /\ y \in Nat
  OBVIOUS
<1>4. ASSUME b \notin S PROVE FALSE
  <2>1. \A y \in S : b > y
    BY <1>3, <1>4
  <2>2. PICK z : z \in S
    OBVIOUS
  <2>3. b - 1 \in Nat /\ \A y \in S : b - 1 >= y
    BY <1>3, <2>2, <2>1
  <2>4. b - 1 \in U
    BY <2>3
  <2> HIDE DEF U
  <2> QED BY <1>2, <1>3, <2>4
<1> QED BY <1>3, <1>4

\* Max is an upper bound of the set, and one of its elements.
LEMMA MaxProperties ==
    ASSUME NEW m \in Nat, NEW S, S \subseteq 0 .. m, S # {}
    PROVE  Max(S) \in S /\ \A y \in S : Max(S) >= y
BY LargestExists DEF Max

\* The uses that the code supports (README): wait() and lock() without a
\* time-out, mutexes with a ceiling for extended threads only, and no unlock()
\* before the caller has unlocked the scheduler.
SupportedUse == /\ {"sema", "mutex"} \cap Timed = {}
                /\ {"basicBoost", "unlockLocked"} \cap Calls = {}

-----------------------------------------------------------------------------
(***************************************************************************)
(* The inductive invariant.  Core is about the threads and what they wait  *)
(* for, Dispatching about the processor.                                   *)
(***************************************************************************)
Slots == 0 .. MAX_ACTIVE
Objects == {"none", "queue", "delay", "sema", "mutex"}
Statuses == [prev : Nat, holder : Nat]
Frames == [prio : Prios, obj : Basic, pin : Slots, at : {"get", "rtc"}]

ThreadTypes ==
    /\ curr \in Ext \cup {NULL} /\ readySet \subseteq Prios
    /\ lockPrio \in 0 .. MAX_ACTIVE + 1 /\ lockHolder \in Slots
    /\ active \in [Slots -> Threads \cup {Idle, NULL, Mutex}]
    /\ prio \in [Threads \cup {Idle} -> Slots]
    /\ nEvts \in [Threads -> Nat]
    /\ obj \in [Ext -> Objects]
    /\ armed \in [Ext -> BOOLEAN] /\ sig \in [Ext -> BOOLEAN]
    /\ status \in [Threads -> Statuses \cup {NULL}]
    /\ expiring \in Ext \cup {NULL}

SyncTypes ==
    /\ m_count \in Nat /\ semaSet \subseteq Prios /\ mutexSet \subseteq Prios
    /\ m_ceiling \in Slots \cup {NULL} /\ m_lockNest \in Nat
    /\ m_holderPrio \in Slots /\ has \in [Threads -> Nat]

CeilingUsed == m_ceiling \notin {0, NULL}
Holds(x) == m_lockNest > 0 /\ m_holderPrio = PrioOf[x]
Ready(x) == prio[x] \in readySet

\* Who is registered where, and at which priority the threads are.
Slotted ==
    /\ \A p \in Slots : active[p] = Idle <=> p = 0
    /\ prio[Idle] = 0
    /\ \A p \in Slots : active[p] \in Threads =>
          PrioOf[active[p]] = p \/ (p = m_ceiling /\ Holds(active[p]))
    /\ \A x \in Threads :
          prio[x] = IF CeilingUsed /\ Holds(x) THEN m_ceiling ELSE PrioOf[x]
    /\ CeilingUsed => active[m_ceiling] = IF m_lockNest = 0 THEN Mutex
                                          ELSE active[m_holderPrio]
    /\ Started => m_ceiling # NULL
    /\ Started /\ CeilingUsed => \A x \in Threads : PrioOf[x] # m_ceiling

\* The holder of the mutex, and what it knows of its locks: it has them all,
\* or was handed over the first and has not yet returned from lock().
Held ==
    /\ m_lockNest = 0 => m_holderPrio = 0
    /\ m_lockNest > 0 => Started /\ active[m_holderPrio] \in Threads
    /\ \A x \in Threads : Holds(x) =>
          /\ Registered(x)
          /\ CeilingUsed => x \in Ext /\ PrioOf[x] < m_ceiling
          /\ \/ has[x] = m_lockNest
             \/ /\ x \in Ext /\ has[x] = 0 /\ m_lockNest = 1
                /\ obj[x] = "mutex" /\ Ready(x) /\ sig[x]
    /\ \A x \in Threads : has[x] > 0 => Holds(x)

\* A time event runs only for a blocked thread, and not for the mutex.
Timeouts ==
    \A t \in Ext : /\ obj[t] # "none" => Registered(t)
                   /\ armed[t] => obj[t] \in {"queue", "delay"} /\ ~Ready(t)
                   /\ expiring = t => obj[t] \in {"queue", "delay"} /\ ~armed[t]
                   /\ obj[t] = "mutex" => sig[t]

\* No thread is forgotten, and whoever is in a wait set waits for the object.
Stranded(x) == /\ Registered(x) /\ ~Ready(x)
               /\ IF x \in Ext THEN ~Pending(x) ELSE nEvts[x] # 0
SemaWaits(p) == /\ active[p] \in Ext /\ obj[active[p]] = "sema"
                /\ prio[active[p]] = p /\ p \notin readySet
MutexWaits(p) == /\ active[p] \in Ext /\ obj[active[p]] = "mutex"
                 /\ PrioOf[active[p]] = p /\ m_holderPrio # p
                 /\ p \notin readySet /\ m_lockNest > 0
                 /\ CeilingUsed => p < m_ceiling
Waiters ==
    /\ \A x \in Threads : ~Stranded(x)
    /\ \A t \in Ext : obj[t] = "mutex" /\ Ready(t) => Holds(t) /\ has[t] = 0
    /\ \A p \in semaSet : SemaWaits(p) /\ m_count = 0
    /\ \A p \in mutexSet : MutexWaits(p)

\* The threads that raised the lock ceiling form a chain along their
\* priorities: each remembers the ceiling and the holder before it.
Lockers == {x \in Threads : status[x] \notin {NULL, NoChange}}
HolderAmong(h, X) ==
    \/ X = {} /\ h = 0
    \/ \E y \in X : h = HolderOf(y) /\ \A z \in X : prio[z] <= prio[y]
LockersBelow(x) == {y \in Lockers : prio[y] < prio[x]}
LockChain ==
    /\ Lockers # {} => Started
    /\ ~Started => lockPrio = MAX_ACTIVE + 1
    /\ \A x \in Lockers : /\ Registered(x) /\ Ready(x)
                          /\ x \in Ext => obj[x] = "none"
                          /\ status[x].prev < lockPrio
                          /\ HolderAmong(status[x].holder, LockersBelow(x))
    /\ \A x, y \in Lockers : prio[x] < prio[y] => status[x].prev < status[y].prev
    /\ HolderAmong(lockHolder, Lockers)

Core == /\ ThreadTypes /\ SyncTypes /\ Slotted /\ Held /\ Timeouts /\ Waiters
        /\ LockChain

\* What the frames S and the threads know of each other: a frame is for a
\* thread that is ready unless it stopped, and a ready bit has a reason.
FrameSound(f) ==
    /\ f.prio = PrioOf[f.obj]
    /\ f.at = "get" => Registered(f.obj) /\ nEvts[f.obj] > 0 /\ Ready(f.obj)
    /\ f.at = "rtc" /\ Registered(f.obj) => Ready(f.obj)
FramesSound(S) ==
    /\ \A i \in DOMAIN S : FrameSound(S[i])
    /\ \A x \in Basic : Registered(x) /\ Ready(x) =>
          nEvts[x] > 0 \/ \E i \in DOMAIN S : S[i].obj = x
    /\ \A p \in readySet :
          \/ active[p] \in Threads /\ prio[active[p]] = p
          \/ active[p] = NULL /\ \E i \in DOMAIN S :
                S[i].at = "rtc" /\ PrioOf[S[i].obj] = p
    /\ \A x \in Lockers \cap Basic :
          \E i \in DOMAIN S : S[i].obj = x /\ S[i].at = "rtc"

DispatcherTypes == /\ next \in Threads \cup {Idle, NULL} /\ pendSV \in BOOLEAN
                   /\ actPrio \in Slots /\ stack \in Seq(Frames)

\* The priority that the scheduler finds: that of the thread that runs or, when a
\* context switch is pending, of the thread that it switches to.
Elig == IF findMax(readySet) <= lockPrio THEN lockHolder ELSE findMax(readySet)
Scheduled ==
    IF next # NULL
    THEN /\ next = active[Elig]
         /\ next \notin Ext /\ curr = NULL => Elig > actPrio
    ELSE IF active[Elig] \in Ext THEN curr = active[Elig]
    ELSE curr = NULL /\ Elig <= actPrio

Booting == /\ curr = NULL /\ next = NULL /\ ~pendSV /\ stack = << >>
           /\ expiring = NULL /\ \A x \in Threads : nEvts[x] = 0

Dispatching ==
    /\ DispatcherTypes /\ FramesNested
    /\ next # NULL => pendSV
    /\ ~Started => Booting
    /\ asrt = "none" => FramesSound(stack)
    /\ asrt = "none" /\ Started => Scheduled
    /\ NoKernelAssertion

XInv == Core /\ Dispatching

\* A lockPrio that schedUnlock read is above the one that it restores, also
\* when other threads locked and unlocked the scheduler since.
Reads == /\ seen \in [Threads -> Nat \cup {NULL}]
         /\ \A x \in Threads : seen[x] # NULL =>
               x \in Lockers /\ status[x].prev < seen[x]

-----------------------------------------------------------------------------
(***************************************************************************)
(* Operators of the model.                                                 *)
(***************************************************************************)
LEMMA Numbers == /\ MAX_ACTIVE \in Nat /\ MAX_ACTIVE <= 64
                 /\ \A p \in Prios : p \in Slots /\ p \in Nat /\ p # 0
                 /\ \A p \in Slots : p \in Nat /\ (p # 0 => p \in Prios)
                 /\ 0 \in Slots
BY QXKAssumption DEF Prios, Slots

LEMMA ThreadPrios ==
    /\ \A x \in Threads : PrioOf[x] \in Prios /\ PrioOf[x] \in Slots
                          /\ PrioOf[x] \in Nat /\ PrioOf[x] # 0
    /\ \A x, y \in Threads : PrioOf[x] = PrioOf[y] => x = y
    /\ Basic \subseteq Threads /\ Ext \subseteq Threads
    /\ \A x \in Threads : x # Idle /\ x # NULL /\ x # Mutex
                          /\ (x \in Ext <=> x \notin Basic)
    /\ Idle # NULL /\ Mutex # NULL /\ Mutex # Idle
    /\ NULL \notin Slots /\ NULL \notin Statuses
BY Numbers, QXKAssumption, SyncAssumption DEF Threads, Slots, Statuses, Prios

\* findMax() finds the highest priority of the set, or 0 for an empty one.
LEMMA FindMax ==
    ASSUME NEW S, S \subseteq Prios
    PROVE  /\ findMax(S) \in S \cup {0} /\ findMax(S) \in Slots
           /\ \A p \in S : p <= findMax(S)
           /\ findMax(S) = 0 => S = {}
<1>1. S \cup {0} \subseteq 0 .. MAX_ACTIVE /\ S \cup {0} # {} /\ MAX_ACTIVE \in Nat
  BY QXKAssumption DEF Prios
<1>2. findMax(S) \in S \cup {0} /\ \A y \in S \cup {0} : findMax(S) >= y
  BY <1>1, MaxProperties DEF findMax
<1>3. findMax(S) \in 0 .. MAX_ACTIVE
  BY <1>1, <1>2
<1>4. \A p \in S : p <= findMax(S) /\ p \in 1 .. MAX_ACTIVE
  BY <1>1, <1>2, <1>3 DEF Prios
<1> QED BY <1>1, <1>2, <1>3, <1>4 DEF Slots

\* No two threads are at one priority, a registered thread is found there, and
\* basic threads stay where they started.
Placed == /\ \A x, y \in Threads : prio[x] = prio[y] => x = y
          /\ \A x \in Threads : Registered(x) => active[prio[x]] = x
          /\ \A x \in Threads : prio[x] \in Prios /\ prio[x] \in Slots
          /\ \A x \in Basic : prio[x] = PrioOf[x]
LEMMA Places == Core => Placed
<1> SUFFICES ASSUME Core PROVE Placed
  OBVIOUS
<1> USE ThreadPrios
<1>1. \A x \in Threads : prio[x] = IF CeilingUsed /\ Holds(x) THEN m_ceiling ELSE PrioOf[x]
  BY DEF Core, Slotted
<1>2. \A x \in Threads : CeilingUsed /\ Holds(x) =>
         /\ \A y \in Threads : PrioOf[y] # m_ceiling
         /\ x \in Ext /\ active[m_ceiling] = active[PrioOf[x]]
  BY DEF Core, Slotted, Held, Holds
<1>3. \A x, y \in Threads : Holds(x) /\ Holds(y) => x = y
  BY DEF Holds
<1>4. ASSUME NEW x \in Threads, NEW y \in Threads, prio[x] = prio[y] PROVE x = y
  BY <1>1, <1>2, <1>3, <1>4
<1>5. ASSUME NEW x \in Threads, Registered(x) PROVE active[prio[x]] = x
  BY <1>1, <1>2, <1>5 DEF Registered
<1>6. CeilingUsed => m_ceiling \in Prios
  BY Numbers DEF Core, SyncTypes, CeilingUsed
<1>7. \A x \in Threads : prio[x] \in Prios /\ prio[x] \in Slots
  BY <1>1, <1>6, Numbers
<1>8. \A x \in Basic : prio[x] = PrioOf[x]
  BY <1>1, <1>2
<1> QED BY <1>4, <1>5, <1>7, <1>8 DEF Placed

LEMMA PlacesNext == (Core => Placed)'
BY Places, PTL

\* The lock holder is ready, and so is what the scheduler finds.
EligReady == Elig \in Slots /\ (Elig # 0 => Elig \in readySet)
LEMMA EligIsReady == Core => EligReady
<1> SUFFICES ASSUME Core PROVE EligReady
  OBVIOUS
<1>1. findMax(readySet) \in Slots /\ findMax(readySet) \in readySet \cup {0}
  BY FindMax DEF Core, ThreadTypes
<1>2. lockHolder \in Slots /\ (lockHolder # 0 => lockHolder \in readySet)
  BY DEF Core, ThreadTypes, LockChain, HolderAmong, HolderOf, Ready
<1> QED BY <1>1, <1>2 DEF EligReady, Elig

LEMMA EligIsReadyNext == (Core => EligReady)'
BY EligIsReady, PTL

LEMMA EligibleIs == Eligible = Elig'
BY DEF Eligible, Elig

LEMMA FramesTyped ==
    ASSUME NEW S \in Seq(Frames)
    PROVE  /\ Len(S) \in Nat /\ DOMAIN S = 1 .. Len(S) /\ (S = << >> <=> Len(S) = 0)
           /\ \A i \in DOMAIN S : /\ S[i] \in Frames /\ S[i].obj \in Basic
                                  /\ S[i].obj \in Threads
                                  /\ S[i].prio \in Prios /\ S[i].pin \in Slots
                                  /\ S[i].at \in {"get", "rtc"}
<1>1. Len(S) \in Nat /\ DOMAIN S = 1 .. Len(S) /\ (S = << >> <=> Len(S) = 0)
  BY LenProperties, EmptySeq
<1>2. \A i \in DOMAIN S : S[i] \in Frames
  BY <1>1, ElementOfSeq
<1> QED BY <1>1, <1>2, ThreadPrios DEF Frames

\* Priorities rise along the frames.
Rising(S) == \A i, j \in DOMAIN S : i < j => S[i].prio < S[j].prio
LEMMA FramesRise ==
    ASSUME NEW S \in Seq(Frames),
           \A i \in DOMAIN S :
               /\ S[i].prio > S[i].pin
               /\ S[i].pin = IF i = 1 THEN 0 ELSE S[i - 1].prio
    PROVE  Rising(S)
<1> SUFFICES ASSUME NEW i \in DOMAIN S, NEW j \in DOMAIN S, i < j,
                    ~(S[i].prio < S[j].prio)
             PROVE  FALSE
  BY DEF Rising
<1> DEFINE Bad == {k \in DOMAIN S : i < k /\ ~(S[i].prio < S[k].prio)}
<1>1. /\ Len(S) \in Nat /\ DOMAIN S = 1 .. Len(S)
      /\ \A k \in DOMAIN S : S[k].prio \in Nat /\ S[k].pin \in Nat /\ k \in Nat
  BY FramesTyped, Numbers
<1>2. j \in Bad /\ Bad \subseteq Nat
  BY <1>1
<1>3. PICK k \in Bad : \A l \in Bad : k <= l
  <2> HIDE DEF Bad
  <2> QED BY <1>2, SmallestExists
<1>4. k \in DOMAIN S /\ i < k /\ ~(S[i].prio < S[k].prio) /\ k \in Nat /\ i \in Nat
  BY <1>1
<1>5. i >= 1 /\ k - 1 \in DOMAIN S /\ k # 1 /\ k - 1 >= i
  BY <1>1, <1>4
<1>6. S[k - 1].prio < S[k].prio
  BY <1>1, <1>4, <1>5
<1>7. k - 1 \notin Bad
  <2> HIDE DEF Bad
  <2> QED BY <1>3, <1>4
<1>8. i = k - 1 \/ S[i].prio < S[k - 1].prio
  BY <1>4, <1>5, <1>7
<1> QED BY <1>1, <1>4, <1>5, <1>6, <1>8

\* The frame on top is for the highest priority, actPrio.
LEMMA TopFrame ==
    ASSUME DispatcherTypes, FramesNested
    PROVE  /\ Rising(stack)
           /\ \A i \in DOMAIN stack : stack[i].prio <= actPrio
           /\ stack # << >> => /\ Len(stack) \in DOMAIN stack /\ Top.prio = actPrio
                               /\ Top \in Frames /\ Top.obj \in Basic
                               /\ Top.pin < Top.prio /\ Top.pin \in Slots
                               /\ \A i \in DOMAIN stack : i # Len(stack) =>
                                     stack[i].prio < actPrio /\ stack[i].prio <= Top.pin
<1> USE DEF DispatcherTypes
<1>1. /\ Len(stack) \in Nat /\ DOMAIN stack = 1 .. Len(stack)
      /\ stack = << >> <=> Len(stack) = 0
      /\ \A i \in DOMAIN stack :
            /\ stack[i] \in Frames /\ stack[i].obj \in Basic /\ stack[i].pin \in Slots
            /\ stack[i].prio \in Nat /\ stack[i].pin \in Nat
  BY FramesTyped, Numbers
<1>2. Rising(stack)
  BY FramesRise DEF FramesNested
<1> DEFINE n == Len(stack)
<1>3. ASSUME stack # << >> PROVE n \in DOMAIN stack /\ n \in Nat /\ n >= 1
  BY <1>1, <1>3
<1>4. ASSUME stack # << >>
      PROVE  /\ Top.prio = actPrio /\ Top \in Frames /\ Top.obj \in Basic
             /\ Top.pin < Top.prio /\ Top.pin \in Slots /\ Top.pin \in Nat
             /\ Top.prio \in Nat
             /\ Top.pin = IF n = 1 THEN 0 ELSE stack[n - 1].prio
  BY <1>1, <1>3, <1>4 DEF FramesNested, Top
<1> HIDE DEF n
<1>5. ASSUME NEW i \in DOMAIN stack, i # n
      PROVE  stack # << >> /\ stack[i].prio < actPrio /\ stack[i].prio <= Top.pin
  <2>0. DOMAIN stack = 1 .. n /\ (stack = << >> <=> n = 0) /\ n \in Nat
    BY <1>1 DEF n
  <2>1. i \in Nat /\ i >= 1 /\ i < n /\ stack # << >>
    BY <2>0, <1>5
  <2>2. n # 1 /\ n - 1 \in DOMAIN stack /\ (i = n - 1 \/ i < n - 1)
    BY <2>0, <2>1
  <2>3. stack[i].prio <= stack[n - 1].prio
    BY <1>1, <1>2, <2>2 DEF Rising
  <2>4. stack[i].prio <= Top.pin
    BY <1>4, <2>1, <2>2, <2>3
  <2> QED BY <1>1, <1>4, <2>1, <2>4
<1>6. \A i \in DOMAIN stack : stack[i].prio <= actPrio
  <2> SUFFICES ASSUME NEW i \in DOMAIN stack PROVE stack[i].prio <= actPrio
    OBVIOUS
  <2>1. CASE i # n
    BY <2>1, <1>1, <1>4, <1>5
  <2>2. CASE i = n
    <3>1. stack # << >>
      BY <1>1
    <3> QED BY <2>2, <3>1, <1>4 DEF Top, n
  <2> QED BY <2>1, <2>2
<1> QED BY <1>2, <1>3, <1>4, <1>5, <1>6 DEF n

-----------------------------------------------------------------------------
(***************************************************************************)
(* The thread that executes.                                               *)
(***************************************************************************)
LEMMA CurrentThread ==
    ASSUME XInv, ThreadsRun, NEW t \in Ext, curr = t
    PROVE  /\ Registered(t) /\ Ready(t) /\ active[prio[t]] = t
           /\ Elig = prio[t] /\ ~armed[t] /\ next = NULL
<1> USE ThreadPrios
<1>1. next = NULL /\ asrt = "none" /\ Started /\ Scheduled
  BY DEF XInv, Dispatching, ThreadsRun
<1>2. active[Elig] = t
  BY <1>1 DEF Scheduled
<1>3. Elig \in Slots /\ Elig # 0 /\ Elig \in readySet
  BY <1>2, EligIsReady DEF XInv, EligReady, Core, Slotted
<1>4. prio[t] = Elig
  BY <1>1, <1>2, <1>3 DEF XInv, Dispatching, FramesSound
<1>5. Registered(t)
  BY <1>2, <1>3 DEF XInv, Core, Slotted, Held, Registered
<1> QED BY <1>1, <1>2, <1>3, <1>4, <1>5 DEF Ready, XInv, Core, Timeouts

\* A thread that executes is the last of those that hold the scheduler lock,
\* if it is one of them, and above all of them if it is not.
LEMMA RunningThread ==
    ASSUME XInv, NEW x \in Threads, Executes(x)
    PROVE  /\ ThreadsRun /\ next = NULL
           /\ Registered(x) /\ Ready(x) /\ active[prio[x]] = x
           /\ x \in Ext => /\ curr = x /\ obj[x] = "none" /\ Elig = prio[x]
                           /\ ~armed[x]
           /\ x \in Basic => /\ curr = NULL /\ stack # << >> /\ Top.obj = x
                             /\ Top.at = "rtc" /\ prio[x] = actPrio
                             /\ Elig <= actPrio /\ active[Elig] \notin Ext
           /\ \A y \in Lockers : prio[y] <= prio[x]
           /\ x \in Lockers => lockHolder = HolderOf(x)
<1> USE ThreadPrios
<1>0. ThreadsRun /\ asrt = "none" /\ Started /\ next = NULL /\ Placed /\ Core
  BY Places DEF XInv, Dispatching, ThreadsRun, Executes
<1>1. ASSUME x \in Ext
      PROVE  /\ Registered(x) /\ Ready(x) /\ active[prio[x]] = x /\ curr = x
             /\ obj[x] = "none" /\ Elig = prio[x] /\ ~armed[x]
  <2>1. curr = x /\ obj[x] = "none"
    <3>1. curr # NULL
      <4> SUFFICES ASSUME curr = NULL PROVE FALSE
        OBVIOUS
      <4>1. stack # << >> /\ x = Top.obj
        BY DEF Executes
      <4> QED BY <1>1, <4>1, TopFrame DEF XInv, Dispatching
    <3> QED BY <3>1 DEF Executes
  <2> QED BY <1>0, <1>1, <2>1, CurrentThread
<1>2. ASSUME x \in Basic
      PROVE  /\ Registered(x) /\ Ready(x) /\ active[prio[x]] = x /\ curr = NULL
             /\ stack # << >> /\ Top.obj = x /\ Top.at = "rtc"
             /\ prio[x] = actPrio /\ Elig <= actPrio /\ active[Elig] \notin Ext
  <2>1. curr = NULL
    <3> SUFFICES ASSUME curr # NULL PROVE FALSE
      OBVIOUS
    <3>1. x = curr /\ curr \in Ext
      BY DEF Executes, XInv, Core, ThreadTypes
    <3> QED BY <1>2, <3>1
  <2>2. stack # << >> /\ Top.obj = x /\ Top.at = "rtc" /\ Registered(x)
    BY <2>1, <1>0 DEF Executes
  <2>3. Len(stack) \in DOMAIN stack /\ Top.prio = actPrio /\ FrameSound(Top)
    BY <1>0, <2>2, TopFrame DEF XInv, Dispatching, FramesSound, Top
  <2>4. Ready(x) /\ prio[x] = actPrio /\ active[prio[x]] = x
    BY <1>0, <1>2, <2>2, <2>3 DEF FrameSound, Placed
  <2>5. Elig <= actPrio /\ active[Elig] \notin Ext
    BY <1>0, <2>1 DEF XInv, Dispatching, Scheduled
  <2> QED BY <2>1, <2>2, <2>4, <2>5
<1>3. Registered(x) /\ Ready(x) /\ active[prio[x]] = x
  BY <1>1, <1>2
<1>4. ASSUME NEW y \in Lockers, lockHolder = HolderOf(y) PROVE prio[y] <= prio[x]
  <2> SUFFICES ASSUME prio[x] < prio[y] PROVE FALSE
    BY <1>0, Numbers DEF Placed, Lockers
  <2>1. y \in Threads /\ Ready(y) /\ Registered(y) /\ active[prio[y]] = y
    BY <1>0 DEF Core, LockChain, Lockers, Placed
  <2>2. /\ prio[y] <= findMax(readySet) /\ findMax(readySet) \in Nat
        /\ prio[y] \in Nat /\ prio[x] \in Nat /\ prio[x] # 0 /\ lockPrio \in Nat
        /\ actPrio \in Nat
    BY <1>0, <2>1, FindMax, Numbers
       DEF Core, ThreadTypes, Ready, Placed, XInv, Dispatching, DispatcherTypes
  <2>3. CASE ~(findMax(readySet) <= lockPrio)
    <3>1. Elig = findMax(readySet)
      BY <2>3 DEF Elig
    <3> QED BY <1>1, <1>2, <2>2, <3>1
  <2>4. CASE findMax(readySet) <= lockPrio
    <3>1. Elig = HolderOf(y)
      BY <2>4, <1>4 DEF Elig
    <3>2. CASE y \in Ext
      BY <3>1, <3>2, <1>1, <1>2, <2>1, <2>2 DEF HolderOf
    <3>3. CASE y \in Basic
      <4>1. x \in Basic
        BY <3>1, <3>3, <2>1, <2>2, <1>1 DEF HolderOf
      <4>2. PICK i \in DOMAIN stack : stack[i].obj = y
        BY <1>0, <3>3 DEF XInv, Dispatching, FramesSound
      <4>3. stack[i].prio = prio[y] /\ stack[i].prio <= actPrio
        BY <1>0, <3>3, <4>2, TopFrame
           DEF XInv, Dispatching, FramesSound, FrameSound, Placed
      <4> QED BY <4>1, <4>3, <1>2, <2>2
    <3> QED BY <2>1, <3>2, <3>3
  <2> QED BY <2>3, <2>4
<1>5. CASE Lockers = {}
  BY <1>0, <1>1, <1>2, <1>3, <1>5
<1>6. CASE Lockers # {}
  <2>1. PICK y \in Lockers : lockHolder = HolderOf(y) /\ \A z \in Lockers : prio[z] <= prio[y]
    BY <1>6 DEF XInv, Core, LockChain, HolderAmong
  <2>2. prio[y] <= prio[x] /\ y \in Threads
    BY <2>1, <1>4 DEF Lockers
  <2>3. \A z \in Threads : prio[z] \in Nat
    BY <1>0, Numbers DEF Placed
  <2>4. \A z \in Lockers : prio[z] <= prio[x]
    BY <2>1, <2>2, <2>3 DEF Lockers
  <2>5. x \in Lockers => lockHolder = HolderOf(x)
    BY <1>0, <2>1, <2>2, <2>3 DEF Placed
  <2> QED BY <1>0, <1>1, <1>2, <1>3, <2>4, <2>5
<1> QED BY <1>5, <1>6

LEMMA RunsExecutes == \A x : Runs(x) => Executes(x)
BY DEF Runs

-----------------------------------------------------------------------------
(***************************************************************************)
(* The scheduler.  S is the stack before the step.                         *)
(***************************************************************************)
NestedUp(S, top) ==
    /\ top = IF S = << >> THEN 0 ELSE S[Len(S)].prio
    /\ \A i \in DOMAIN S : /\ S[i].prio > S[i].pin
                           /\ S[i].pin = IF i = 1 THEN 0 ELSE S[i - 1].prio

LEMMA NestedIs == FramesNested <=> NestedUp(stack, actPrio)
BY DEF FramesNested, NestedUp, Top

LEMMA NestedIsNext == (FramesNested <=> NestedUp(stack, actPrio))'
BY NestedIs, PTL

LEMMA FrameFields ==
    ASSUME NEW p \in Prios, NEW a \in Basic, NEW q \in Slots
    PROVE  /\ Frame(p, a, q) \in Frames /\ Frame(p, a, q).prio = p
           /\ Frame(p, a, q).obj = a /\ Frame(p, a, q).pin = q
           /\ Frame(p, a, q).at = "get"
BY DEF Frame, Frames

\* A frame on top of B.
LEMMA PushFrame ==
    ASSUME NEW B \in Seq(Frames), NEW f \in Frames, NestedUp(B, f.pin),
           f.prio > f.pin
    PROVE  LET T == Append(B, f)
           IN  /\ T \in Seq(Frames) /\ NestedUp(T, f.prio)
               /\ DOMAIN T = DOMAIN B \cup {Len(B) + 1}
               /\ Len(B) + 1 \notin DOMAIN B
               /\ T[Len(B) + 1] = f
               /\ \A i \in DOMAIN B : T[i] = B[i]
<1> DEFINE n == Len(B)
           T == Append(B, f)
           q == f.pin
<1>2. n \in Nat /\ DOMAIN B = 1 .. n /\ (B = << >> <=> n = 0)
  BY FramesTyped
<1>3. /\ T \in Seq(Frames) /\ Len(T) = n + 1 /\ T[n + 1] = f
      /\ \A i \in 1 .. n : T[i] = B[i]
  BY AppendProperties
<1> HIDE DEF T
<1>4. DOMAIN T = 1 .. n + 1 /\ (T = << >> <=> Len(T) = 0)
  BY <1>3, FramesTyped
<1> HIDE DEF n
<1>5. DOMAIN T = DOMAIN B \cup {n + 1} /\ n + 1 \notin DOMAIN B /\ T # << >>
  BY <1>2, <1>3, <1>4
<1>6. \A i \in DOMAIN B : T[i] = B[i] /\ (i # 1 => i - 1 \in DOMAIN B)
  BY <1>2, <1>3
<1>7. n # 0 => n \in DOMAIN B /\ B # << >>
  BY <1>2
<1>8. q = IF n = 0 THEN 0 ELSE B[n].prio
  BY <1>2 DEF NestedUp, n
<1>9. NestedUp(T, f.prio)
  <2>1. ASSUME NEW i \in DOMAIN T
        PROVE  /\ T[i].prio > T[i].pin
               /\ T[i].pin = IF i = 1 THEN 0 ELSE T[i - 1].prio
    <3>1. CASE i \in DOMAIN B
      BY <3>1, <1>6 DEF NestedUp
    <3>2. CASE i = n + 1
      <4>1. (i = 1 <=> n = 0) /\ i - 1 = n
        BY <3>2, <1>2
      <4>2. n # 0 => T[n].prio = B[n].prio
        BY <1>6, <1>7
      <4> QED BY <1>3, <1>8, <3>2, <4>1, <4>2
    <3> QED BY <1>5, <2>1, <3>1, <3>2
  <2> QED BY <2>1, <1>3, <1>5 DEF NestedUp
<1> QED BY <1>3, <1>5, <1>6, <1>9 DEF n, T

\* The frames without the one on top.
LEMMA PopFrame ==
    ASSUME NEW S \in Seq(Frames), S # << >>, NEW q, NestedUp(S, q), NEW T,
           T = SubSeq(S, 1, Len(S) - 1)
    PROVE  /\ T \in Seq(Frames) /\ NestedUp(T, S[Len(S)].pin)
           /\ DOMAIN T = DOMAIN S \ {Len(S)}
           /\ \A i \in DOMAIN T : T[i] = S[i]
<1> DEFINE n == Len(S)
<1>1. n \in Nat /\ DOMAIN S = 1 .. n /\ n # 0
  BY FramesTyped
<1> HIDE DEF n
<1>2. 1 \in Nat /\ n - 1 \in Int /\ n - 1 \in Nat /\ n >= 1
      /\ \A i \in 1 .. n - 1 : i \in 1 .. n
  BY <1>1
<1>3. T \in Seq(Frames)
  <2>1. \A i \in 1 .. n - 1 : S[i] \in Frames
    BY <1>1, <1>2, FramesTyped
  <2> QED BY <1>1, <1>2, <2>1, SubSeqProperties DEF n
<1>4. Len(T) = n - 1 /\ \A i \in 1 .. n - 1 : T[i] = S[i]
  BY <1>1, <1>2, SubSeqProperties DEF n
<1>5. DOMAIN T = 1 .. n - 1 /\ (T = << >> <=> n - 1 = 0)
  BY <1>3, <1>4, FramesTyped
<1>6. DOMAIN T = DOMAIN S \ {n} /\ n \in DOMAIN S
      /\ \A i \in DOMAIN T : i # 1 => i - 1 \in DOMAIN T
  BY <1>1, <1>5
<1>7. S[n].pin = IF T = << >> THEN 0 ELSE T[Len(T)].prio
  <2>1. n # 1 => n - 1 \in 1 .. n - 1
    BY <1>1
  <2>2. n = 1 <=> T = << >>
    BY <1>1, <1>5
  <2> QED BY <2>1, <2>2, <1>4, <1>6 DEF NestedUp
<1>8. NestedUp(T, S[n].pin)
  <2> SUFFICES ASSUME NEW i \in DOMAIN T
               PROVE  /\ T[i].prio > T[i].pin
                      /\ T[i].pin = IF i = 1 THEN 0 ELSE T[i - 1].prio
    BY <1>7 DEF NestedUp
  <2>1. T[i] = S[i] /\ i \in DOMAIN S /\ (i # 1 => T[i - 1] = S[i - 1])
    BY <1>4, <1>5, <1>6
  <2> QED BY <2>1 DEF NestedUp
<1> QED BY <1>3, <1>4, <1>5, <1>6, <1>8 DEF n

\* What the scheduler finds is registered, or inside stop().
Found(S) ==
    /\ Elig \in Slots /\ (Elig # 0 => Elig \in readySet)
    /\ active[Elig] = Idle <=> Elig = 0
    /\ active[Elig] \notin Threads \cup {Idle} =>
          /\ active[Elig] = NULL /\ Elig \in readySet
          /\ \E i \in DOMAIN S : S[i].at = "rtc" /\ PrioOf[S[i].obj] = Elig
    /\ active[Elig] \in Threads => /\ Registered(active[Elig])
                                   /\ Ready(active[Elig])
                                   /\ prio[active[Elig]] = Elig
    /\ active[Elig] \in Basic =>
          /\ PrioOf[active[Elig]] = Elig
          /\ \/ nEvts[active[Elig]] > 0
             \/ \E i \in DOMAIN S : S[i].obj = active[Elig]
LEMMA SchedulerFinds == \A S : Core /\ FramesSound(S) => Found(S)
<1> SUFFICES ASSUME NEW S, Core, FramesSound(S) PROVE Found(S)
  OBVIOUS
<1> USE ThreadPrios
<1>1. Elig \in Slots /\ (Elig # 0 => Elig \in readySet) /\ Placed
  BY EligIsReady, Places DEF EligReady
<1>2. active[Elig] = Idle <=> Elig = 0
  BY <1>1 DEF Core, Slotted
<1>3. ASSUME Elig # 0
      PROVE  \/ active[Elig] \in Threads /\ prio[active[Elig]] = Elig
             \/ active[Elig] = NULL /\ \E i \in DOMAIN S :
                   S[i].at = "rtc" /\ PrioOf[S[i].obj] = Elig
  BY <1>1, <1>3 DEF FramesSound
<1>4. ASSUME active[Elig] \in Threads
      PROVE  /\ Registered(active[Elig]) /\ prio[active[Elig]] = Elig
             /\ Ready(active[Elig])
  <2>1. Elig # 0
    BY <1>2, <1>4
  <2>2. prio[active[Elig]] = Elig
    BY <1>3, <1>4, <2>1
  <2>3. Registered(active[Elig])
    BY <1>1, <1>4 DEF Core, Slotted, Held, Registered
  <2> QED BY <1>1, <2>1, <2>2, <2>3 DEF Ready
<1>5. ASSUME active[Elig] \in Basic
      PROVE  /\ PrioOf[active[Elig]] = Elig
             /\ \/ nEvts[active[Elig]] > 0
                \/ \E i \in DOMAIN S : S[i].obj = active[Elig]
  BY <1>1, <1>4, <1>5 DEF FramesSound, Placed
<1> QED BY <1>1, <1>2, <1>3, <1>4, <1>5 DEF Found

LEMMA SchedulerFindsNext == (\A S : Core /\ FramesSound(S) => Found(S))'
BY SchedulerFinds, PTL

\* The thread a is activated on top of the frames B.
LEMMA PushSound ==
    ASSUME NEW B, FramesSound(B)', NEW T, NEW k, NEW f,
           DOMAIN T = DOMAIN B \cup {k}, k \notin DOMAIN B, T[k] = f,
           \A i \in DOMAIN B : T[i] = B[i],
           FrameSound(f)'
    PROVE  FramesSound(T)'
BY DEF FramesSound

\* The activation of a basic thread above the frames B.
LEMMA ActivateSound ==
    ASSUME NEW B \in Seq(Frames), NEW q \in Slots, NestedUp(B, q), Core', FramesSound(B)',
           Elig' > q, active'[Elig'] \in Basic,
           stack' = Append(B, Frame(Elig', active'[Elig'], q))
    PROVE  stack' \in Seq(Frames) /\ NestedUp(stack', Elig') /\ FramesSound(stack)'
<1> USE ThreadPrios
<1>0. PICK p, a, T : p = Elig' /\ a = active'[Elig'] /\ T = stack'
  OBVIOUS
<1> DEFINE k == Len(B) + 1
           f == Frame(p, a, q)
<1>1. Found(B)'
  BY SchedulerFindsNext
<1>2. p \in Slots /\ p # 0 /\ p \in Prios /\ a \in Basic /\ p > q
  BY <1>0, <1>1, Numbers DEF Found
<1>3. /\ T \in Seq(Frames) /\ NestedUp(T, p)
      /\ DOMAIN T = DOMAIN B \cup {k} /\ k \notin DOMAIN B
      /\ T[k] = f
      /\ \A i \in DOMAIN B : T[i] = B[i]
  <2>1. T = Append(B, f) /\ f \in Frames /\ f.pin = q /\ f.prio = p
    BY <1>0, <1>2, FrameFields
  <2> HIDE DEF f
  <2> QED BY <1>2, <2>1, PushFrame
<1>4. f.prio = p /\ f.obj = a /\ f.at = "get"
  BY <1>2, FrameFields
<1>5. \A i \in DOMAIN B : B[i].obj # a
  <2> SUFFICES ASSUME NEW i \in DOMAIN B, B[i].obj = a PROVE FALSE
    OBVIOUS
  <2>1. B[i].prio = PrioOf[a] /\ PrioOf[a] = p
    BY <1>0, <1>1, <1>2 DEF FramesSound, FrameSound, Found
  <2>2. Rising(B)
    BY FramesRise DEF NestedUp
  <2>3. /\ Len(B) \in Nat /\ DOMAIN B = 1 .. Len(B) /\ (B = << >> <=> Len(B) = 0)
        /\ \A j \in DOMAIN B : B[j].prio \in Nat
    BY FramesTyped, Numbers
  <2>4. q = B[Len(B)].prio /\ Len(B) \in DOMAIN B
    BY <2>3 DEF NestedUp
  <2>5. B[i].prio <= q
    <3>1. i = Len(B) \/ i < Len(B)
      BY <2>3
    <3> QED BY <2>2, <2>3, <2>4, <3>1 DEF Rising
  <2>6. p \in Nat /\ q \in Nat
    BY <1>2, Numbers
  <2> QED BY <1>2, <2>1, <2>5, <2>6
<1>6. PrioOf[a] = p /\ nEvts'[a] > 0 /\ Registered(a)' /\ Ready(a)'
  <2>1. nEvts'[a] > 0
    BY <1>0, <1>1, <1>2, <1>5 DEF Found
  <2>2. PrioOf[a] = p /\ active'[PrioOf[a]] = a /\ prio'[a] \in readySet'
    BY <1>0, <1>1, <1>2 DEF Found, Ready
  <2> QED BY <2>1, <2>2 DEF Registered, Ready
<1> HIDE DEF f, k
<1>7. FrameSound(f)'
  BY <1>4, <1>6 DEF FrameSound
<1>8. FramesSound(T)'
  BY <1>3, <1>7, PushSound
<1>9. FramesSound(stack)'
  BY <1>0, <1>8 DEF FramesSound
<1> QED BY <1>0, <1>3, <1>9

\* A failed assertion finds a thread inside stop().
LEMMA FailsAsKnown ==
    ASSUME NEW S \in Seq(Frames), Core', Found(S)', EligibleFails, asrt' = Failure,
           \A i \in DOMAIN S : i \in DOMAIN stack' /\ stack'[i] = S[i]
    PROVE  NoKernelAssertion' /\ asrt' # "none"
<1> USE ThreadPrios
<1>1. ~HolderNotReady
  BY EligibleIs DEF HolderNotReady, Found
<1>2. asrt' = "registered" /\ NotRegistered
  BY <1>1 DEF Failure, EligibleFails
<1>3. PICK i \in DOMAIN S : S[i].at = "rtc" /\ PrioOf[S[i].obj] = Elig'
  BY <1>2, EligibleIs DEF NotRegistered, Found
<1>4. active'[Elig'] = NULL /\ Elig' \in readySet'
  BY <1>2, EligibleIs DEF NotRegistered, Found
<1>5. S[i].obj \in Basic /\ prio'[S[i].obj] = PrioOf[S[i].obj]
  BY FramesTyped, PlacesNext DEF Placed
<1>6. Stopping(stack[i])'
  BY <1>3, <1>4, <1>5 DEF Stopping, Registered
<1> QED BY <1>2, <1>3, <1>6 DEF NoKernelAssertion

\* QXK_sched_ at the end of a step: the frames nest, and what it finds runs or
\* is what PendSV switches to.
LEMMA SchedStep ==
    ASSUME NEW S, S = stack, Dispatching, asrt = "none", Core', FramesSound(S)',
           Started', curr' = curr, NEW caller, QXK_sched_(caller),
           caller = "ignore" => \/ curr # NULL \/ active'[Elig'] \in Ext
                                \/ Elig' <= actPrio
    PROVE  Dispatching'
<1> USE ThreadPrios
<1>0. /\ S \in Seq(Frames) /\ actPrio \in Slots /\ NestedUp(S, actPrio)
      /\ next # NULL => pendSV
      /\ pendSV \in BOOLEAN
  BY NestedIs DEF Dispatching, DispatcherTypes
<1>1. Found(S)' /\ Eligible = Elig'
  BY SchedulerFindsNext, EligibleIs
<1>2. Elig' \in Slots /\ Elig' \in Nat /\ actPrio \in Nat
  BY <1>0, <1>1, Numbers DEF Found
<1>3. CASE EligibleFails /\ Fails(Failure)
  <2>1. asrt' = Failure /\ UNCHANGED <<next, pendSV, stack, actPrio>>
    BY <1>3 DEF Fails
  <2>2. NoKernelAssertion' /\ asrt' # "none"
    BY <1>0, <1>1, <1>3, <2>1, FailsAsKnown
  <2>3. DispatcherTypes' /\ FramesNested'
    BY <2>1, NestedIsNext, <1>0 DEF Dispatching, DispatcherTypes
  <2> QED BY <1>0, <2>1, <2>2, <2>3 DEF Dispatching
<1> DEFINE x == active'[Elig']
<1>4. CASE ~EligibleFails
  <2>0. x \in Threads \cup {Idle}
    BY <1>1, <1>4 DEF EligibleFails, NotRegistered
  <2>1. ASSUME UNCHANGED <<stack, actPrio, asrt>>
        PROVE  /\ stack' \in Seq(Frames) /\ actPrio' \in Slots /\ FramesNested'
               /\ FramesSound(stack)' /\ NoKernelAssertion' /\ asrt' = "none"
    <3>1. FramesNested'
      BY <1>0, <2>1, NestedIsNext
    <3>2. FramesSound(stack)'
      <4>1. stack' = S
        BY <2>1
      <4> QED BY <4>1 DEF FramesSound
    <3> QED BY <1>0, <2>1, <3>1, <3>2 DEF NoKernelAssertion
  <2>2. CASE x \in Ext /\ x # curr /\ Switch(x)
    <3>1. next' = x /\ pendSV' = TRUE /\ Scheduled'
      BY <2>2 DEF Switch, Scheduled
    <3> QED BY <2>1, <2>2, <3>1 DEF Switch, Dispatching, DispatcherTypes
  <2>3. CASE x \in Ext /\ x = curr /\ Stay
    <3>1. next' = NULL /\ pendSV' = pendSV /\ Scheduled'
      BY <2>3 DEF Stay, Scheduled
    <3> QED BY <1>0, <2>1, <2>3, <3>1 DEF Stay, Dispatching, DispatcherTypes
  <2>4. CASE x \notin Ext /\ curr # NULL /\ Switch(x)
    <3>1. next' = x /\ pendSV' = TRUE /\ Scheduled'
      BY <2>4, <2>0 DEF Switch, Scheduled
    <3> QED BY <2>0, <2>1, <2>4, <3>1 DEF Switch, Dispatching, DispatcherTypes
  <2>5. CASE x \notin Ext /\ curr = NULL /\ ~Preempts(Elig') /\ Stay
    <3>1. next' = NULL /\ pendSV' = pendSV /\ actPrio' = actPrio /\ Elig' <= actPrio
      BY <1>2, <2>5 DEF Stay, Preempts
    <3>2. Scheduled'
      BY <2>5, <3>1 DEF Scheduled
    <3> QED BY <1>0, <2>1, <2>5, <3>1, <3>2 DEF Stay, Dispatching, DispatcherTypes
  <2>6. CASE /\ x \notin Ext /\ curr = NULL /\ Preempts(Elig')
             /\ caller = "activate" /\ Activate(Elig') /\ UNCHANGED <<pendSV, asrt>>
    <3>1. x \in Basic /\ Elig' > actPrio
      BY <1>1, <1>2, <2>0, <2>6 DEF Preempts, Found
    <3>2. stack' = Append(S, Frame(Elig', active'[Elig'], actPrio))
          /\ actPrio' = Elig' /\ next' = NULL
      BY <2>6 DEF Activate
    <3>3. stack' \in Seq(Frames) /\ NestedUp(stack', Elig') /\ FramesSound(stack)'
      BY <1>0, <3>1, <3>2, ActivateSound
    <3>4. FramesNested'
      BY <3>2, <3>3, NestedIsNext
    <3>5. Scheduled'
      BY <1>2, <2>6, <3>1, <3>2 DEF Scheduled
    <3> QED BY <1>0, <1>2, <2>6, <3>2, <3>3, <3>4, <3>5
            DEF Dispatching, DispatcherTypes, NoKernelAssertion
  <2>7. CASE /\ x \notin Ext /\ curr = NULL /\ Preempts(Elig')
             /\ caller = "ignore"
    BY <1>2, <2>7 DEF Preempts
  <2>8. CASE /\ x \notin Ext /\ curr = NULL /\ Preempts(Elig')
             /\ caller = "isr" /\ Switch(x)
    <3>1. next' = x /\ pendSV' = TRUE /\ actPrio' = actPrio /\ Elig' > actPrio
      BY <2>8 DEF Switch, Preempts
    <3>2. Scheduled'
      BY <2>0, <2>8, <3>1 DEF Scheduled
    <3> QED BY <2>0, <2>1, <2>8, <3>1, <3>2 DEF Switch, Dispatching, DispatcherTypes
  <2> QED BY <1>1, <1>4, <2>2, <2>3, <2>4, <2>5, <2>6, <2>7, <2>8 DEF QXK_sched_
<1> QED BY <1>1, <1>3, <1>4 DEF QXK_sched_

-----------------------------------------------------------------------------
(***************************************************************************)
(* What keeps the parts of the invariant.                                  *)
(***************************************************************************)
LEMMA SlottedKept ==
    ASSUME Slotted, UNCHANGED <<active, prio, m_ceiling, m_lockNest, m_holderPrio>>,
           Started' => Started
    PROVE  Slotted'
BY DEF Slotted, Holds, CeilingUsed

LEMMA HeldKept ==
    ASSUME Held, UNCHANGED <<active, m_ceiling, m_lockNest, m_holderPrio, has>>,
           Started => Started',
           \A t \in Ext : obj[t] = "mutex" /\ Ready(t) /\ sig[t] =>
               obj'[t] = "mutex" /\ Ready(t)' /\ sig'[t]
    PROVE  Held'
BY DEF Held, Holds, CeilingUsed, Registered

LEMMA LockKept ==
    ASSUME LockChain, UNCHANGED locks,
           \A x \in Lockers : /\ prio'[x] = prio[x] /\ Registered(x)' /\ Ready(x)'
                              /\ x \in Ext => obj'[x] = "none"
    PROVE  LockChain'
<1>1. Lockers' = Lockers /\ lockPrio' = lockPrio /\ lockHolder' = lockHolder
      /\ status' = status
  BY DEF Lockers, locks
<1>2. \A x \in Lockers : LockersBelow(x)' = LockersBelow(x) /\ LockersBelow(x) \subseteq Lockers
  BY <1>1 DEF LockersBelow
<1>3. ASSUME NEW X, X \subseteq Lockers, NEW h, HolderAmong(h, X)
      PROVE  HolderAmong(h, X)'
  BY <1>3 DEF HolderAmong, HolderOf
<1>4. HolderAmong(lockHolder, Lockers)'
  <2>1. PICK h, X : h = lockHolder /\ X = Lockers
    OBVIOUS
  <2>2. HolderAmong(h, X)'
    BY <1>3, <2>1 DEF LockChain
  <2> QED BY <1>1, <2>1, <2>2 DEF HolderAmong
<1>5. ASSUME NEW x \in Lockers PROVE HolderAmong(status[x].holder, LockersBelow(x))'
  <2>1. PICK h, X : h = status[x].holder /\ X = LockersBelow(x)
    OBVIOUS
  <2>2. HolderAmong(h, X)'
    BY <1>2, <1>3, <2>1 DEF LockChain
  <2> QED BY <1>1, <1>2, <2>1, <2>2 DEF HolderAmong
<1>6. Started' = Started
  BY <1>1 DEF Started
<1> QED BY <1>1, <1>4, <1>5, <1>6 DEF LockChain

\* The frames S, and threads that change for the better.
LEMMA FramesKept ==
    ASSUME NEW S \in Seq(Frames), FramesSound(S), status' = status,
           \A x \in Basic : /\ Registered(x)' <=> Registered(x)
                            /\ Ready(x) => Ready(x)'
                            /\ nEvts[x] > 0 => nEvts'[x] > 0
                            /\ Ready(x)' => Ready(x) \/ nEvts'[x] > 0,
           \A p \in readySet' :
               \/ active'[p] \in Threads /\ prio'[active'[p]] = p
               \/ p \in readySet /\ active[p] = NULL /\ active'[p] = NULL
    PROVE  FramesSound(S)'
<1> USE ThreadPrios
<1>1. \A i \in DOMAIN S : S[i].obj \in Basic
  BY FramesTyped
<1>2. \A i \in DOMAIN S : FrameSound(S[i])'
  BY <1>1 DEF FramesSound, FrameSound
<1>3. \A x \in Basic : Registered(x)' /\ Ready(x)' =>
         nEvts'[x] > 0 \/ \E i \in DOMAIN S : S[i].obj = x
  BY DEF FramesSound
<1>4. \A p \in readySet' :
         \/ active'[p] \in Threads /\ prio'[active'[p]] = p
         \/ active'[p] = NULL /\ \E i \in DOMAIN S :
               S[i].at = "rtc" /\ PrioOf[S[i].obj] = p
  BY DEF FramesSound
<1>5. \A x \in Lockers' \cap Basic :
         \E i \in DOMAIN S : S[i].obj = x /\ S[i].at = "rtc"
  BY DEF FramesSound, Lockers
<1> QED BY <1>2, <1>3, <1>4, <1>5 DEF FramesSound

LEMMA QuietDispatch ==
    ASSUME NEW S, S = stack, Dispatching, asrt = "none", Started', UNCHANGED dispatcher,
           FramesSound(S)', Scheduled'
    PROVE  Dispatching'
<1>1. UNCHANGED <<next, pendSV, stack, actPrio, asrt>>
  BY DEF dispatcher
<1>2. FramesSound(stack)'
  BY <1>1 DEF FramesSound
<1>3. FramesNested' /\ DispatcherTypes'
  BY <1>1, NestedIs, NestedIsNext DEF Dispatching, DispatcherTypes
<1> QED BY <1>1, <1>2, <1>3 DEF Dispatching, NoKernelAssertion

LEMMA ScheduledKept ==
    ASSUME Scheduled,
           UNCHANGED <<next, curr, actPrio, active, readySet, lockPrio, lockHolder>>
    PROVE  Scheduled'
BY DEF Scheduled, Elig

\* A step that does not schedule.
LEMMA QuietStep ==
    ASSUME NEW S, S = stack, Dispatching, asrt = "none", Started,
           UNCHANGED <<curr, dispatcher, readySet, active, lockPrio, lockHolder>>,
           FramesSound(S)'
    PROVE  Dispatching'
<1>1. Scheduled' /\ Started'
  BY ScheduledKept DEF Dispatching, dispatcher, Started
<1> QED BY <1>1, QuietDispatch

\* The end of a service.
LEMMA EndStep ==
    ASSUME NEW S, S = stack, Dispatching, asrt = "none", Started, Core', FramesSound(S)',
           Started', curr' = curr, NEW ctx, NEW sched, EndOf(ctx, sched),
           sched = "none" => UNCHANGED <<readySet, active, lockPrio, lockHolder>>,
           ctx # "isr" /\ sched = "ignore" => \/ curr # NULL \/ active'[Elig'] \in Ext
                                              \/ Elig' <= actPrio
    PROVE  Dispatching'
<1>1. CASE ctx = "isr"
  <2>1. QXK_sched_("isr") /\ "isr" # "ignore"
    BY <1>1 DEF EndOf
  <2> QED BY <2>1, SchedStep
<1>2. CASE ctx # "isr" /\ sched = "none"
  <2>1. UNCHANGED dispatcher
    BY <1>2 DEF EndOf
  <2> QED BY <1>2, <2>1, QuietStep
<1>3. CASE ctx # "isr" /\ sched # "none"
  <2>1. QXK_sched_(sched)
    BY <1>3 DEF EndOf
  <2> QED BY <1>3, <2>1, SchedStep
<1> QED BY <1>1, <1>2, <1>3

\* A further ready thread is found, or the one that was found before.
LEMMA WakeElig ==
    ASSUME ThreadTypes, NEW q \in Prios, readySet' = readySet \cup {q},
           UNCHANGED <<lockPrio, lockHolder>>
    PROVE  Elig' = Elig \/ Elig' = q
<1> DEFINE a == findMax(readySet)
           b == findMax(readySet')
<1>1. /\ a \in readySet \cup {0} /\ a \in Nat /\ \A p \in readySet : p <= a
      /\ b \in readySet' \cup {0} /\ b \in Nat /\ \A p \in readySet' : p <= b
      /\ q \in Nat /\ lockPrio \in Nat /\ \A p \in readySet : p \in Nat
  BY FindMax, Numbers DEF ThreadTypes
<1>2. Elig = IF a <= lockPrio THEN lockHolder ELSE a
  BY DEF Elig
<1>3. Elig' = IF b <= lockPrio THEN lockHolder ELSE b
  BY DEF Elig
<1> HIDE DEF a, b
<1>4. b = a \/ (b = q /\ a <= b)
  BY <1>1
<1> QED BY <1>1, <1>2, <1>3, <1>4

-----------------------------------------------------------------------------
(***************************************************************************)
(* The thread y becomes ready: an event, a time-out or a signal came.      *)
(***************************************************************************)
Wakes(y) ==
    /\ readySet' = readySet \cup {prio[y]}
    /\ nEvts' \in [Threads -> Nat] /\ nEvts'[y] >= nEvts[y]
    /\ \A x \in Threads : x # y => nEvts'[x] = nEvts[x]
    /\ y \in Basic => nEvts'[y] > 0
    /\ y \in Ext => obj[y] # "mutex" /\ ~armed'[y]
    /\ armed' \in [Ext -> BOOLEAN] /\ \A t \in Ext : armed'[t] => armed[t]
    /\ sig' \in [Ext -> BOOLEAN] /\ \A t \in Ext : t # y => sig'[t] = sig[t]
    /\ expiring' \in {expiring, NULL}
    /\ semaSet' = semaSet \ {prio[y]}
    /\ UNCHANGED <<curr, locks, active, prio, obj, m_count, m_ceiling,
                   m_lockNest, m_holderPrio, mutexSet, has>>

LEMMA WakeCore ==
    ASSUME Core, NEW S \in Seq(Frames), FramesSound(S),
           NEW y \in Threads, Registered(y), Wakes(y)
    PROVE  Core' /\ FramesSound(S)'
<1> USE ThreadPrios
<1>0. /\ UNCHANGED <<curr, lockPrio, lockHolder, status, active, prio, obj, m_count,
                     m_ceiling, m_lockNest, m_holderPrio, mutexSet, has>>
      /\ readySet' = readySet \cup {prio[y]}
      /\ semaSet' = semaSet \ {prio[y]}
      /\ Started' = Started /\ \A x : Registered(x)' = Registered(x)
  BY DEF Wakes, locks, Started, Registered
<1>1. Placed
  BY Places
<1>2. /\ prio[y] \in Prios /\ active[prio[y]] = y
      /\ \A x \in Threads : prio[x] = prio[y] => x = y
  BY <1>1 DEF Placed
<1>3. ThreadTypes' /\ SyncTypes'
  <2>1. ThreadTypes'
    BY <1>0, <1>2 DEF Core, ThreadTypes, Wakes
  <2> QED BY <2>1, <1>0 DEF Core, SyncTypes
<1>4. Slotted'
  BY <1>0, SlottedKept DEF Core
<1>5. \A x \in Threads : (Ready(x) => Ready(x)') /\ (Ready(x)' => Ready(x) \/ x = y)
  BY <1>0, <1>2 DEF Ready
<1>6. Held'
  <2>1. \A t \in Ext : obj[t] = "mutex" => t # y
    BY DEF Wakes
  <2>2. \A t \in Ext : obj[t] = "mutex" /\ Ready(t) /\ sig[t] =>
               obj'[t] = "mutex" /\ Ready(t)' /\ sig'[t]
    BY <1>0, <1>5, <2>1 DEF Wakes
  <2> QED BY <1>0, <2>2, HeldKept DEF Core
<1>7. Timeouts'
  BY <1>0, <1>5 DEF Core, Timeouts, Wakes
<1>8. Waiters'
  <2>1. ASSUME NEW x \in Threads PROVE ~Stranded(x)'
    <3> SUFFICES ASSUME Stranded(x)' PROVE FALSE
      OBVIOUS
    <3>1. Registered(x) /\ ~Ready(x) /\ x # y
      BY <1>0, <1>5 DEF Stranded, Ready
    <3>2. nEvts'[x] = nEvts[x] /\ prio[x] # prio[y]
      BY <3>1, <1>2 DEF Wakes
    <3>3. x \in Ext => (Pending(x)' <=> Pending(x))
      BY <1>0, <3>2 DEF Pending
    <3> QED BY <3>1, <3>2, <3>3 DEF Core, Waiters, Stranded
  <2>2. \A t \in Ext : obj'[t] = "mutex" /\ Ready(t)' => Holds(t)' /\ has'[t] = 0
    BY <1>0, <1>5 DEF Core, Waiters, Holds, Wakes
  <2>3. \A p \in semaSet' : SemaWaits(p)' /\ m_count' = 0
    BY <1>0 DEF Core, Waiters, SemaWaits
  <2>4. \A p \in mutexSet' : MutexWaits(p)'
    BY <1>0, <1>2 DEF Core, Waiters, MutexWaits, CeilingUsed, Wakes
  <2> QED BY <2>1, <2>2, <2>3, <2>4 DEF Waiters
<1>9. LockChain'
  <2>1. \A x \in Lockers : /\ prio'[x] = prio[x] /\ Registered(x)' /\ Ready(x)'
                           /\ x \in Ext => obj'[x] = "none"
    BY <1>0, <1>5 DEF Core, LockChain, Lockers
  <2> QED BY <2>1, LockKept DEF Core, Wakes
<1>10. FramesSound(S)'
  <2>1. \A x \in Basic : /\ Registered(x)' <=> Registered(x)
                         /\ Ready(x) => Ready(x)'
                         /\ nEvts[x] > 0 => nEvts'[x] > 0
                         /\ Ready(x)' => Ready(x) \/ nEvts'[x] > 0
    BY <1>0, <1>5 DEF Wakes
  <2>2. \A p \in readySet' :
               \/ active'[p] \in Threads /\ prio'[active'[p]] = p
               \/ p \in readySet /\ active[p] = NULL /\ active'[p] = NULL
    BY <1>0, <1>2 DEF FramesSound
  <2> QED BY <1>0, <2>1, <2>2, FramesKept
<1> QED BY <1>3, <1>4, <1>6, <1>7, <1>8, <1>9, <1>10 DEF Core

\* An extended thread that becomes ready is not overlooked by a basic one.
LEMMA WakeSeen ==
    ASSUME XInv, NEW y \in Ext, Registered(y), Started, asrt = "none", next = NULL,
           readySet' = readySet \cup {prio[y]},
           UNCHANGED <<lockPrio, lockHolder, active>>
    PROVE  curr # NULL \/ active'[Elig'] \in Ext \/ Elig' <= actPrio
<1> USE ThreadPrios
<1>1. active[prio[y]] = y /\ prio[y] \in Prios
  BY Places DEF XInv, Placed
<1>2. Elig' = Elig \/ Elig' = prio[y]
  BY <1>1, WakeElig DEF XInv, Core
<1>3. Scheduled
  BY DEF XInv, Dispatching
<1> QED BY <1>1, <1>2, <1>3 DEF Scheduled

-----------------------------------------------------------------------------
(***************************************************************************)
(* The thread t blocks on o.                                               *)
(***************************************************************************)
Blocks(t, o, timed) ==
    /\ obj' = [obj EXCEPT ![t] = o]
    /\ armed' = [armed EXCEPT ![t] = timed] /\ sig' = [sig EXCEPT ![t] = TRUE]
    /\ readySet' = readySet \ {prio[t]}
    /\ UNCHANGED <<curr, locks, active, prio, nEvts, expiring, m_count, m_ceiling,
                   m_lockNest, m_holderPrio, has>>
    /\ \/ semaSet' = semaSet
       \/ o = "sema" /\ semaSet' = semaSet \cup {prio[t]} /\ m_count = 0
    /\ \/ mutexSet' = mutexSet
       \/ /\ o = "mutex" /\ mutexSet' = mutexSet \cup {prio[t]}
          /\ m_lockNest > 0 /\ m_holderPrio # PrioOf[t]
          /\ CeilingUsed => PrioOf[t] < m_ceiling

LEMMA BlockCore ==
    ASSUME Core, NEW S \in Seq(Frames), FramesSound(S),
           NEW t \in Ext, Registered(t), Ready(t), obj[t] = "none", t \notin Lockers,
           expiring = NULL, NEW o \in Objects \ {"none"}, NEW timed \in BOOLEAN,
           timed => o \in {"queue", "delay"}, Blocks(t, o, timed), Pending(t)'
    PROVE  Core' /\ FramesSound(S)'
<1> USE ThreadPrios
<1>0. /\ UNCHANGED <<curr, lockPrio, lockHolder, status, active, prio, nEvts,
                     expiring, m_count, m_ceiling, m_lockNest, m_holderPrio, has>>
      /\ readySet' = readySet \ {prio[t]}
      /\ Started' = Started /\ \A x : Registered(x)' = Registered(x)
      /\ \A x : Holds(x)' = Holds(x)
  BY DEF Blocks, locks, Started, Registered, Holds
<1>1. Placed
  BY Places
<1>2. /\ prio[t] \in Prios /\ active[prio[t]] = t
      /\ \A x \in Threads : prio[x] = prio[t] => x = t
  BY <1>1 DEF Placed
<1>3. /\ obj'[t] = o /\ \A x \in Ext : x # t => obj'[x] = obj[x]
      /\ armed'[t] = timed /\ \A x \in Ext : x # t => armed'[x] = armed[x]
      /\ sig'[t] /\ \A x \in Ext : x # t => sig'[x] = sig[x]
  BY DEF Core, ThreadTypes, Blocks
<1>4. ThreadTypes' /\ SyncTypes'
  <2>1. ThreadTypes'
    BY <1>0, <1>2 DEF Core, ThreadTypes, Blocks
  <2> QED BY <2>1, <1>0, <1>2 DEF Core, SyncTypes, Blocks
<1>5. Slotted'
  BY <1>0, SlottedKept DEF Core
<1>6. ~Ready(t)' /\ \A x \in Threads : x # t => (Ready(x)' <=> Ready(x))
  BY <1>0, <1>2 DEF Ready
<1>7. Held'
  <2>1. \A x \in Ext : obj[x] = "mutex" /\ Ready(x) /\ sig[x] =>
               obj'[x] = "mutex" /\ Ready(x)' /\ sig'[x]
    BY <1>3, <1>6
  <2> QED BY <1>0, <2>1, HeldKept DEF Core
<1>8. Timeouts'
  BY <1>0, <1>3, <1>6 DEF Core, Timeouts
<1>9. Waiters'
  <2>1. ASSUME NEW x \in Threads PROVE ~Stranded(x)'
    <3>1. CASE x = t
      BY <3>1 DEF Stranded
    <3>2. CASE x # t
      <4> SUFFICES ASSUME Stranded(x)' PROVE FALSE
        OBVIOUS
      <4>1. Registered(x) /\ ~Ready(x) /\ nEvts'[x] = nEvts[x]
        BY <1>0, <1>6, <3>2 DEF Stranded
      <4>2. ASSUME x \in Ext, Pending(x) PROVE Pending(x)'
        <5>1. obj'[x] = obj[x] /\ semaSet \subseteq semaSet' /\ mutexSet \subseteq mutexSet'
          BY <1>3, <3>2, <4>2 DEF Blocks
        <5> QED BY <1>0, <4>1, <4>2, <5>1 DEF Pending
      <4> QED BY <4>1, <4>2 DEF Core, Waiters, Stranded
    <3> QED BY <3>1, <3>2
  <2>2. \A x \in Ext : obj'[x] = "mutex" /\ Ready(x)' => Holds(x)' /\ has'[x] = 0
    BY <1>0, <1>3, <1>6 DEF Core, Waiters
  <2>3. \A p \in semaSet' : SemaWaits(p)' /\ m_count' = 0
    <3> SUFFICES ASSUME NEW p \in semaSet' PROVE SemaWaits(p)' /\ m_count' = 0
      OBVIOUS
    <3>1. CASE p \in semaSet
      <4>1. SemaWaits(p) /\ m_count = 0 /\ active[p] # t
        BY <3>1 DEF Core, Waiters, SemaWaits
      <4> QED BY <1>0, <1>3, <4>1 DEF SemaWaits
    <3>2. CASE p \notin semaSet
      <4>1. p = prio[t] /\ o = "sema" /\ m_count = 0
        BY <3>2 DEF Blocks
      <4> QED BY <1>0, <1>2, <1>3, <4>1 DEF SemaWaits
    <3> QED BY <3>1, <3>2
  <2>4. \A p \in mutexSet' : MutexWaits(p)'
    <3> SUFFICES ASSUME NEW p \in mutexSet' PROVE MutexWaits(p)'
      OBVIOUS
    <3>1. CASE p \in mutexSet
      <4>1. MutexWaits(p) /\ active[p] # t
        BY <3>1 DEF Core, Waiters, MutexWaits
      <4> QED BY <1>0, <1>3, <4>1 DEF MutexWaits, CeilingUsed
    <3>2. CASE p \notin mutexSet
      <4>1. /\ p = prio[t] /\ o = "mutex" /\ m_lockNest > 0
            /\ m_holderPrio # PrioOf[t] /\ (CeilingUsed => PrioOf[t] < m_ceiling)
        BY <3>2 DEF Blocks
      <4>2. prio[t] = PrioOf[t]
        BY <4>1 DEF Core, Slotted, Holds
      <4> QED BY <1>0, <1>2, <1>3, <4>1, <4>2 DEF MutexWaits, CeilingUsed
    <3> QED BY <3>1, <3>2
  <2> QED BY <2>1, <2>2, <2>3, <2>4 DEF Waiters
<1>10. LockChain'
  <2>1. \A x \in Lockers : /\ prio'[x] = prio[x] /\ Registered(x)' /\ Ready(x)'
                           /\ x \in Ext => obj'[x] = "none"
    BY <1>0, <1>3, <1>6 DEF Core, LockChain, Lockers
  <2> QED BY <2>1, LockKept DEF Core, Blocks
<1>11. FramesSound(S)'
  <2>1. \A x \in Basic : /\ Registered(x)' <=> Registered(x)
                         /\ Ready(x) => Ready(x)'
                         /\ nEvts[x] > 0 => nEvts'[x] > 0
                         /\ Ready(x)' => Ready(x) \/ nEvts'[x] > 0
    BY <1>0, <1>6
  <2>2. \A p \in readySet' :
               \/ active'[p] \in Threads /\ prio'[active'[p]] = p
               \/ p \in readySet /\ active[p] = NULL /\ active'[p] = NULL
    BY <1>0, <1>2 DEF FramesSound
  <2> QED BY <1>0, <2>1, <2>2, FramesKept
<1> QED BY <1>4, <1>5, <1>7, <1>8, <1>9, <1>10, <1>11 DEF Core

-----------------------------------------------------------------------------
(***************************************************************************)
(* Counters change, and a thread returns from a blocking call.             *)
(***************************************************************************)
Tallies ==
    /\ UNCHANGED <<curr, locks, readySet, active, prio, obj, armed, expiring,
                   semaSet, m_ceiling, m_lockNest, m_holderPrio, mutexSet, has>>
    /\ nEvts' \in [Threads -> Nat]
    /\ \A x \in Threads : \/ nEvts'[x] = nEvts[x] \/ Ready(x) \/ nEvts[x] > 0
                          \/ x \in Ext /\ obj[x] # "queue"
    /\ m_count' \in Nat /\ (m_count' = m_count \/ semaSet = {})
    /\ sig' \in [Ext -> BOOLEAN] /\ \A t \in Ext : sig[t] => sig'[t]

LEMMA TallyCore ==
    ASSUME Core, Tallies
    PROVE  Core'
<1> USE ThreadPrios
<1>0. /\ UNCHANGED <<curr, lockPrio, lockHolder, status, readySet, active, prio, obj,
                     armed, expiring, semaSet, m_ceiling, m_lockNest, m_holderPrio,
                     mutexSet, has>>
      /\ Started' = Started /\ \A x : Registered(x)' = Registered(x)
      /\ \A x : Ready(x)' = Ready(x)
  BY DEF Tallies, locks, Started, Registered, Ready
<1>1. ThreadTypes'
  BY <1>0 DEF Core, ThreadTypes, Tallies
<1>2. SyncTypes'
  BY <1>0 DEF Core, SyncTypes, Tallies
<1>3. Slotted'
  BY <1>0, SlottedKept DEF Core
<1>4. Held'
  <2>1. \A t \in Ext : obj[t] = "mutex" /\ Ready(t) /\ sig[t] =>
               obj'[t] = "mutex" /\ Ready(t)' /\ sig'[t]
    BY <1>0 DEF Tallies
  <2> QED BY <1>0, <2>1, HeldKept DEF Core
<1>5. Timeouts'
  BY <1>0 DEF Core, Timeouts, Tallies
<1>6. Waiters'
  <2>1. ASSUME NEW x \in Threads PROVE ~Stranded(x)'
    <3> SUFFICES ASSUME Stranded(x)' PROVE FALSE
      OBVIOUS
    <3>1. Registered(x) /\ ~Ready(x) /\ ~Stranded(x)
      BY <1>0 DEF Stranded, Core, Waiters
    <3>2. CASE x \in Basic
      <4>1. nEvts[x] = 0
        BY <3>1, <3>2 DEF Stranded
      <4>2. nEvts'[x] = 0
        BY <3>1, <3>2, <4>1 DEF Tallies
      <4> QED BY <3>2, <4>2 DEF Stranded
    <3>3. CASE x \in Ext
      <4>1. Pending(x)
        BY <3>1, <3>3 DEF Stranded
      <4>2. obj[x] = "queue" => nEvts'[x] = nEvts[x]
        BY <3>1, <3>3, <4>1 DEF Tallies, Pending
      <4>3. obj[x] = "sema" => m_count' = m_count
        BY <4>1 DEF Tallies, Pending
      <4>4. Pending(x)'
        BY <1>0, <4>1, <4>2, <4>3 DEF Pending
      <4> QED BY <3>3, <4>4 DEF Stranded
    <3> QED BY <3>2, <3>3
  <2>2. \A t \in Ext : obj'[t] = "mutex" /\ Ready(t)' => Holds(t)' /\ has'[t] = 0
    BY <1>0 DEF Core, Waiters, Holds
  <2>3. \A p \in semaSet' : SemaWaits(p)' /\ m_count' = 0
    BY <1>0 DEF Core, Waiters, SemaWaits, Tallies
  <2>4. \A p \in mutexSet' : MutexWaits(p)'
    BY <1>0 DEF Core, Waiters, MutexWaits, CeilingUsed
  <2> QED BY <2>1, <2>2, <2>3, <2>4 DEF Waiters
<1>7. LockChain'
  <2>1. \A x \in Lockers : /\ prio'[x] = prio[x] /\ Registered(x)' /\ Ready(x)'
                           /\ x \in Ext => obj'[x] = "none"
    BY <1>0 DEF Core, LockChain
  <2> QED BY <2>1, LockKept DEF Core, Tallies
<1> QED BY <1>1, <1>2, <1>3, <1>4, <1>5, <1>6, <1>7 DEF Core

Counts == Tallies /\ \A x \in Basic : nEvts[x] > 0 => nEvts'[x] > 0

LEMMA CountCore ==
    ASSUME Core, NEW S \in Seq(Frames), FramesSound(S), Counts
    PROVE  Core' /\ FramesSound(S)'
<1> USE ThreadPrios
<1>0. /\ UNCHANGED <<status, readySet, active, prio>>
      /\ \A x : Registered(x)' = Registered(x)
      /\ \A x : Ready(x)' = Ready(x)
  BY DEF Counts, Tallies, locks, Registered, Ready
<1>1. Core'
  BY TallyCore DEF Counts
<1>8. FramesSound(S)'
  <2>1. \A x \in Basic : /\ Registered(x)' <=> Registered(x)
                         /\ Ready(x) => Ready(x)'
                         /\ nEvts[x] > 0 => nEvts'[x] > 0
                         /\ Ready(x)' => Ready(x) \/ nEvts'[x] > 0
    BY <1>0 DEF Counts
  <2>2. \A p \in readySet' :
               \/ active'[p] \in Threads /\ prio'[active'[p]] = p
               \/ p \in readySet /\ active[p] = NULL /\ active'[p] = NULL
    BY <1>0 DEF FramesSound
  <2> QED BY <1>0, <2>1, <2>2, FramesKept
<1> QED BY <1>1, <1>8

\* t returns; if it waited for the mutex, it learns that it has it.
Returns(t) ==
    /\ obj' = [obj EXCEPT ![t] = "none"]
    /\ nEvts' \in [Threads -> Nat] /\ \A x \in Threads : x # t => nEvts'[x] = nEvts[x]
    /\ has' = IF obj[t] = "mutex" /\ sig[t] THEN [has EXCEPT ![t] = @ + 1] ELSE has
    /\ UNCHANGED <<curr, locks, readySet, active, prio, armed, sig, expiring, m_count,
                   semaSet, m_ceiling, m_lockNest, m_holderPrio, mutexSet>>

LEMMA ReturnCore ==
    ASSUME Core, NEW S \in Seq(Frames), FramesSound(S),
           NEW t \in Ext, Ready(t), ~armed[t], expiring = NULL, Returns(t)
    PROVE  Core' /\ FramesSound(S)'
<1> USE ThreadPrios
<1>0. /\ UNCHANGED <<curr, lockPrio, lockHolder, status, readySet, active, prio,
                     armed, sig, expiring, m_count, semaSet, m_ceiling, m_lockNest,
                     m_holderPrio, mutexSet>>
      /\ Started' = Started /\ \A x : Registered(x)' = Registered(x)
      /\ \A x : Ready(x)' = Ready(x) /\ Holds(x)' = Holds(x)
  BY DEF Returns, locks, Started, Registered, Ready, Holds
<1>1. /\ obj'[t] = "none" /\ \A x \in Ext : x # t => obj'[x] = obj[x]
      /\ obj' \in [Ext -> Objects]
  BY DEF Core, ThreadTypes, Returns, Objects
<1>2. /\ has' \in [Threads -> Nat] /\ \A x \in Threads : x # t => has'[x] = has[x]
      /\ obj[t] = "mutex" => has'[t] = 1 /\ m_lockNest = 1 /\ Holds(t)
      /\ obj[t] # "mutex" => has' = has
  <2>1. has \in [Threads -> Nat]
    BY DEF Core, SyncTypes
  <2>2. obj[t] = "mutex" => Holds(t) /\ has[t] = 0
    BY DEF Core, Waiters
  <2>3. obj[t] = "mutex" => m_lockNest = 1 /\ sig[t]
    BY <2>2 DEF Core, Held, Holds
  <2>4. CASE obj[t] = "mutex"
    <3>1. has' = [has EXCEPT ![t] = @ + 1]
      BY <2>3, <2>4 DEF Returns
    <3> QED BY <2>1, <2>2, <2>3, <2>4, <3>1
  <2> QED BY <2>1, <2>4 DEF Returns
<1>3. ThreadTypes' /\ SyncTypes'
  <2>1. ThreadTypes'
    BY <1>0, <1>1 DEF Core, ThreadTypes, Returns
  <2> QED BY <1>0, <1>2, <2>1 DEF Core, SyncTypes
<1>4. Slotted'
  BY <1>0, SlottedKept DEF Core
<1>5. Held'
  <2>1. ASSUME NEW x \in Threads, Holds(x)'
        PROVE  /\ Registered(x)'
               /\ CeilingUsed' => x \in Ext /\ PrioOf[x] < m_ceiling'
               /\ \/ has'[x] = m_lockNest'
                  \/ /\ x \in Ext /\ has'[x] = 0 /\ m_lockNest' = 1
                     /\ obj'[x] = "mutex" /\ Ready(x)' /\ sig'[x]
    <3>1. /\ Registered(x) /\ (CeilingUsed => x \in Ext /\ PrioOf[x] < m_ceiling)
          /\ \/ has[x] = m_lockNest
             \/ /\ x \in Ext /\ has[x] = 0 /\ m_lockNest = 1
                /\ obj[x] = "mutex" /\ Ready(x) /\ sig[x]
      BY <1>0, <2>1 DEF Core, Held
    <3>2. CASE x = t
      BY <1>0, <1>1, <1>2, <3>1, <3>2 DEF CeilingUsed
    <3>3. CASE x # t
      BY <1>0, <1>1, <1>2, <3>1, <3>3 DEF CeilingUsed
    <3> QED BY <3>2, <3>3
  <2>2. \A x \in Threads : has'[x] > 0 => Holds(x)'
    BY <1>0, <1>2 DEF Core, Held
  <2> QED BY <1>0, <2>1, <2>2 DEF Core, Held
<1>6. Timeouts'
  BY <1>0, <1>1 DEF Core, Timeouts
<1>7. Waiters'
  <2>1. ASSUME NEW x \in Threads PROVE ~Stranded(x)'
    <3> SUFFICES ASSUME Stranded(x)' PROVE FALSE
      OBVIOUS
    <3>1. Registered(x) /\ ~Ready(x) /\ x # t
      BY <1>0 DEF Stranded
    <3>2. nEvts'[x] = nEvts[x] /\ (x \in Ext => obj'[x] = obj[x])
      BY <1>1, <3>1 DEF Returns
    <3>3. x \in Ext => (Pending(x)' <=> Pending(x))
      BY <1>0, <3>2 DEF Pending
    <3> QED BY <3>1, <3>2, <3>3 DEF Core, Waiters, Stranded
  <2>2. \A x \in Ext : obj'[x] = "mutex" /\ Ready(x)' => Holds(x)' /\ has'[x] = 0
    BY <1>0, <1>1, <1>2 DEF Core, Waiters
  <2>3. \A p \in semaSet' : SemaWaits(p)' /\ m_count' = 0
    <3>1. \A p \in semaSet : SemaWaits(p) /\ m_count = 0 /\ active[p] # t
      BY DEF Core, Waiters, SemaWaits, Ready
    <3> QED BY <1>0, <1>1, <3>1 DEF SemaWaits
  <2>4. \A p \in mutexSet' : MutexWaits(p)'
    <3>1. \A p \in mutexSet : MutexWaits(p) /\ active[p] # t
      <4> SUFFICES ASSUME NEW p \in mutexSet, active[p] = t PROVE FALSE
        BY DEF Core, Waiters
      <4>1. PrioOf[t] = p /\ p \notin readySet /\ m_holderPrio # p
        BY DEF Core, Waiters, MutexWaits
      <4>2. prio[t] = p
        BY <4>1 DEF Core, Slotted, Holds
      <4> QED BY <4>1, <4>2 DEF Ready
    <3> QED BY <1>0, <1>1, <3>1 DEF MutexWaits, CeilingUsed
  <2> QED BY <2>1, <2>2, <2>3, <2>4 DEF Waiters
<1>8. LockChain'
  <2>1. \A x \in Lockers : /\ prio'[x] = prio[x] /\ Registered(x)' /\ Ready(x)'
                           /\ x \in Ext => obj'[x] = "none"
    BY <1>0, <1>1 DEF Core, LockChain
  <2> QED BY <2>1, LockKept DEF Core, Returns
<1>9. FramesSound(S)'
  <2>1. \A x \in Basic : /\ Registered(x)' <=> Registered(x)
                         /\ Ready(x) => Ready(x)'
                         /\ nEvts[x] > 0 => nEvts'[x] > 0
                         /\ Ready(x)' => Ready(x) \/ nEvts'[x] > 0
    BY <1>0 DEF Returns
  <2>2. \A p \in readySet' :
               \/ active'[p] \in Threads /\ prio'[active'[p]] = p
               \/ p \in readySet /\ active[p] = NULL /\ active'[p] = NULL
    BY <1>0 DEF FramesSound
  <2> QED BY <1>0, <2>1, <2>2, FramesKept
<1> QED BY <1>3, <1>4, <1>5, <1>6, <1>7, <1>8, <1>9 DEF Core

-----------------------------------------------------------------------------
(***************************************************************************)
(* The services that wake, block, count and return.                        *)
(***************************************************************************)
LEMMA Situation ==
    ASSUME XInv, asrt = "none", NEW S, S = stack
    PROVE  /\ Core /\ Dispatching /\ S \in Seq(Frames) /\ FramesSound(S)
           /\ lockPrio \in Nat /\ MAX_ACTIVE \in Nat
BY Numbers DEF XInv, Dispatching, DispatcherTypes, Core, ThreadTypes

\* A service in a context that may use it.
LEMMA InContext ==
    ASSUME XInv, NEW ctx \in Contexts, NEW service, Called(ctx, service)
    PROVE  /\ asrt = "none" /\ Started
           /\ ctx # "isr" => next = NULL
BY DEF Called, InIsr, Runs, Executes, ThreadsRun, XInv, Dispatching

LEMMA CountStep ==
    ASSUME XInv, asrt = "none", Started, Counts, NEW ctx, EndOf(ctx, "none")
    PROVE  XInv'
<1>1. PICK S : S = stack
  OBVIOUS
<1>2. Core /\ Dispatching /\ S \in Seq(Frames) /\ FramesSound(S)
  BY <1>1, Situation
<1>3. Core' /\ FramesSound(S)'
  BY <1>2, CountCore
<1>4. UNCHANGED <<curr, readySet, active, lockPrio, lockHolder>> /\ Started'
  BY DEF Counts, Tallies, locks, Started
<1>5. Dispatching'
  BY <1>1, <1>2, <1>3, <1>4, EndStep
<1> QED BY <1>3, <1>5 DEF XInv

LEMMA ReturnStep ==
    ASSUME XInv, NEW t \in Ext, NEW o, Resumes(t, o), Returns(t), UNCHANGED dispatcher
    PROVE  XInv'
<1>1. PICK S : S = stack
  OBVIOUS
<1>0. asrt = "none" /\ Started /\ ThreadsRun /\ curr = t /\ expiring = NULL
  BY DEF Resumes, ThreadsRun
<1>2. Core /\ Dispatching /\ S \in Seq(Frames) /\ FramesSound(S)
  BY <1>0, <1>1, Situation
<1>3. Ready(t) /\ ~armed[t]
  BY <1>0, CurrentThread
<1>4. Core' /\ FramesSound(S)'
  BY <1>0, <1>2, <1>3, ReturnCore
<1>5. Dispatching'
  <2>1. UNCHANGED <<curr, readySet, active, lockPrio, lockHolder>>
    BY DEF Returns, locks
  <2> QED BY <1>0, <1>1, <1>2, <1>4, <2>1, QuietStep
<1> QED BY <1>4, <1>5 DEF XInv

LEMMA WakeStep ==
    ASSUME XInv, asrt = "none", Started, NEW y \in Threads, Registered(y), Wakes(y),
           NEW ctx, NEW sched, EndOf(ctx, sched), sched # "none",
           ctx # "isr" => next = NULL, sched = "ignore" => y \in Ext
    PROVE  XInv'
<1>1. PICK S : S = stack
  OBVIOUS
<1>2. Core /\ Dispatching /\ S \in Seq(Frames) /\ FramesSound(S)
  BY <1>1, Situation
<1>3. Core' /\ FramesSound(S)'
  BY <1>2, WakeCore
<1>4. /\ curr' = curr /\ UNCHANGED <<lockPrio, lockHolder, active>> /\ Started'
      /\ readySet' = readySet \cup {prio[y]}
  BY DEF Wakes, locks, Started
<1>5. ctx # "isr" /\ sched = "ignore" =>
          curr # NULL \/ active'[Elig'] \in Ext \/ Elig' <= actPrio
  BY <1>4, WakeSeen
<1>6. Dispatching'
  BY <1>1, <1>2, <1>3, <1>4, <1>5, EndStep
<1> QED BY <1>3, <1>6 DEF XInv

\* Only a lock of its own, which it gave back before, keeps a thread from blocking.
LEMMA BlockStep ==
    ASSUME XInv, SupportedUse, NEW t \in Ext, NEW service, MayBlock(t, service),
           NEW o \in Objects \ {"none"}, NEW timed \in BOOLEAN, Block(t, o, timed),
           ~armed[t] => Blocks(t, o, timed) /\ Pending(t)'
    PROVE  XInv'
<1> USE ThreadPrios
<1>1. PICK S : S = stack
  OBVIOUS
<1>2. Runs(t) /\ lockHolder # prio[t]
  BY DEF MayBlock
<1>3. /\ ThreadsRun /\ Registered(t) /\ Ready(t) /\ obj[t] = "none" /\ curr = t
      /\ ~armed[t] /\ t \notin Lockers
  BY <1>2, RunsExecutes, RunningThread DEF HolderOf
<1>4. asrt = "none" /\ Started /\ expiring = NULL
  BY <1>3 DEF ThreadsRun
<1>5. Core /\ Dispatching /\ S \in Seq(Frames) /\ FramesSound(S)
  BY <1>1, <1>4, Situation
<1>6. timed => o \in {"queue", "delay"}
  BY DEF Block, SupportedUse, Objects
<1>7. Blocks(t, o, timed) /\ Pending(t)' /\ QXK_sched_("ignore")
  BY <1>3 DEF Block
<1>8. Core' /\ FramesSound(S)'
  BY <1>3, <1>4, <1>5, <1>6, <1>7, BlockCore
<1>9. curr' = curr /\ Started' /\ curr # NULL
  BY <1>3, <1>4, <1>7 DEF Blocks, locks, Started
<1>10. Dispatching'
  BY <1>1, <1>4, <1>5, <1>7, <1>8, <1>9, SchedStep
<1> QED BY <1>8, <1>10 DEF XInv

LEMMA queueGetStep ==
    ASSUME XInv, NEW t \in Ext, queueGet(t), UNCHANGED sync
    PROVE  XInv'
<1> USE ThreadPrios
<1>1. Runs(t)
  BY DEF queueGet, MayBlock
<1>2. Ready(t) /\ ThreadsRun
  BY <1>1, RunsExecutes, RunningThread
<1>3. nEvts \in [Threads -> Nat] /\ m_count \in Nat /\ sig \in [Ext -> BOOLEAN]
  BY DEF XInv, Core, ThreadTypes, SyncTypes
<1>4. Counts
  BY <1>2, <1>3 DEF queueGet, Counts, Tallies, waiting, sync
<1>5. EndOf("thread", "none")
  BY DEF queueGet, EndOf
<1> QED BY <1>2, <1>4, <1>5, CountStep DEF ThreadsRun

LEMMA queueResumeStep ==
    ASSUME XInv, NEW t \in Ext, queueResume(t), UNCHANGED sync
    PROVE  XInv'
<1>1. nEvts \in [Threads -> Nat] /\ obj[t] = "queue" /\ t \in Threads
  BY ThreadPrios DEF XInv, Core, ThreadTypes, queueResume, Resumes
<1>2. Returns(t)
  BY <1>1 DEF queueResume, Unblocked, Returns, sync
<1> QED BY <1>2, ReturnStep DEF queueResume

LEMMA delayResumeStep ==
    ASSUME XInv, NEW t \in Ext, delayResume(t), UNCHANGED sync
    PROVE  XInv'
<1>1. nEvts \in [Threads -> Nat] /\ obj[t] = "delay"
  BY DEF XInv, Core, ThreadTypes, delayResume, Resumes
<1>2. Returns(t)
  BY <1>1 DEF delayResume, Unblocked, Returns, sync
<1> QED BY <1>2, ReturnStep DEF delayResume

LEMMA waitResumeStep ==
    ASSUME XInv, NEW t \in Ext, waitResume(t)
    PROVE  XInv'
<1>1. nEvts \in [Threads -> Nat] /\ obj[t] = "sema"
  BY DEF XInv, Core, ThreadTypes, waitResume, Resumes
<1>2. Returns(t)
  BY <1>1 DEF waitResume, Unblocked, Returns, sync
<1> QED BY <1>2, ReturnStep DEF waitResume

LEMMA lockResumeStep ==
    ASSUME XInv, NEW t \in Ext, lockResume(t)
    PROVE  XInv'
<1>1. nEvts \in [Threads -> Nat] /\ obj[t] = "mutex"
  BY DEF XInv, Core, ThreadTypes, lockResume, Resumes
<1>2. Returns(t)
  BY <1>1 DEF lockResume, Unblocked, Acquires, Returns, sema, mutex
<1> QED BY <1>2, ReturnStep DEF lockResume

LEMMA queueBlockStep ==
    ASSUME XInv, SupportedUse, NEW t \in Ext, NEW timed \in BOOLEAN,
           queueBlock(t, timed), UNCHANGED sync
    PROVE  XInv'
<1>1. ASSUME ~armed[t] PROVE Blocks(t, "queue", timed) /\ Pending(t)'
  <2>1. Blocks(t, "queue", timed)
    BY <1>1 DEF queueBlock, Block, TeArm, Blocks, sync
  <2>2. obj'[t] = "queue" /\ nEvts'[t] = 0
    BY <2>1 DEF queueBlock, Blocks, XInv, Core, ThreadTypes
  <2> QED BY <2>1, <2>2 DEF Pending
<1> QED BY <1>1, BlockStep DEF queueBlock, Objects

LEMMA delayStep ==
    ASSUME XInv, SupportedUse, NEW t \in Ext, NEW timed \in BOOLEAN,
           delay(t, timed), UNCHANGED sync
    PROVE  XInv'
<1>1. ASSUME ~armed[t] PROVE Blocks(t, "delay", timed) /\ Pending(t)'
  <2>1. Blocks(t, "delay", timed)
    BY <1>1 DEF delay, Block, TeArm, Blocks, sync
  <2>2. obj'[t] = "delay"
    BY <2>1 DEF Blocks, XInv, Core, ThreadTypes
  <2> QED BY <2>1, <2>2 DEF Pending
<1> QED BY <1>1, BlockStep DEF delay, Objects

LEMMA waitBlockStep ==
    ASSUME XInv, SupportedUse, NEW t \in Ext, NEW timed \in BOOLEAN,
           waitBlock(t, timed)
    PROVE  XInv'
<1>1. ASSUME ~armed[t] PROVE Blocks(t, "sema", timed) /\ Pending(t)'
  <2>1. Blocks(t, "sema", timed)
    BY <1>1 DEF waitBlock, Block, TeArm, Blocks, mutex
  <2>2. /\ obj'[t] = "sema" /\ prio'[t] \in semaSet' /\ m_count' = 0
    BY <2>1 DEF waitBlock, Blocks, XInv, Core, ThreadTypes
  <2> QED BY <2>1, <2>2 DEF Pending
<1> QED BY <1>1, BlockStep DEF waitBlock, Objects

LEMMA lockBlockStep ==
    ASSUME XInv, SupportedUse, NEW t \in Ext, NEW timed \in BOOLEAN,
           lockBlock(t, timed)
    PROVE  XInv'
<1> USE ThreadPrios
<1>1. ASSUME ~armed[t] PROVE Blocks(t, "mutex", timed) /\ Pending(t)'
  <2>0. m_lockNest > 0 /\ m_holderPrio # PrioOf[t] /\ (CeilingUsed => PrioOf[t] < m_ceiling)
    BY DEF lockBlock, Nests, MayLock, CeilingUsed
  <2>1. Blocks(t, "mutex", timed)
    BY <1>1, <2>0 DEF lockBlock, Block, TeArm, Blocks, sema
  <2>2. /\ obj'[t] = "mutex" /\ prio'[t] \in mutexSet' /\ m_lockNest' > 0
        /\ m_holderPrio' # PrioOf[t]
    BY <2>0, <2>1 DEF lockBlock, Blocks, XInv, Core, ThreadTypes
  <2> QED BY <2>1, <2>2 DEF Pending
<1>2. MayBlock(t, "lock")
  BY DEF lockBlock, MayLock, MayBlock
<1> QED BY <1>1, <1>2, BlockStep DEF lockBlock, Objects

LEMMA waitStep ==
    ASSUME XInv, NEW t \in Ext, wait(t)
    PROVE  XInv'
<1> USE ThreadPrios
<1>1. Runs(t)
  BY DEF wait, MayBlock
<1>2. asrt = "none" /\ Started
  BY <1>1 DEF Runs, Executes, ThreadsRun
<1>3. /\ nEvts \in [Threads -> Nat] /\ m_count \in Nat /\ sig \in [Ext -> BOOLEAN]
      /\ semaSet # {} => m_count = 0
  BY DEF XInv, Core, ThreadTypes, SyncTypes, Waiters
<1>4. m_count' \in Nat /\ semaSet = {}
  BY <1>3 DEF wait
<1>5. Counts
  BY <1>3, <1>4 DEF wait, Counts, Tallies, mutex
<1>6. EndOf("thread", "none")
  BY DEF wait, EndOf
<1> QED BY <1>2, <1>5, <1>6, CountStep

LEMMA tryWaitStep ==
    ASSUME XInv, NEW ctx \in Contexts, tryWait(ctx)
    PROVE  XInv'
<1>1. asrt = "none" /\ Started
  BY InContext DEF tryWait
<1>2. /\ nEvts \in [Threads -> Nat] /\ m_count \in Nat /\ sig \in [Ext -> BOOLEAN]
      /\ semaSet # {} => m_count = 0
  BY DEF XInv, Core, ThreadTypes, SyncTypes, Waiters
<1>3. m_count' \in Nat /\ semaSet = {}
  BY <1>2 DEF tryWait
<1>4. Counts
  BY <1>2, <1>3 DEF tryWait, Counts, Tallies, mutex, waiting
<1> QED BY <1>1, <1>4, CountStep DEF tryWait

LEMMA signalCountStep ==
    ASSUME XInv, NEW ctx \in Contexts, signalCount(ctx)
    PROVE  XInv'
<1>1. asrt = "none" /\ Started
  BY InContext DEF signalCount
<1>2. nEvts \in [Threads -> Nat] /\ m_count \in Nat /\ sig \in [Ext -> BOOLEAN]
  BY DEF XInv, Core, ThreadTypes, SyncTypes
<1>3. m_count' \in Nat /\ semaSet = {}
  BY <1>2 DEF signalCount
<1>4. Counts
  BY <1>2, <1>3 DEF signalCount, Counts, Tallies, mutex, waiting
<1> QED BY <1>1, <1>4, CountStep DEF signalCount

\* A thread that does not wait for the semaphore is not in its wait set.
LEMMA OnlySemaWaiters ==
    ASSUME Core, NEW y \in Threads, Registered(y), y \in Ext => obj[y] # "sema"
    PROVE  semaSet = semaSet \ {prio[y]}
<1>1. active[prio[y]] = y
  BY Places DEF Placed
<1>2. prio[y] \notin semaSet
  BY <1>1, ThreadPrios DEF Core, Waiters, SemaWaits
<1> QED BY <1>2

LEMMA delayCancelStep ==
    ASSUME XInv, NEW ctx \in Contexts, NEW t \in Ext, delayCancel(ctx, t), UNCHANGED sync
    PROVE  XInv'
<1> USE ThreadPrios
<1>1. asrt = "none" /\ Started /\ (ctx # "isr" => next = NULL)
  BY InContext DEF delayCancel
<1>2. obj[t] = "delay" /\ Registered(t)
  BY DEF delayCancel, XInv, Core, Timeouts
<1>3. semaSet = semaSet \ {prio[t]}
  BY <1>2, OnlySemaWaiters DEF XInv
<1>4. /\ nEvts \in [Threads -> Nat] /\ armed \in [Ext -> BOOLEAN]
      /\ sig \in [Ext -> BOOLEAN] /\ nEvts[t] \in Nat
  BY DEF XInv, Core, ThreadTypes
<1>5. Wakes(t)
  BY <1>2, <1>3, <1>4 DEF delayCancel, TeDisarm, Wakes, sync
<1>6. EndOf(ctx, "ignore")
  BY DEF delayCancel
<1> QED BY <1>1, <1>2, <1>5, <1>6, WakeStep

LEMMA tickPostStep ==
    ASSUME XInv, tickPost, UNCHANGED sync
    PROVE  XInv'
<1> USE ThreadPrios
<1>0. PICK t : t = expiring
  OBVIOUS
<1>1. asrt = "none" /\ t \in Ext /\ Started
  BY <1>0 DEF tickPost, XInv, Core, ThreadTypes, Dispatching, Booting
<1>2. obj[t] \in {"queue", "delay"} /\ Registered(t) /\ ~armed[t]
  BY <1>0, <1>1 DEF XInv, Core, Timeouts
<1>3. semaSet = semaSet \ {prio[t]}
  BY <1>1, <1>2, OnlySemaWaiters DEF XInv
<1>4. /\ nEvts \in [Threads -> Nat] /\ armed \in [Ext -> BOOLEAN]
      /\ sig \in [Ext -> BOOLEAN] /\ nEvts[t] \in Nat
  BY <1>1 DEF XInv, Core, ThreadTypes
<1>5. Wakes(t)
  BY <1>0, <1>1, <1>2, <1>3, <1>4 DEF tickPost, Wakes, sync
<1>6. EndOf("isr", "ignore")
  BY DEF tickPost, EndOf
<1> QED BY <1>1, <1>2, <1>5, <1>6, WakeStep

LEMMA postStep ==
    ASSUME XInv, NEW ctx \in Contexts, NEW y \in Threads, post(ctx, y), UNCHANGED sync
    PROVE  XInv'
<1> USE ThreadPrios
<1>1. asrt = "none" /\ Started /\ (ctx # "isr" => next = NULL) /\ Registered(y)
  BY InContext DEF post
<1>2. /\ nEvts \in [Threads -> Nat] /\ armed \in [Ext -> BOOLEAN]
      /\ sig \in [Ext -> BOOLEAN] /\ nEvts[y] \in Nat /\ m_count \in Nat
  BY DEF XInv, Core, ThreadTypes, SyncTypes
<1>3. /\ nEvts' \in [Threads -> Nat] /\ nEvts'[y] = nEvts[y] + 1
      /\ \A x \in Threads : x # y => nEvts'[x] = nEvts[x]
  BY <1>2 DEF post
<1>4. CASE nEvts[y] = 0 /\ (y \in Ext => obj[y] = "queue")
  <2>1. semaSet = semaSet \ {prio[y]}
    BY <1>1, <1>4, OnlySemaWaiters DEF XInv
  <2>2. readySet' = readySet \cup {prio[y]}
        /\ (IF y \in Ext THEN TeDisarm(y) ELSE UNCHANGED armed)
        /\ EndOf(ctx, IF y \in Ext THEN "ignore" ELSE "activate")
    BY <1>4 DEF post
  <2>3. UNCHANGED <<curr, locks, active, prio, obj, sig, expiring>>
    BY DEF post
  <2>4. /\ armed' \in [Ext -> BOOLEAN] /\ \A t \in Ext : armed'[t] => armed[t]
        /\ y \in Ext => ~armed'[y]
    BY <1>2, <2>2 DEF TeDisarm
  <2>5. nEvts'[y] >= nEvts[y] /\ nEvts'[y] > 0
    BY <1>2, <1>3
  <2>6. Wakes(y)
    BY <1>2, <1>3, <1>4, <2>1, <2>2, <2>3, <2>4, <2>5 DEF Wakes, sync
  <2> DEFINE sched == IF y \in Ext THEN "ignore" ELSE "activate"
  <2>7. EndOf(ctx, sched) /\ sched # "none" /\ (sched = "ignore" => y \in Ext)
    BY <2>2
  <2> HIDE DEF sched
  <2> QED BY <1>1, <2>6, <2>7, WakeStep
<1>5. CASE ~(nEvts[y] = 0 /\ (y \in Ext => obj[y] = "queue"))
  <2>1. UNCHANGED <<readySet, armed>> /\ EndOf(ctx, "none")
    BY <1>5 DEF post
  <2>2. UNCHANGED <<curr, locks, active, prio, obj, sig, expiring>>
    BY DEF post
  <2>3. \A x \in Basic : nEvts[x] > 0 => nEvts'[x] > 0
    BY <1>2, <1>3
  <2>0. nEvts[y] > 0 \/ (y \in Ext /\ obj[y] # "queue")
    BY <1>2, <1>5
  <2>4. \A x \in Threads : \/ nEvts'[x] = nEvts[x] \/ Ready(x) \/ nEvts[x] > 0
                           \/ x \in Ext /\ obj[x] # "queue"
    BY <1>3, <2>0
  <2>5. Counts
    BY <1>2, <1>3, <2>1, <2>2, <2>3, <2>4 DEF Counts, Tallies, sync
  <2> QED BY <1>1, <2>1, <2>5, CountStep
<1> QED BY <1>4, <1>5

\* The highest-priority thread of the wait set waits for the semaphore.
LEMMA signalWaiterStep ==
    ASSUME XInv, NEW ctx \in Contexts, signalWaiter(ctx)
    PROVE  XInv'
<1> USE ThreadPrios
<1>1. asrt = "none" /\ Started /\ (ctx # "isr" => next = NULL)
  BY InContext DEF signalWaiter
<1>2. PICK p : p = findMax(semaSet)
  OBVIOUS
<1>3. semaSet # {} /\ semaSet \subseteq Prios
  BY DEF signalWaiter, XInv, Core, SyncTypes
<1>4. p \in semaSet /\ p \in Slots
  BY <1>2, <1>3, FindMax
<1>5. PICK y : y = active[p]
  OBVIOUS
<1>6. /\ y \in Ext /\ obj[y] = "sema" /\ prio[y] = p /\ m_count = 0
      /\ Registered(y)
  BY <1>4, <1>5 DEF XInv, Core, Waiters, SemaWaits, Timeouts
<1>7. Awaits(p)
  BY <1>5, <1>6 DEF Awaits
<1>8. /\ UNCHANGED <<curr, locks, active, prio, nEvts, obj, sig, expiring, m_count,
                     mutex, has>>
      /\ readySet' = readySet \cup {p} /\ semaSet' = semaSet \ {p}
      /\ TeDisarm(active[p]) /\ EndOf(ctx, "ignore")
  BY <1>2, <1>7 DEF signalWaiter
<1>9. /\ nEvts \in [Threads -> Nat] /\ armed \in [Ext -> BOOLEAN]
      /\ sig \in [Ext -> BOOLEAN] /\ nEvts[y] \in Nat
  BY <1>6 DEF XInv, Core, ThreadTypes
<1>10. Wakes(y)
  BY <1>5, <1>6, <1>8, <1>9 DEF TeDisarm, Wakes, mutex
<1> QED BY <1>1, <1>6, <1>8, <1>10, WakeStep

LEMMA tickExpireStep ==
    ASSUME XInv, NEW t \in Ext, tickExpire(t), UNCHANGED sync
    PROVE  XInv'
<1> USE ThreadPrios
<1>0. PICK S : S = stack
  OBVIOUS
<1>1. /\ asrt = "none" /\ Started /\ armed[t] /\ expiring' = t
      /\ armed' = [armed EXCEPT ![t] = FALSE]
      /\ UNCHANGED <<curr, next, pendSV, stack, actPrio, asrt, lockPrio, lockHolder,
                     status, seen, readySet, active, prio, nEvts, obj, sig, m_count,
                     semaSet, m_ceiling, m_lockNest, m_holderPrio, mutexSet, has>>
  BY DEF tickExpire, dispatcher, locks, sync
<1>2. Core /\ Dispatching /\ S \in Seq(Frames) /\ FramesSound(S)
  BY <1>0, <1>1, Situation
<1>3. /\ \A x : Registered(x)' = Registered(x) /\ Ready(x)' = Ready(x)
      /\ \A x : Holds(x)' = Holds(x)
      /\ Started' = Started
  BY <1>1 DEF Registered, Ready, Holds, Started
<1>4. ThreadTypes' /\ SyncTypes'
  BY <1>1, <1>2 DEF Core, ThreadTypes, SyncTypes
<1>5. Slotted' /\ Held'
  BY <1>1, <1>2, <1>3, SlottedKept, HeldKept DEF Core
<1>6. Timeouts'
  BY <1>1, <1>2, <1>3 DEF Core, ThreadTypes, Timeouts
<1>7. Waiters'
  BY <1>1, <1>2 DEF Core, Waiters, Stranded, Pending, SemaWaits, MutexWaits, Holds,
                    CeilingUsed, Registered, Ready
<1>8. LockChain'
  <2>1. \A x \in Lockers : /\ prio'[x] = prio[x] /\ Registered(x)' /\ Ready(x)'
                           /\ x \in Ext => obj'[x] = "none"
    BY <1>1, <1>2, <1>3 DEF Core, LockChain
  <2> QED BY <1>1, <1>2, <2>1, LockKept DEF Core, locks
<1>9. FramesSound(S)'
  BY <1>1, <1>2, <1>3 DEF FramesSound, FrameSound, Lockers
<1>10. Dispatching'
  BY <1>0, <1>1, <1>2, <1>9, QuietStep DEF dispatcher
<1> QED BY <1>4, <1>5, <1>6, <1>7, <1>8, <1>10 DEF XInv, Core

-----------------------------------------------------------------------------
(***************************************************************************)
(* The scheduler lock.                                                     *)
(***************************************************************************)
LEMMA SteadyCore ==
    ASSUME Core, Started' = Started,
           UNCHANGED <<readySet, active, prio, nEvts, obj, armed, sig, expiring, sync>>
    PROVE  /\ SyncTypes' /\ Slotted' /\ Held' /\ Timeouts' /\ Waiters'
           /\ \A x : Registered(x)' = Registered(x) /\ Ready(x)' = Ready(x)
<1>1. UNCHANGED <<m_count, semaSet, m_ceiling, m_lockNest, m_holderPrio, mutexSet, has>>
  BY DEF sync
<1>2. \A x : Registered(x)' = Registered(x) /\ Ready(x)' = Ready(x)
  BY DEF Registered, Ready
<1>3. SyncTypes'
  BY <1>1 DEF Core, SyncTypes
<1>4. Slotted'
  BY <1>1, SlottedKept DEF Core
<1>5. Held'
  BY <1>1, <1>2, HeldKept DEF Core
<1>6. Timeouts'
  BY <1>1, <1>2 DEF Core, Timeouts
<1>7. Waiters'
  BY <1>1 DEF Core, Waiters, Stranded, Pending, SemaWaits, MutexWaits, Holds,
              CeilingUsed, Registered, Ready
<1> QED BY <1>2, <1>3, <1>4, <1>5, <1>6, <1>7

LEMMA NotNoChange ==
    /\ NoChange \in Statuses /\ NULL # NoChange
    /\ \A p \in 0 .. MAX_ACTIVE, h \in Nat : [prev |-> p, holder |-> h] # NoChange
<1>1. MAX_ACTIVE \in Nat /\ MAX_ACTIVE <= 64
  BY Numbers
<1>2. NoChange \in Statuses
  BY DEF NoChange, Statuses
<1>3. NULL # NoChange
  BY <1>2, ThreadPrios
<1>4. ASSUME NEW p \in 0 .. MAX_ACTIVE, NEW h \in Nat PROVE [prev |-> p, holder |-> h] # NoChange
  <2>1. p # 255
    BY <1>1
  <2> QED BY <2>1 DEF NoChange
<1> QED BY <1>2, <1>3, <1>4

\* A thread becomes, or ceases to be, one that only asked for a lock.
LEMMA LockIdle ==
    ASSUME LockChain, NEW x \in Threads, x \notin Lockers, NEW s \in {NULL, NoChange},
           status \in [Threads -> Statuses \cup {NULL}],
           status' = [status EXCEPT ![x] = s],
           UNCHANGED <<lockPrio, lockHolder, prio, active, readySet, obj>>
    PROVE  LockChain' /\ Lockers' = Lockers
<1>1. status'[x] = s /\ \A y \in Threads : y # x => status'[y] = status[y]
  OBVIOUS
<1>2. Lockers' = Lockers
  BY <1>1 DEF Lockers
<1>3. \A y \in Lockers : status'[y] = status[y]
  BY <1>1 DEF Lockers
<1>4. \A y : Registered(y)' = Registered(y) /\ Ready(y)' = Ready(y)
      /\ LockersBelow(y)' = LockersBelow(y)
  BY <1>2 DEF Registered, Ready, LockersBelow
<1>5. \A h, X : HolderAmong(h, X)' = HolderAmong(h, X)
  BY DEF HolderAmong, HolderOf
<1>6. HolderAmong(lockHolder, Lockers)'
  <2>1. PICK h, X : h = lockHolder /\ X = Lockers
    OBVIOUS
  <2>2. HolderAmong(h, X)'
    BY <1>5, <2>1 DEF LockChain
  <2> QED BY <1>2, <2>1, <2>2 DEF HolderAmong
<1>7. ASSUME NEW y \in Lockers PROVE HolderAmong(status[y].holder, LockersBelow(y))'
  <2>1. PICK h, X : h = status[y].holder /\ X = LockersBelow(y)
    OBVIOUS
  <2>2. HolderAmong(h, X)'
    BY <1>5, <2>1 DEF LockChain
  <2> QED BY <1>3, <1>4, <2>1, <2>2 DEF HolderAmong
<1>8. Started' = Started
  BY DEF Started
<1> QED BY <1>2, <1>3, <1>4, <1>6, <1>7, <1>8 DEF LockChain

\* The running thread x raises the lock to c.
LEMMA LockRaised ==
    ASSUME LockChain, ThreadTypes, NEW x \in Threads, x \notin Lockers, Started,
           Registered(x), Ready(x), x \in Ext => obj[x] = "none",
           \A y \in Threads : prio[y] \in Nat,
           \A y \in Lockers : prio[y] < prio[x],
           NEW c \in Prios, lockPrio < c, lockPrio' = c, lockHolder' = HolderOf(x),
           status' = [status EXCEPT ![x] = [prev |-> lockPrio, holder |-> lockHolder]],
           UNCHANGED <<prio, active, readySet, obj>>
    PROVE  LockChain' /\ Lockers' = Lockers \cup {x}
<1> DEFINE s == [prev |-> lockPrio, holder |-> lockHolder]
<1>0. lockPrio \in 0 .. MAX_ACTIVE /\ lockHolder \in Nat /\ c \in Nat /\ c <= MAX_ACTIVE
      /\ lockPrio \in Nat /\ MAX_ACTIVE \in Nat
  BY Numbers DEF ThreadTypes, Started, Prios
<1>1. s \in Statuses /\ s # NoChange /\ s # NULL /\ s.prev = lockPrio /\ s.holder = lockHolder
  BY <1>0, NotNoChange, ThreadPrios DEF Statuses
<1>2. status'[x] = s /\ \A y \in Threads : y # x => status'[y] = status[y]
  BY DEF ThreadTypes
<1> HIDE DEF s
<1>3. Lockers' = Lockers \cup {x}
  BY <1>1, <1>2 DEF Lockers
<1>4. \A y \in Lockers : status'[y] = status[y] /\ status[y].prev \in Nat /\ y \in Threads
  BY <1>2, NotNoChange DEF Lockers, ThreadTypes, Statuses
<1>5. \A y : Registered(y)' = Registered(y) /\ Ready(y)' = Ready(y)
  BY DEF Registered, Ready
<1>6. \A y \in Lockers : LockersBelow(y)' = LockersBelow(y)
  <2> SUFFICES ASSUME NEW y \in Lockers PROVE ~(prio[x] < prio[y])
    BY <1>3 DEF LockersBelow
  <2> QED BY <1>4
<1>7. LockersBelow(x)' = Lockers
  BY <1>3 DEF LockersBelow
<1>8. \A h, X : HolderAmong(h, X)' = HolderAmong(h, X)
  BY DEF HolderAmong, HolderOf
<1>9. HolderAmong(lockHolder, Lockers)'
  <2>1. \A z \in Lockers \cup {x} : prio[z] <= prio[x]
    BY <1>4
  <2>2. \A z \in Lockers' : prio'[z] <= prio'[x]
    BY <1>3, <2>1
  <2>3. x \in Lockers' /\ lockHolder' = HolderOf(x)'
    BY <1>3 DEF HolderOf
  <2> QED BY <2>2, <2>3 DEF HolderAmong
<1>10. ASSUME NEW y \in Lockers PROVE HolderAmong(status[y].holder, LockersBelow(y))'
  <2>1. PICK h, X : h = status[y].holder /\ X = LockersBelow(y)
    OBVIOUS
  <2>2. HolderAmong(h, X)'
    BY <1>8, <2>1 DEF LockChain
  <2> QED BY <1>4, <1>6, <2>1, <2>2 DEF HolderAmong
<1>11. HolderAmong(status[x].holder, LockersBelow(x))'
  <2>1. PICK h, X : h = lockHolder /\ X = Lockers
    OBVIOUS
  <2>2. HolderAmong(h, X)'
    BY <1>8, <2>1 DEF LockChain
  <2> QED BY <1>1, <1>2, <1>7, <2>1, <2>2 DEF HolderAmong
<1>12. Started'
  BY <1>0 DEF Started
<1>13. \A y \in Lockers' : /\ Registered(y)' /\ Ready(y)' /\ (y \in Ext => obj'[y] = "none")
                           /\ status'[y].prev < lockPrio'
  <2> SUFFICES ASSUME NEW y \in Lockers'
               PROVE  /\ Registered(y)' /\ Ready(y)' /\ (y \in Ext => obj'[y] = "none")
                      /\ status'[y].prev < lockPrio'
    OBVIOUS
  <2>1. CASE y = x
    BY <1>0, <1>1, <1>2, <1>5, <2>1
  <2>2. CASE y \in Lockers
    <3>1. status[y].prev < lockPrio
      BY <2>2 DEF LockChain
    <3> QED BY <1>0, <1>4, <1>5, <2>2, <3>1 DEF LockChain
  <2> QED BY <1>3, <2>1, <2>2
<1>14. \A y, z \in Lockers' : prio'[y] < prio'[z] => status'[y].prev < status'[z].prev
  <2> SUFFICES ASSUME NEW y \in Lockers', NEW z \in Lockers', prio[y] < prio[z]
               PROVE  status'[y].prev < status'[z].prev
    OBVIOUS
  <2>1. y \in Lockers
    BY <1>3, <1>4
  <2>2. CASE z \in Lockers
    BY <1>4, <2>1, <2>2 DEF LockChain
  <2>3. CASE z = x
    BY <1>1, <1>2, <1>4, <2>1, <2>3 DEF LockChain
  <2> QED BY <1>3, <2>2, <2>3
<1>15. \A y \in Lockers' : HolderAmong(status[y].holder, LockersBelow(y))'
  BY <1>3, <1>10, <1>11
<1> QED BY <1>3, <1>9, <1>12, <1>13, <1>14, <1>15 DEF LockChain

\* The last thread of the chain gives its lock back.
LEMMA LockLowered ==
    ASSUME LockChain, ThreadTypes, NEW x \in Lockers,
           \A y \in Threads : prio[y] \in Nat,
           \A y, z \in Threads : prio[y] = prio[z] => y = z,
           \A y \in Lockers : prio[y] <= prio[x],
           lockPrio' = status[x].prev, lockHolder' = status[x].holder,
           status' = [status EXCEPT ![x] = NULL],
           UNCHANGED <<prio, active, readySet, obj>>
    PROVE  /\ LockChain' /\ Lockers' = Lockers \ {x} /\ Started'
           /\ lockPrio' \in 0 .. MAX_ACTIVE /\ lockHolder' \in Slots
<1>0. /\ x \in Threads /\ \A y \in Lockers : y \in Threads /\ status[y].prev \in Nat
      /\ MAX_ACTIVE \in Nat /\ lockPrio \in Nat /\ lockPrio <= MAX_ACTIVE
  BY Numbers DEF Lockers, ThreadTypes, Statuses, LockChain, Started
<1>1. status'[x] = NULL /\ \A y \in Threads : y # x => status'[y] = status[y]
  BY <1>0 DEF ThreadTypes
<1>2. Lockers' = Lockers \ {x}
  BY <1>1 DEF Lockers
<1>3. LockersBelow(x) = Lockers \ {x}
  <2>1. \A y \in Lockers \ {x} : prio[y] < prio[x]
    BY <1>0
  <2> QED BY <1>0, <2>1 DEF LockersBelow
<1>4. \A y \in Lockers' : status'[y] = status[y] /\ LockersBelow(y)' = LockersBelow(y)
  <2> SUFFICES ASSUME NEW y \in Lockers' PROVE ~(prio[x] < prio[y])
    BY <1>0, <1>1, <1>2 DEF LockersBelow
  <2> QED BY <1>0, <1>2
<1>5. \A y : Registered(y)' = Registered(y) /\ Ready(y)' = Ready(y)
  BY DEF Registered, Ready
<1>6. \A h, X : HolderAmong(h, X)' = HolderAmong(h, X)
  BY DEF HolderAmong, HolderOf
<1>7. HolderAmong(lockHolder, Lockers)'
  <2>1. PICK h, X : h = status[x].holder /\ X = LockersBelow(x)
    OBVIOUS
  <2>2. HolderAmong(h, X)'
    BY <1>6, <2>1 DEF LockChain
  <2> QED BY <1>2, <1>3, <2>1, <2>2 DEF HolderAmong
<1>8. ASSUME NEW y \in Lockers' PROVE HolderAmong(status[y].holder, LockersBelow(y))'
  <2>1. PICK h, X : h = status[y].holder /\ X = LockersBelow(y)
    OBVIOUS
  <2>2. HolderAmong(h, X)'
    BY <1>2, <1>6, <2>1 DEF LockChain
  <2> QED BY <1>4, <2>1, <2>2 DEF HolderAmong
<1>9. lockPrio' \in 0 .. MAX_ACTIVE /\ Started'
  <2>1. status[x].prev < lockPrio /\ status[x].prev \in Nat
    BY <1>0 DEF LockChain
  <2> QED BY <1>0, <2>1 DEF Started
<1>10. lockHolder' \in Slots
  <2>1. HolderAmong(status[x].holder, LockersBelow(x))
    BY DEF LockChain
  <2>2. LockersBelow(x) \subseteq Threads
    BY <1>0, <1>3
  <2> QED BY <2>1, <2>2, Numbers DEF HolderAmong, HolderOf, ThreadTypes
<1>11. \A y \in Lockers' : /\ Registered(y)' /\ Ready(y)' /\ (y \in Ext => obj'[y] = "none")
                           /\ status'[y].prev < lockPrio'
  <2> SUFFICES ASSUME NEW y \in Lockers'
               PROVE  /\ Registered(y)' /\ Ready(y)' /\ (y \in Ext => obj'[y] = "none")
                      /\ status'[y].prev < lockPrio'
    OBVIOUS
  <2>1. y \in Lockers /\ prio[y] < prio[x]
    BY <1>2, <1>3 DEF LockersBelow
  <2> QED BY <1>4, <1>5, <2>1 DEF LockChain
<1>12. \A y, z \in Lockers' : prio'[y] < prio'[z] => status'[y].prev < status'[z].prev
  BY <1>2, <1>4 DEF LockChain
<1> QED BY <1>2, <1>7, <1>8, <1>9, <1>10, <1>11, <1>12 DEF LockChain

\* The frames S, when only statuses change.
LEMMA FramesLocks ==
    ASSUME NEW S \in Seq(Frames), FramesSound(S),
           UNCHANGED <<readySet, active, prio, nEvts>>,
           \A x \in Lockers' \cap Basic : x \in Lockers \/
               \E i \in DOMAIN S : S[i].obj = x /\ S[i].at = "rtc"
    PROVE  FramesSound(S)'
<1>1. \A x : Registered(x)' = Registered(x) /\ Ready(x)' = Ready(x)
  BY DEF Registered, Ready
<1>2. \A i \in DOMAIN S : FrameSound(S[i])'
  BY <1>1 DEF FramesSound, FrameSound
<1>3. \A x \in Lockers' \cap Basic :
         \E i \in DOMAIN S : S[i].obj = x /\ S[i].at = "rtc"
  BY DEF FramesSound
<1> QED BY <1>1, <1>2, <1>3 DEF FramesSound

LEMMA schedLockStep ==
    ASSUME XInv, NEW x \in Threads, NEW c \in LockCeilings[x], schedLock(x, c),
           UNCHANGED sync
    PROVE  XInv'
<1> USE ThreadPrios
<1>0. PICK S : S = stack
  OBVIOUS
<1>1. Runs(x) /\ status[x] = NULL /\ x \notin Lockers
  BY DEF schedLock, Lockers
<1>2. /\ ThreadsRun /\ next = NULL /\ Registered(x) /\ Ready(x) /\ active[prio[x]] = x
      /\ x \in Ext => curr = x /\ obj[x] = "none" /\ Elig = prio[x]
      /\ x \in Basic => /\ curr = NULL /\ stack # << >> /\ Top.obj = x
                        /\ Top.at = "rtc" /\ Elig <= actPrio /\ active[Elig] \notin Ext
      /\ \A y \in Lockers : prio[y] <= prio[x]
  BY <1>1, RunsExecutes, RunningThread
<1>3. asrt = "none" /\ Started
  BY <1>2 DEF ThreadsRun
<1>4. Core /\ Dispatching /\ S \in Seq(Frames) /\ FramesSound(S) /\ Placed
  BY <1>0, <1>3, Situation, Places
<1>5. UNCHANGED <<curr, next, pendSV, stack, actPrio, asrt, readySet, active, prio,
                  nEvts, obj, armed, sig, expiring>>
  BY DEF schedLock, dispatcher, waiting
<1>6. c \in Prios /\ c \in Nat /\ c <= MAX_ACTIVE /\ MAX_ACTIVE \in Nat
      /\ lockPrio \in Nat /\ lockHolder \in Slots
  BY <1>4, Numbers, QXKAssumption DEF Core, ThreadTypes, Slots
<1>7. \A y \in Threads : prio[y] \in Nat /\ prio[y] \in Slots
  BY <1>4, Numbers DEF Placed
<1>8. CASE ~(lockPrio < c)
  <2>1. status' = [status EXCEPT ![x] = NoChange] /\ UNCHANGED <<lockPrio, lockHolder>>
    BY <1>8 DEF schedLock
  <2>2. Started' = Started
    BY <2>1 DEF Started
  <2>3. /\ SyncTypes' /\ Slotted' /\ Held' /\ Timeouts' /\ Waiters'
    BY <1>4, <1>5, <2>2, SteadyCore
  <2>4. ThreadTypes'
    BY <1>4, <1>5, <2>1, NotNoChange DEF Core, ThreadTypes
  <2>5. LockChain' /\ Lockers' = Lockers
    BY <1>1, <1>4, <1>5, <2>1, LockIdle DEF Core, ThreadTypes
  <2>6. FramesSound(S)'
    BY <1>4, <1>5, <2>5, FramesLocks
  <2>7. Dispatching'
    BY <1>0, <1>3, <1>4, <1>5, <2>1, <2>6, QuietStep DEF dispatcher
  <2> QED BY <2>3, <2>4, <2>5, <2>7 DEF XInv, Core
<1>9. CASE lockPrio < c
  <2>1. /\ status' = [status EXCEPT ![x] = [prev |-> lockPrio, holder |-> lockHolder]]
        /\ lockPrio' = c /\ lockHolder' = HolderOf(x)
    BY <1>9 DEF schedLock
  <2>2. Started' = Started /\ Started'
    BY <1>3, <1>6, <2>1 DEF Started
  <2>3. /\ SyncTypes' /\ Slotted' /\ Held' /\ Timeouts' /\ Waiters'
    BY <1>4, <1>5, <2>2, SteadyCore
  <2>4. ThreadTypes'
    <3>1. [prev |-> lockPrio, holder |-> lockHolder] \in Statuses
      BY <1>6, Numbers DEF Statuses
    <3>2. lockPrio' \in 0 .. MAX_ACTIVE + 1 /\ lockHolder' \in Slots
      BY <1>6, <1>7, <2>1, Numbers DEF HolderOf
    <3> QED BY <1>4, <1>5, <2>1, <3>1, <3>2 DEF Core, ThreadTypes
  <2>5. \A y \in Lockers : prio[y] < prio[x]
    BY <1>1, <1>2, <1>4, <1>7 DEF Placed, Lockers
  <2>6. LockChain' /\ Lockers' = Lockers \cup {x}
    BY <1>1, <1>2, <1>3, <1>4, <1>5, <1>6, <1>7, <1>9, <2>1, <2>5, LockRaised DEF Core
  <2>7. FramesSound(S)'
    <3>1. ASSUME x \in Basic PROVE \E i \in DOMAIN S : S[i].obj = x /\ S[i].at = "rtc"
      <4>1. Len(stack) \in DOMAIN stack
        BY <1>2, <1>4, <3>1, TopFrame DEF Dispatching
      <4> QED BY <1>0, <1>2, <3>1, <4>1 DEF Top
    <3>2. \A y \in Lockers' \cap Basic : y \in Lockers \/
               \E i \in DOMAIN S : S[i].obj = y /\ S[i].at = "rtc"
      BY <2>6, <3>1
    <3> QED BY <1>4, <1>5, <3>2, FramesLocks
  <2>8. Scheduled'
    <3>1. findMax(readySet) \in Nat /\ findMax(readySet') = findMax(readySet)
      BY <1>4, <1>5, FindMax, Numbers DEF Core, ThreadTypes
    <3>2. Elig' = IF findMax(readySet) <= c THEN HolderOf(x) ELSE findMax(readySet)
      BY <1>5, <2>1 DEF Elig
    <3>3. Elig' = HolderOf(x) \/ Elig' = Elig
      BY <1>6, <1>9, <3>1, <3>2 DEF Elig
    <3>4. CASE x \in Ext
      <4>1. Elig' = prio[x]
        BY <1>2, <3>3, <3>4 DEF HolderOf
      <4> QED BY <1>2, <1>5, <3>4, <4>1 DEF Scheduled
    <3>5. CASE x \in Basic
      <4>1. active[0] = Idle /\ actPrio \in Nat
        BY <1>4, Numbers DEF Core, Slotted, Dispatching, DispatcherTypes
      <4>2. Elig' = 0 \/ Elig' = Elig
        BY <3>3, <3>5 DEF HolderOf
      <4>3. active[Elig'] \notin Ext /\ Elig' <= actPrio
        BY <1>2, <3>5, <4>1, <4>2
      <4> QED BY <1>2, <1>5, <3>5, <4>3 DEF Scheduled
    <3> QED BY <3>4, <3>5
  <2>9. Dispatching'
    BY <1>0, <1>3, <1>4, <1>5, <2>2, <2>7, <2>8, QuietDispatch DEF dispatcher
  <2> QED BY <2>3, <2>4, <2>6, <2>9 DEF XInv, Core
<1> QED BY <1>8, <1>9

\* Nothing that the invariant speaks of changes.
LEMMA SameXInv ==
    ASSUME XInv,
           UNCHANGED <<curr, dispatcher, lockPrio, lockHolder, status, readySet, active,
                       prio, nEvts, obj, armed, sig, expiring, sync>>
    PROVE  XInv'
<1> USE DEF dispatcher, sync
<1>1. ThreadTypes' /\ SyncTypes'
  BY DEF XInv, Core, ThreadTypes, SyncTypes
<1>2. Slotted'
  BY DEF XInv, Core, Slotted, Holds, CeilingUsed, Started
<1>3. Held'
  BY DEF XInv, Core, Held, Holds, CeilingUsed, Started, Registered, Ready
<1>4. Timeouts'
  BY DEF XInv, Core, Timeouts, Registered, Ready
<1>5. Waiters'
  BY DEF XInv, Core, Waiters, Stranded, Pending, SemaWaits, MutexWaits, Registered,
         Ready, Holds, CeilingUsed
<1>6. LockChain'
  BY DEF XInv, Core, LockChain, Lockers, LockersBelow, HolderAmong, HolderOf, Started,
         Registered, Ready
<1>7. /\ DispatcherTypes' /\ FramesNested' /\ NoKernelAssertion'
      /\ (Started' <=> Started) /\ (Booting => Booting') /\ (Scheduled => Scheduled')
  BY DEF XInv, Dispatching, DispatcherTypes, FramesNested, Top, NoKernelAssertion,
         Stopping, Registered, Started, Booting, Scheduled, Elig, findMax
<1>8. FramesSound(stack) => FramesSound(stack)'
  BY DEF FramesSound, FrameSound, Registered, Ready, Lockers
<1> QED BY <1>1, <1>2, <1>3, <1>4, <1>5, <1>6, <1>7, <1>8 DEF XInv, Core, Dispatching

LEMMA schedUnlockStep ==
    ASSUME XInv, NEW x \in Threads, schedUnlock(x), UNCHANGED sync
    PROVE  XInv'
<1> USE ThreadPrios
<1>0. PICK S : S = stack
  OBVIOUS
<1>1. Runs(x) /\ status[x] # NULL
  BY DEF schedUnlock
<1>2. ThreadsRun /\ next = NULL
  BY <1>1, RunsExecutes, RunningThread
<1>3. asrt = "none" /\ Started
  BY <1>2 DEF ThreadsRun
<1>4. Core /\ Dispatching /\ S \in Seq(Frames) /\ FramesSound(S)
  BY <1>0, <1>3, Situation
<1>5. UNCHANGED <<curr, dispatcher, lockPrio, lockHolder, readySet, active, prio, nEvts,
                  obj, armed, sig, expiring>>
  BY DEF schedUnlock, waiting
<1>6. CASE status[x] = NoChange
  <2>1. status' = [status EXCEPT ![x] = NULL] /\ x \notin Lockers
    BY <1>6 DEF schedUnlock, Lockers
  <2>2. Started' = Started
    BY <1>5 DEF Started
  <2>3. /\ SyncTypes' /\ Slotted' /\ Held' /\ Timeouts' /\ Waiters'
    BY <1>4, <1>5, <2>2, SteadyCore
  <2>4. ThreadTypes'
    BY <1>4, <1>5, <2>1, NotNoChange DEF Core, ThreadTypes
  <2>5. LockChain' /\ Lockers' = Lockers
    BY <1>4, <1>5, <2>1, LockIdle DEF Core, ThreadTypes
  <2>6. FramesSound(S)'
    BY <1>4, <1>5, <2>5, FramesLocks
  <2>7. Dispatching'
    BY <1>0, <1>3, <1>4, <1>5, <2>1, <2>6, QuietStep DEF dispatcher
  <2> QED BY <2>3, <2>4, <2>5, <2>7 DEF XInv, Core
<1>7. CASE status[x] # NoChange
  <2>1. status' = status
    BY <1>7 DEF schedUnlock
  <2> QED BY <1>5, <2>1, SameXInv
<1> QED BY <1>6, <1>7

\* A thread that left schedUnlock's critical section no longer holds the
\* scheduler lock; the assertion before it holds because of Reads.
LEMMA restoreLockStep ==
    ASSUME XInv, Reads, NEW x \in Threads, restoreLock(x), UNCHANGED sync
    PROVE  XInv'
<1> USE ThreadPrios
<1>0. PICK S : S = stack
  OBVIOUS
<1>1. Executes(x) /\ seen[x] # NULL /\ x \in Lockers /\ status[x].prev < seen[x]
  BY DEF restoreLock, Reads
<1>2. ThreadsRun /\ next = NULL /\ \A y \in Lockers : prio[y] <= prio[x]
  BY <1>1, RunningThread
<1>3. asrt = "none" /\ Started
  BY <1>2 DEF ThreadsRun
<1>4. Core /\ Dispatching /\ S \in Seq(Frames) /\ FramesSound(S) /\ Placed
  BY <1>0, <1>3, Situation, Places
<1>5. UNCHANGED <<curr, readySet, active, prio, nEvts, obj, armed, sig, expiring>>
      /\ status' = [status EXCEPT ![x] = NULL]
  BY DEF restoreLock, waiting
<1>6. ~(seen[x] <= status[x].prev)
  <2>1. status[x] \in Statuses /\ seen[x] \in Nat
    BY <1>1, <1>4 DEF Core, ThreadTypes, Reads, Lockers
  <2>2. status[x].prev \in Nat
    BY <2>1 DEF Statuses
  <2> QED BY <1>1, <2>1, <2>2
<1>7. /\ lockPrio' = status[x].prev /\ lockHolder' = status[x].holder
      /\ QXK_sched_("activate")
  BY <1>6 DEF restoreLock, AfterUnlock
<1>8. \A y \in Threads : prio[y] \in Nat
  BY <1>4, Numbers DEF Placed
<1>9. /\ LockChain' /\ Lockers' = Lockers \ {x} /\ Started'
      /\ lockPrio' \in 0 .. MAX_ACTIVE /\ lockHolder' \in Slots
  BY <1>1, <1>2, <1>4, <1>5, <1>7, <1>8, LockLowered DEF Core, Placed
<1>10. /\ SyncTypes' /\ Slotted' /\ Held' /\ Timeouts' /\ Waiters'
  <2>1. Started' = Started
    BY <1>3, <1>9 DEF Started
  <2> QED BY <1>4, <1>5, <2>1, SteadyCore
<1>11. ThreadTypes'
  <2>1. lockPrio' \in 0 .. MAX_ACTIVE + 1
    BY <1>9, Numbers
  <2> QED BY <1>4, <1>5, <1>9, <2>1 DEF Core, ThreadTypes
<1>12. Core'
  BY <1>9, <1>10, <1>11 DEF Core
<1>13. FramesSound(S)'
  BY <1>4, <1>5, <1>9, FramesLocks
<1>14. Dispatching'
  BY <1>0, <1>3, <1>4, <1>5, <1>7, <1>9, <1>12, <1>13, SchedStep
<1> QED BY <1>12, <1>14 DEF XInv

-----------------------------------------------------------------------------
(***************************************************************************)
(* PendSV and QXK_activate_.                                               *)
(***************************************************************************)
\* Only the thread that executes changes.
LEMMA SameCore ==
    ASSUME Core, NEW S \in Seq(Frames), FramesSound(S), curr' \in Ext \cup {NULL},
           UNCHANGED <<locks, readySet, active, prio, nEvts, obj, armed, sig, expiring,
                       sync>>
    PROVE  Core' /\ FramesSound(S)' /\ Started' = Started /\ Elig' = Elig
<1>1. Started' = Started /\ Elig' = Elig /\ UNCHANGED <<lockPrio, lockHolder, status>>
  BY DEF locks, Started, Elig
<1>2. /\ SyncTypes' /\ Slotted' /\ Held' /\ Timeouts' /\ Waiters'
      /\ \A x : Registered(x)' = Registered(x) /\ Ready(x)' = Ready(x)
  BY <1>1, SteadyCore
<1>3. ThreadTypes'
  BY <1>1 DEF Core, ThreadTypes
<1>4. LockChain'
  BY <1>2, LockKept DEF Core, LockChain
<1>5. Lockers' = Lockers
  BY <1>1 DEF Lockers
<1>6. FramesSound(S)'
  BY <1>5, FramesLocks
<1> QED BY <1>1, <1>2, <1>3, <1>4, <1>6 DEF Core

LEMMA PendSVStep ==
    ASSUME XInv, PendSV, UNCHANGED sync
    PROVE  XInv'
<1> USE ThreadPrios
<1>0. PICK S : S = stack
  OBVIOUS
<1>1. asrt = "none" /\ pendSV
  BY DEF PendSV
<1>2. Core /\ Dispatching /\ S \in Seq(Frames) /\ FramesSound(S) /\ Started
  BY <1>0, <1>1, Situation DEF Dispatching, Booting
<1>3. /\ UNCHANGED <<locks, readySet, active, prio, nEvts, obj, armed, sig, expiring,
                     asrt>>
      /\ pendSV' = FALSE
  BY DEF PendSV, waiting
<1>4. curr' \in Ext \cup {NULL}
  BY <1>2 DEF PendSV, Core, ThreadTypes
<1>5. Core' /\ FramesSound(S)' /\ Started' /\ Elig' = Elig
  BY <1>2, <1>3, <1>4, SameCore
<1>6. /\ next \in Threads \cup {Idle, NULL} /\ actPrio \in Slots /\ NestedUp(S, actPrio)
      /\ actPrio \in Nat /\ Scheduled /\ Found(S) /\ Elig \in Nat
  BY <1>0, <1>1, <1>2, NestedIs, SchedulerFinds, Numbers DEF Dispatching, DispatcherTypes, Found
<1>7. CASE UNCHANGED <<stack, actPrio>> /\ next' = NULL /\ Scheduled'
  <2>1. FramesNested'
    BY <1>0, <1>6, <1>7, NestedIsNext
  <2>2. FramesSound(stack)'
    <3>1. stack' = S
      BY <1>0, <1>7
    <3> QED BY <1>5, <3>1 DEF FramesSound
  <2>3. Dispatching'
    BY <1>1, <1>2, <1>3, <1>5, <1>6, <1>7, <2>1, <2>2
       DEF Dispatching, DispatcherTypes, NoKernelAssertion
  <2> QED BY <1>5, <2>3 DEF XInv
<1>8. CASE next = NULL
  <2>1. UNCHANGED <<curr, next, stack, actPrio>>
    BY <1>8 DEF PendSV
  <2>2. Scheduled'
    BY <1>3, <1>6, <2>1, ScheduledKept DEF locks
  <2> QED BY <1>7, <1>8, <2>1, <2>2
<1>9. CASE next # NULL /\ next \in Ext
  <2>1. curr' = next /\ next' = NULL /\ UNCHANGED <<stack, actPrio>>
    BY <1>9 DEF PendSV
  <2>2. Scheduled'
    BY <1>3, <1>5, <1>6, <1>9, <2>1 DEF Scheduled
  <2> QED BY <1>7, <2>1, <2>2
<1>10. CASE next # NULL /\ next \notin Ext
  <2>1. /\ curr' = NULL /\ next = active[Elig] /\ (curr = NULL => Elig > actPrio)
        /\ IF curr = NULL \/ prio[next] > actPrio
           THEN Activate(prio[next])
           ELSE next' = NULL /\ UNCHANGED <<stack, actPrio>>
    BY <1>6, <1>10 DEF PendSV, Scheduled
  <2>2. prio[next] = Elig
    BY <1>2, <1>6, <1>10, <2>1 DEF Found, Core, Slotted
  <2>3. CASE Elig > actPrio
    <3>1. active'[Elig'] \in Basic /\ Elig' > actPrio
      BY <1>3, <1>5, <1>6, <1>10, <2>1, <2>3 DEF Found
    <3>2. /\ stack' = Append(S, Frame(Elig', active'[Elig'], actPrio))
          /\ actPrio' = Elig' /\ next' = NULL
      BY <1>0, <1>5, <2>1, <2>2, <2>3 DEF Activate
    <3>3. stack' \in Seq(Frames) /\ NestedUp(stack', Elig') /\ FramesSound(stack)'
      BY <1>2, <1>5, <1>6, <3>1, <3>2, ActivateSound
    <3>4. FramesNested'
      BY <3>2, <3>3, NestedIsNext
    <3>5. Scheduled'
      BY <1>5, <1>6, <2>1, <3>1, <3>2 DEF Scheduled
    <3>6. Dispatching'
      BY <1>1, <1>3, <1>5, <1>6, <3>2, <3>3, <3>4, <3>5
         DEF Dispatching, DispatcherTypes, NoKernelAssertion, Found
    <3> QED BY <1>5, <3>6 DEF XInv
  <2>4. CASE ~(Elig > actPrio)
    <3>1. next' = NULL /\ UNCHANGED <<stack, actPrio>>
      BY <2>1, <2>2, <2>4
    <3>2. Scheduled'
      BY <1>3, <1>5, <1>6, <1>10, <2>1, <2>4, <3>1 DEF Scheduled
    <3> QED BY <1>7, <3>1, <3>2
  <2> QED BY <2>3, <2>4
<1> QED BY <1>8, <1>9, <1>10

LEMMA TopSound ==
    ASSUME XInv, asrt = "none", stack # << >>, NEW S, S = stack, NEW n, n = Len(stack)
    PROVE  /\ n \in DOMAIN S /\ S[n] = Top /\ Top \in Frames
           /\ Top.obj \in Basic /\ Top.obj \in Threads /\ FrameSound(Top)
           /\ Top.prio = PrioOf[Top.obj] /\ prio[Top.obj] = Top.prio /\ Top.prio = actPrio
           /\ Top.pin \in Slots /\ Top.prio \in Prios
           /\ \A i \in DOMAIN S : /\ S[i] \in Frames /\ S[i].obj \in Basic
                                  /\ S[i].obj \in Threads
                                  /\ S[i].at \in {"get", "rtc"}
                                  /\ i # n => S[i].obj # Top.obj
<1> USE ThreadPrios
<1>1. Core /\ Dispatching /\ S \in Seq(Frames) /\ FramesSound(S) /\ Placed
  BY Situation, Places
<1>2. /\ n \in DOMAIN S /\ S[n] = Top /\ Top \in Frames /\ Top.obj \in Basic
      /\ Top.prio = actPrio /\ Top.pin \in Slots
      /\ \A i \in DOMAIN S : i # n => S[i].prio < actPrio
  BY <1>1, TopFrame DEF Dispatching, Top
<1>3. \A i \in DOMAIN S : /\ S[i] \in Frames /\ S[i].obj \in Basic /\ S[i].obj \in Threads
                          /\ S[i].at \in {"get", "rtc"} /\ FrameSound(S[i])
                          /\ S[i].prio \in Prios /\ S[i].prio = PrioOf[S[i].obj]
  BY <1>1, FramesTyped DEF FramesSound, FrameSound
<1>4. FrameSound(Top) /\ Top.prio = PrioOf[Top.obj] /\ Top.prio \in Prios
  BY <1>2, <1>3
<1>5. prio[Top.obj] = Top.prio
  BY <1>1, <1>2, <1>4 DEF Placed
<1>6. ASSUME NEW i \in DOMAIN S, i # n, S[i].obj = Top.obj PROVE FALSE
  <2>1. S[i].prio < actPrio /\ S[i].prio = actPrio /\ actPrio \in Nat
    BY <1>2, <1>3, <1>4, <1>6, Numbers
  <2> QED BY <2>1
<1> QED BY <1>2, <1>3, <1>4, <1>5, <1>6

\* The event that the frame on top was activated for is there.
LEMMA getStep ==
    ASSUME XInv, get_, UNCHANGED sync
    PROVE  XInv'
<1> USE ThreadPrios
<1>0. PICK S, n, a, T : S = stack /\ n = Len(stack) /\ a = Top.obj /\ T = stack'
  OBVIOUS
<1>1. /\ ThreadsRun /\ curr = NULL /\ stack # << >> /\ Top.at = "get"
      /\ asrt = "none" /\ Started
  BY DEF get_, ThreadsRun
<1>2. Core /\ Dispatching /\ S \in Seq(Frames) /\ FramesSound(S)
  BY <1>0, <1>1, Situation
<1>3. /\ n \in DOMAIN S /\ S[n] = Top /\ a \in Basic /\ a \in Threads
      /\ FrameSound(Top)
      /\ \A i \in DOMAIN S : /\ S[i] \in Frames /\ S[i].obj \in Basic
                             /\ S[i].obj \in Threads
                             /\ i # n => S[i].obj # a
  BY <1>0, <1>1, TopSound
<1>4. Registered(a) /\ nEvts[a] > 0 /\ Ready(a) /\ Top.prio = PrioOf[a]
      /\ nEvts \in [Threads -> Nat]
  BY <1>0, <1>1, <1>2, <1>3 DEF FrameSound, Core, ThreadTypes
<1>5. /\ nEvts' = [nEvts EXCEPT ![a] = @ - 1]
      /\ T = [S EXCEPT ![n].at = "rtc"]
      /\ UNCHANGED <<next, pendSV, actPrio, asrt, curr, locks, readySet, active, prio,
                     obj, armed, sig, expiring>>
  BY <1>0, <1>4 DEF get_, waiting
<1>6. /\ nEvts' \in [Threads -> Nat]
      /\ \A x \in Threads : x # a => nEvts'[x] = nEvts[x]
  BY <1>3, <1>4, <1>5
<1>7. Core'
  <2>1. m_count \in Nat /\ sig \in [Ext -> BOOLEAN]
    BY <1>2 DEF Core, ThreadTypes, SyncTypes
  <2>2. Tallies
    BY <1>4, <1>5, <1>6, <2>1 DEF Tallies, sync
  <2> QED BY <1>2, <2>2, TallyCore
<1>8. /\ DOMAIN T = DOMAIN S /\ \A i \in DOMAIN S : i # n => T[i] = S[i]
      /\ T[n].prio = S[n].prio /\ T[n].obj = a /\ T[n].pin = S[n].pin /\ T[n].at = "rtc"
      /\ T[n] \in Frames
  BY <1>0, <1>3, <1>5 DEF Frames
<1>9. T \in Seq(Frames) /\ Len(T) = Len(S)
  <2>1. \A i \in DOMAIN S : T[i] \in Frames
    BY <1>3, <1>8
  <2>2. Len(S) \in Nat /\ DOMAIN S = 1 .. Len(S)
    BY <1>2, FramesTyped
  <2>3. T \in [1 .. Len(S) -> Frames]
    BY <1>5, <1>8, <2>1, <2>2
  <2> QED BY <2>2, <2>3, SeqDef
<1>10. NestedUp(T, actPrio)
  <2>1. NestedUp(S, actPrio)
    BY <1>0, <1>2, NestedIs DEF Dispatching
  <2>2. \A i \in DOMAIN S : T[i].prio = S[i].prio /\ T[i].pin = S[i].pin
    BY <1>8
  <2>3. S # << >> /\ T # << >> /\ Len(S) \in DOMAIN S
    BY <1>0, <1>1, <1>2, <1>3, <1>9, FramesTyped
  <2>4. \A i \in DOMAIN S : i # 1 => i - 1 \in DOMAIN S
    BY <1>2, FramesTyped
  <2> QED BY <1>8, <1>9, <2>1, <2>2, <2>3, <2>4 DEF NestedUp
<1>11. FramesSound(T)'
  <2>1. \A x : Registered(x)' = Registered(x) /\ Ready(x)' = Ready(x)
    BY <1>5 DEF Registered, Ready
  <2>2. ASSUME NEW i \in DOMAIN T PROVE FrameSound(T[i])'
    <3>1. CASE i = n
      BY <1>0, <1>3, <1>4, <1>8, <2>1, <3>1 DEF FrameSound
    <3>2. CASE i # n
      <4>1. FrameSound(S[i]) /\ T[i] = S[i] /\ nEvts'[S[i].obj] = nEvts[S[i].obj]
        BY <1>2, <1>3, <1>6, <1>8, <2>2, <3>2 DEF FramesSound
      <4> QED BY <2>1, <4>1 DEF FrameSound
    <3> QED BY <3>1, <3>2
  <2>3. \A i \in DOMAIN S : T[i].obj = S[i].obj /\ (S[i].at = "rtc" => T[i].at = "rtc")
    BY <1>0, <1>3, <1>8
  <2>4. ASSUME NEW x \in Basic, Registered(x)', Ready(x)'
        PROVE  nEvts'[x] > 0 \/ \E i \in DOMAIN T : T[i].obj = x
    <3>1. CASE x = a
      BY <1>3, <1>8, <3>1
    <3>2. CASE x # a
      BY <1>2, <1>6, <1>8, <2>1, <2>3, <2>4, <3>2 DEF FramesSound
    <3> QED BY <3>1, <3>2
  <2>5. \A p \in readySet' :
          \/ active'[p] \in Threads /\ prio'[active'[p]] = p
          \/ active'[p] = NULL /\ \E i \in DOMAIN T :
                T[i].at = "rtc" /\ PrioOf[T[i].obj] = p
    BY <1>2, <1>5, <1>8, <2>3 DEF FramesSound
  <2>6. \A x \in Lockers' \cap Basic :
          \E i \in DOMAIN T : T[i].obj = x /\ T[i].at = "rtc"
    BY <1>2, <1>5, <1>8, <2>3 DEF FramesSound, Lockers, locks
  <2> QED BY <2>2, <2>4, <2>5, <2>6 DEF FramesSound
<1>12. Scheduled' /\ Started'
  BY <1>1, <1>2, <1>5, ScheduledKept DEF Dispatching, locks, Started
<1>13. FramesSound(stack)' /\ FramesNested'
  <2>1. FramesSound(stack)'
    BY <1>0, <1>11 DEF FramesSound
  <2>2. FramesNested'
    BY <1>0, <1>5, <1>10, NestedIsNext
  <2> QED BY <2>1, <2>2
<1>14. Dispatching'
  BY <1>0, <1>1, <1>2, <1>5, <1>9, <1>12, <1>13
     DEF Dispatching, DispatcherTypes, NoKernelAssertion
<1> QED BY <1>7, <1>14 DEF XInv

\* The basic thread a is no longer ready.
LEMMA UnreadyCore ==
    ASSUME Core, NEW a \in Basic, a \notin Lockers, Registered(a) => nEvts[a] = 0,
           readySet' = readySet \ {prio[a]},
           UNCHANGED <<curr, locks, active, prio, nEvts, obj, armed, sig, expiring, sync>>
    PROVE  Core'
<1> USE ThreadPrios
<1>0. /\ UNCHANGED <<lockPrio, lockHolder, status, m_count, semaSet, m_ceiling,
                     m_lockNest, m_holderPrio, mutexSet, has>>
      /\ Started' = Started /\ \A x : Registered(x)' = Registered(x)
      /\ \A x : Holds(x)' = Holds(x)
  BY DEF locks, sync, Started, Registered, Holds
<1>1. ~Ready(a)' /\ \A x \in Threads : x # a => (Ready(x)' <=> Ready(x))
  BY Places DEF Placed, Ready
<1>2. ThreadTypes' /\ SyncTypes'
  BY <1>0 DEF Core, ThreadTypes, SyncTypes
<1>3. Slotted' /\ Held'
  BY <1>0, <1>1, SlottedKept, HeldKept DEF Core
<1>4. Timeouts'
  BY <1>0, <1>1 DEF Core, Timeouts
<1>5. Waiters'
  <2>1. ASSUME NEW x \in Threads PROVE ~Stranded(x)'
    <3>1. x \in Ext => (Pending(x)' <=> Pending(x))
      BY <1>0 DEF Pending
    <3> QED BY <1>0, <1>1, <3>1 DEF Core, Waiters, Stranded
  <2>2. \A t \in Ext : obj'[t] = "mutex" /\ Ready(t)' => Holds(t)' /\ has'[t] = 0
    BY <1>0, <1>1 DEF Core, Waiters
  <2>3. \A p \in semaSet' : SemaWaits(p)' /\ m_count' = 0
    BY <1>0 DEF Core, Waiters, SemaWaits
  <2>4. \A p \in mutexSet' : MutexWaits(p)'
    BY <1>0 DEF Core, Waiters, MutexWaits, CeilingUsed
  <2> QED BY <2>1, <2>2, <2>3, <2>4 DEF Waiters
<1>6. LockChain'
  <2>1. \A x \in Lockers : /\ prio'[x] = prio[x] /\ Registered(x)' /\ Ready(x)'
                           /\ x \in Ext => obj'[x] = "none"
    BY <1>0, <1>1 DEF Core, LockChain, Lockers
  <2> QED BY <2>1, LockKept DEF Core
<1> QED BY <1>2, <1>3, <1>4, <1>5, <1>6 DEF Core

\* The frames below the one on top, of the thread a, that is not inside stop() and is
\* ready only if it has events.
LEMMA PopSound ==
    ASSUME NEW S, FramesSound(S), NEW n \in DOMAIN S, NEW T,
           DOMAIN T = DOMAIN S \ {n}, \A i \in DOMAIN T : T[i] = S[i],
           NEW a \in Basic, S[n].obj = a, a \notin Lockers,
           \A i \in DOMAIN T : S[i].obj \in Basic /\ S[i].obj # a,
           Placed, Registered(a) \/ ~Ready(a), Ready(a)' => nEvts[a] > 0,
           readySet' \in {readySet, readySet \ {prio[a]}},
           UNCHANGED <<active, prio, nEvts, status>>
    PROVE  FramesSound(T)'
<1> USE ThreadPrios
<1>1. /\ \A x : Registered(x)' = Registered(x)
      /\ \A x \in Threads : x # a => (Ready(x)' <=> Ready(x))
      /\ readySet' \subseteq readySet /\ Lockers' = Lockers
  BY DEF Registered, Ready, Placed, Lockers
<1>2. \A i \in DOMAIN T : FrameSound(T[i])'
  <2> SUFFICES ASSUME NEW i \in DOMAIN T PROVE FrameSound(T[i])'
    OBVIOUS
  <2>1. FrameSound(S[i]) /\ T[i] = S[i] /\ S[i].obj \in Threads /\ S[i].obj # a
    BY DEF FramesSound
  <2> QED BY <1>1, <2>1 DEF FrameSound
<1>3. ASSUME NEW x \in Basic, Registered(x)', Ready(x)'
      PROVE  nEvts'[x] > 0 \/ \E i \in DOMAIN T : T[i].obj = x
  <2>1. CASE x = a
    BY <1>3, <2>1
  <2>2. CASE x # a
    <3>1. nEvts[x] > 0 \/ \E i \in DOMAIN S : S[i].obj = x
      BY <1>1, <1>3, <2>2 DEF FramesSound
    <3> QED BY <2>2, <3>1
  <2> QED BY <2>1, <2>2
<1>4. ASSUME NEW p \in readySet'
      PROVE  \/ active'[p] \in Threads /\ prio'[active'[p]] = p
             \/ active'[p] = NULL /\ \E i \in DOMAIN T :
                   T[i].at = "rtc" /\ PrioOf[T[i].obj] = p
  <2>1. \/ active[p] \in Threads /\ prio[active[p]] = p
        \/ active[p] = NULL /\ \E i \in DOMAIN S :
              S[i].at = "rtc" /\ PrioOf[S[i].obj] = p
    BY <1>1 DEF FramesSound
  <2>2. ASSUME active[p] = NULL, PrioOf[a] = p PROVE FALSE
    BY <1>1, <2>2 DEF Registered, Ready, Placed
  <2> QED BY <2>1, <2>2
<1>5. \A x \in Lockers' \cap Basic :
         \E i \in DOMAIN T : T[i].obj = x /\ T[i].at = "rtc"
  <2> SUFFICES ASSUME NEW x \in Lockers' \cap Basic
               PROVE  \E i \in DOMAIN T : T[i].obj = x /\ T[i].at = "rtc"
    OBVIOUS
  <2>1. x # a /\ \E i \in DOMAIN S : S[i].obj = x /\ S[i].at = "rtc"
    BY <1>1 DEF FramesSound
  <2> QED BY <2>1
<1> QED BY <1>2, <1>3, <1>4, <1>5 DEF FramesSound

LEMMA rtcEndStep ==
    ASSUME XInv, rtcEnd, UNCHANGED sync
    PROVE  XInv'
<1> USE ThreadPrios
<1>0. PICK S, n, a, q, T : /\ S = stack /\ n = Len(stack) /\ a = Top.obj /\ q = Top.pin
                           /\ T = SubSeq(S, 1, Len(S) - 1)
  OBVIOUS
<1>1. /\ ThreadsRun /\ curr = NULL /\ stack # << >> /\ Top.at = "rtc"
      /\ asrt = "none" /\ Started /\ ~Stopping(Top) /\ status[a] = NULL
  BY <1>0 DEF rtcEnd, ThreadsRun
<1>2. Core /\ Dispatching /\ S \in Seq(Frames) /\ FramesSound(S) /\ Placed
  BY <1>0, <1>1, Situation, Places
<1>3. /\ n \in DOMAIN S /\ S[n] = Top /\ a \in Basic /\ a \in Threads
      /\ FrameSound(Top) /\ prio[a] = Top.prio /\ q \in Slots
      /\ \A i \in DOMAIN S : S[i].obj \in Basic /\ (i # n => S[i].obj # a)
  BY <1>0, <1>1, TopSound
<1>4. UNCHANGED <<curr, locks, active, prio, nEvts, obj, armed, sig, expiring>>
      /\ readySet' = IF nEvts[a] = 0 THEN readySet \ {prio[a]} ELSE readySet
  BY <1>0, <1>3 DEF rtcEnd, waiting, ReadyAfter
<1>5. a \notin Lockers /\ (Registered(a) \/ ~Ready(a))
  BY <1>0, <1>1 DEF Lockers, Stopping, Ready
<1>6. Core'
  <2>1. CASE nEvts[a] = 0
    BY <1>2, <1>3, <1>4, <1>5, <2>1, UnreadyCore
  <2>2. CASE nEvts[a] # 0
    <3>1. curr' \in Ext \cup {NULL}
      BY <1>2, <1>4 DEF Core, ThreadTypes
    <3> QED BY <1>2, <1>4, <2>2, <3>1, SameCore
  <2> QED BY <2>1, <2>2
<1>7. /\ T \in Seq(Frames) /\ NestedUp(T, q) /\ DOMAIN T = DOMAIN S \ {n}
      /\ \A i \in DOMAIN T : T[i] = S[i]
  <2>1. PICK top : NestedUp(S, top) /\ S # << >>
    BY <1>0, <1>1, <1>2, NestedIs DEF Dispatching
  <2>2. S[Len(S)].pin = q /\ Len(S) = n
    BY <1>0, <1>3
  <2>3. S \in Seq(Frames) /\ T = SubSeq(S, 1, Len(S) - 1)
    BY <1>0, <1>2
  <2>4. /\ T \in Seq(Frames) /\ NestedUp(T, S[Len(S)].pin)
        /\ DOMAIN T = DOMAIN S \ {Len(S)}
        /\ \A i \in DOMAIN T : T[i] = S[i]
    BY ONLY <2>1, <2>3, PopFrame
  <2> QED BY <2>2, <2>4
<1>8. FramesSound(T)'
  <2>1. Ready(a)' => nEvts[a] > 0
    <3>1. nEvts[a] \in Nat
      BY <1>2, <1>3 DEF Core, ThreadTypes
    <3>2. prio'[a] = prio[a]
      BY <1>4
    <3> QED BY <1>4, <3>1, <3>2 DEF Ready
  <2>2. readySet' \in {readySet, readySet \ {prio[a]}} /\ UNCHANGED <<active, prio, nEvts, status>>
    BY <1>4 DEF locks
  <2>3. S[n].obj = a /\ \A i \in DOMAIN T : S[i].obj \in Basic /\ S[i].obj # a
    BY <1>0, <1>3, <1>7
  <2>4. /\ FramesSound(S) /\ n \in DOMAIN S /\ DOMAIN T = DOMAIN S \ {n}
        /\ \A i \in DOMAIN T : T[i] = S[i]
        /\ a \in Basic /\ a \notin Lockers /\ Placed /\ (Registered(a) \/ ~Ready(a))
    BY <1>2, <1>3, <1>5, <1>7
  <2> QED BY ONLY <2>1, <2>2, <2>3, <2>4, PopSound
<1>9. Found(T)' /\ Eligible = Elig' /\ Started'
  BY <1>1, <1>4, <1>6, <1>8, SchedulerFindsNext, EligibleIs DEF locks, Started
<1>10. Elig' \in Slots /\ Elig' \in Nat /\ q \in Nat
  BY <1>3, <1>9, Numbers DEF Found
<1>11. Popped = T
  BY <1>0 DEF Popped
<1>12. CASE EligibleFails /\ Fails(Failure)
  <2>1. asrt' = Failure /\ UNCHANGED <<next, pendSV, stack, actPrio>>
    BY <1>12 DEF Fails
  <2>2. NoKernelAssertion' /\ asrt' # "none"
    <3>1. \A i \in DOMAIN T : i \in DOMAIN stack' /\ stack'[i] = T[i]
      BY <1>0, <1>7, <2>1
    <3> QED BY <1>6, <1>7, <1>9, <1>12, <2>1, <3>1, FailsAsKnown
  <2>3. DispatcherTypes' /\ FramesNested'
    BY <1>2, <2>1, NestedIs, NestedIsNext DEF Dispatching, DispatcherTypes
  <2>4. Dispatching'
    BY <1>2, <1>9, <2>1, <2>2, <2>3 DEF Dispatching
  <2> QED BY <1>6, <2>4 DEF XInv
<1> DEFINE x == active'[Elig']
<1>13. CASE ~EligibleFails /\ asrt' = asrt
  <2>0. /\ x \in Threads \cup {Idle} /\ asrt' = "none" /\ NoKernelAssertion'
        /\ curr' = NULL
    BY <1>1, <1>4, <1>9, <1>13 DEF EligibleFails, NotRegistered, NoKernelAssertion
  <2>1. ASSUME stack' = T, actPrio' = q
        PROVE  FramesSound(stack)' /\ FramesNested' /\ stack' \in Seq(Frames)
               /\ actPrio' \in Slots
    <3>1. FramesSound(stack)'
      BY <1>8, <2>1 DEF FramesSound
    <3> QED BY <1>3, <1>7, <2>1, <3>1, NestedIsNext
  <2>2. CASE /\ x \notin Ext /\ Elig' > q /\ stack' = Append(T, Frame(Elig', x, q))
             /\ actPrio' = Elig' /\ next' = NULL /\ UNCHANGED pendSV
    <3>1. x \in Basic
      BY <1>9, <1>10, <2>0, <2>2 DEF Found
    <3>2. stack' \in Seq(Frames) /\ NestedUp(stack', Elig') /\ FramesSound(stack)'
      BY <1>3, <1>6, <1>7, <1>8, <2>2, <3>1, ActivateSound
    <3>3. FramesNested'
      BY <2>2, <3>2, NestedIsNext
    <3>4. Scheduled'
      BY <1>10, <2>0, <2>2 DEF Scheduled
    <3>5. Dispatching'
      BY <1>2, <1>9, <1>10, <2>0, <2>2, <3>2, <3>3, <3>4 DEF Dispatching, DispatcherTypes
    <3> QED BY <1>6, <3>5 DEF XInv
  <2>3. CASE /\ x \notin Ext /\ Elig' <= q /\ stack' = T
             /\ actPrio' = q /\ next' = NULL /\ UNCHANGED pendSV
    <3>1. Scheduled'
      BY <1>10, <2>0, <2>3 DEF Scheduled
    <3>2. Dispatching'
      BY <1>2, <1>9, <2>0, <2>1, <2>3, <3>1 DEF Dispatching, DispatcherTypes
    <3> QED BY <1>6, <3>2 DEF XInv
  <2>4. CASE x \in Ext /\ stack' = T /\ actPrio' = q /\ next' = x /\ pendSV' = TRUE
    <3>1. Scheduled'
      BY <2>0, <2>4 DEF Scheduled
    <3>2. Dispatching'
      BY <1>9, <2>0, <2>1, <2>4, <3>1 DEF Dispatching, DispatcherTypes
    <3> QED BY <1>6, <3>2 DEF XInv
  <2> QED BY <1>0, <1>9, <1>11, <1>12, <1>13, <2>2, <2>3, <2>4 DEF rtcEnd
<1> QED BY <1>12, <1>13 DEF rtcEnd

-----------------------------------------------------------------------------
(***************************************************************************)
(* Threads that end.                                                       *)
(***************************************************************************)
\* The thread a, which holds no lock and waits for nothing, is registered no longer.
LEMMA UnregisterCore ==
    ASSUME Core, Started, NEW a \in Threads, a \notin Lockers, ~Holds(a),
           a \in Ext => obj[a] = "none",
           active' = [active EXCEPT ![PrioOf[a]] = NULL],
           readySet' \in {readySet, readySet \ {prio[a]}},
           UNCHANGED <<curr, locks, prio, nEvts, obj, armed, sig, expiring, sync>>
    PROVE  Core'
<1> USE ThreadPrios
<1>0. /\ UNCHANGED <<lockPrio, lockHolder, status, m_count, semaSet, m_ceiling,
                     m_lockNest, m_holderPrio, mutexSet, has>>
      /\ Started' = Started /\ \A x : Holds(x)' = Holds(x)
      /\ CeilingUsed' = CeilingUsed
  BY DEF locks, sync, Started, Holds, CeilingUsed
<1>1. /\ active'[PrioOf[a]] = NULL
      /\ \A p \in Slots : p # PrioOf[a] => active'[p] = active[p]
      /\ active' \in [Slots -> Threads \cup {Idle, NULL, Mutex}]
  BY DEF Core, ThreadTypes
<1>2. ~Registered(a)' /\ \A x \in Threads : x # a => (Registered(x)' <=> Registered(x))
  BY <1>1 DEF Registered
<1>3. \A x \in Threads : (x # a => (Ready(x)' <=> Ready(x)))
                         /\ (Ready(x)' => Ready(x))
  BY Places DEF Placed, Ready
<1>4. ThreadTypes' /\ SyncTypes'
  <2>1. readySet' \subseteq Prios
    BY DEF Core, ThreadTypes
  <2> QED BY <1>0, <1>1, <2>1 DEF Core, ThreadTypes, SyncTypes
<1>5. /\ CeilingUsed => m_ceiling \in Slots /\ m_ceiling # PrioOf[a]
      /\ m_lockNest > 0 => m_holderPrio \in Slots /\ m_holderPrio # PrioOf[a]
  BY DEF Core, Slotted, SyncTypes, Holds, CeilingUsed
<1>6. Slotted'
  <2>1. \A p \in Slots : active'[p] = Idle <=> p = 0
    BY <1>1 DEF Core, Slotted
  <2>2. \A p \in Slots : active'[p] \in Threads =>
          PrioOf[active'[p]] = p \/ (p = m_ceiling' /\ Holds(active[p])')
    <3> SUFFICES ASSUME NEW p \in Slots, active'[p] \in Threads
                 PROVE  PrioOf[active'[p]] = p \/ (p = m_ceiling' /\ Holds(active[p])')
      OBVIOUS
    <3>1. active'[p] = active[p]
      BY <1>1
    <3> QED BY <1>0, <3>1 DEF Core, Slotted, Holds
  <2>3. CeilingUsed => active'[m_ceiling] = IF m_lockNest = 0 THEN Mutex
                                            ELSE active'[m_holderPrio]
    <3>1. m_lockNest \in Nat
      BY DEF Core, SyncTypes
    <3> QED BY <1>1, <1>5, <3>1 DEF Core, Slotted
  <2> QED BY <1>0, <2>1, <2>2, <2>3 DEF Core, Slotted
<1>7. Held'
  <2>1. m_lockNest > 0 => active'[m_holderPrio] \in Threads
    BY <1>1, <1>5 DEF Core, Held
  <2>2. ASSUME NEW x \in Threads, Holds(x)'
        PROVE  /\ Registered(x)'
               /\ CeilingUsed' => x \in Ext /\ PrioOf[x] < m_ceiling'
               /\ \/ has'[x] = m_lockNest'
                  \/ /\ x \in Ext /\ has'[x] = 0 /\ m_lockNest' = 1
                     /\ obj'[x] = "mutex" /\ Ready(x)' /\ sig'[x]
    BY <1>0, <1>2, <1>3, <2>2 DEF Core, Held
  <2> QED BY <1>0, <2>1, <2>2 DEF Core, Held
<1>8. Timeouts'
  BY <1>2, <1>3 DEF Core, Timeouts
<1>9. Waiters'
  <2>1. ASSUME NEW x \in Threads PROVE ~Stranded(x)'
    <3>1. x \in Ext => (Pending(x)' <=> Pending(x))
      BY <1>0 DEF Pending
    <3> QED BY <1>2, <1>3, <3>1 DEF Core, Waiters, Stranded
  <2>2. \A t \in Ext : obj'[t] = "mutex" /\ Ready(t)' => Holds(t)' /\ has'[t] = 0
    BY <1>0, <1>3 DEF Core, Waiters
  <2>3. \A p \in semaSet' : SemaWaits(p)' /\ m_count' = 0
    <3> SUFFICES ASSUME NEW p \in semaSet PROVE SemaWaits(p)' /\ m_count' = 0
      BY <1>0
    <3>1. SemaWaits(p) /\ m_count = 0 /\ p \in Slots
      BY Numbers DEF Core, Waiters, SyncTypes
    <3>2. active'[p] = active[p]
      <4>1. active[p] # a
        BY <3>1 DEF SemaWaits
      <4>2. ASSUME p = PrioOf[a] PROVE FALSE
        <5>1. prio[active[p]] = PrioOf[a] /\ prio[a] = PrioOf[a]
          BY <3>1, <4>2 DEF SemaWaits, Core, Slotted
        <5> QED BY <3>1, <4>1, <5>1, Places DEF Placed, SemaWaits
      <4> QED BY <1>1, <3>1, <4>2
    <3> QED BY <1>0, <3>1, <3>2 DEF SemaWaits
  <2>4. \A p \in mutexSet' : MutexWaits(p)'
    <3> SUFFICES ASSUME NEW p \in mutexSet PROVE MutexWaits(p)'
      BY <1>0
    <3>1. MutexWaits(p) /\ p \in Slots
      BY Numbers DEF Core, Waiters, SyncTypes
    <3>2. p # PrioOf[a]
      BY <3>1 DEF MutexWaits
    <3>3. active'[p] = active[p]
      BY <1>1, <3>1, <3>2
    <3> QED BY <1>0, <3>1, <3>3 DEF MutexWaits
  <2> QED BY <2>1, <2>2, <2>3, <2>4 DEF Waiters
<1>10. LockChain'
  <2>1. \A x \in Lockers : /\ prio'[x] = prio[x] /\ Registered(x)' /\ Ready(x)'
                           /\ x \in Ext => obj'[x] = "none"
    BY <1>2, <1>3 DEF Core, LockChain, Lockers
  <2> QED BY <2>1, LockKept DEF Core
<1> QED BY <1>4, <1>6, <1>7, <1>8, <1>9, <1>10 DEF Core

\* A thread that has no lock to undo does not hold the mutex, unless it was just
\* handed over to it.
LEMMA NotHolder ==
    ASSUME Core, NEW x \in Threads, has[x] = 0, x \in Ext => obj[x] = "none"
    PROVE  ~Holds(x)
BY ThreadPrios DEF Core, Held, Holds, SyncTypes

LEMMA stopStep ==
    ASSUME XInv, stop, UNCHANGED sync, \A x \in Threads : has[x] > 0 => Registered(x)'
    PROVE  XInv'
<1> USE ThreadPrios
<1>0. PICK S, n, a : S = stack /\ n = Len(stack) /\ a = Top.obj
  OBVIOUS
<1>1. /\ curr = NULL /\ stack # << >> /\ Runs(a) /\ ThreadsRun
      /\ asrt = "none" /\ Started /\ status[a] = NULL
  BY <1>0 DEF stop, ThreadsRun, Runs, Executes
<1>2. Core /\ Dispatching /\ S \in Seq(Frames) /\ FramesSound(S) /\ Placed
  BY <1>0, <1>1, Situation, Places
<1>3. /\ n \in DOMAIN S /\ S[n] = Top /\ a \in Basic /\ a \in Threads
      /\ FrameSound(Top) /\ Top.prio = PrioOf[a] /\ prio[a] = PrioOf[a]
      /\ \A i \in DOMAIN S : S[i].obj \in Basic /\ (i # n => S[i].obj # a)
  BY <1>0, <1>1, TopSound
<1>4. /\ Top.at = "rtc" /\ next = NULL /\ Elig <= actPrio /\ active[Elig] \notin Ext
  BY <1>1, <1>3, RunsExecutes, RunningThread
<1>5. /\ UNCHANGED <<curr, next, pendSV, stack, actPrio, asrt, locks, readySet, prio,
                     nEvts, obj, armed, sig, expiring>>
      /\ active' = [active EXCEPT ![PrioOf[a]] = NULL]
  BY <1>0, <1>3 DEF stop, waiting, dispatcher
<1>6. /\ active'[PrioOf[a]] = NULL
      /\ \A p \in Slots : p # PrioOf[a] => active'[p] = active[p]
  BY <1>2, <1>3, <1>5 DEF Core, ThreadTypes
<1>7. ~Registered(a)' /\ \A x \in Threads : x # a => (Registered(x)' <=> Registered(x))
  BY <1>3, <1>6 DEF Registered
<1>8. has[a] = 0
  BY <1>2, <1>3, <1>7 DEF Core, SyncTypes
<1>9. Core'
  BY <1>1, <1>2, <1>3, <1>5, <1>8, NotHolder, UnregisterCore DEF Lockers
<1>10. FramesSound(S)'
  <2>1. \A x : Ready(x)' = Ready(x)
    BY <1>5 DEF Ready
  <2>2. ASSUME NEW i \in DOMAIN S PROVE FrameSound(S[i])'
    <3>0. FrameSound(S[i]) /\ S[i].obj \in Threads
      BY <1>2, <1>3 DEF FramesSound
    <3>1. CASE i = n
      <4>1. S[i].obj = a /\ S[i].at = "rtc"
        BY <1>0, <1>3, <1>4, <3>1
      <4> QED BY <1>7, <3>0, <4>1 DEF FrameSound
    <3>2. CASE i # n
      <4>1. Registered(S[i].obj)' <=> Registered(S[i].obj)
        BY <1>3, <1>7, <3>0, <3>2
      <4> QED BY <1>5, <2>1, <3>0, <4>1 DEF FrameSound
    <3> QED BY <3>1, <3>2
  <2>3. \A x \in Basic : Registered(x)' /\ Ready(x)' =>
          nEvts'[x] > 0 \/ \E i \in DOMAIN S : S[i].obj = x
    BY <1>2, <1>5, <1>7, <2>1 DEF FramesSound
  <2>4. ASSUME NEW p \in readySet'
        PROVE  \/ active'[p] \in Threads /\ prio'[active'[p]] = p
               \/ active'[p] = NULL /\ \E i \in DOMAIN S :
                     S[i].at = "rtc" /\ PrioOf[S[i].obj] = p
    <3>1. p \in readySet /\ p \in Slots
      BY <1>2, <1>5, Numbers DEF Core, ThreadTypes
    <3>2. CASE p = PrioOf[a]
      BY <1>0, <1>3, <1>4, <1>6, <3>2
    <3>3. CASE p # PrioOf[a]
      BY <1>2, <1>5, <1>6, <3>1, <3>3 DEF FramesSound
    <3> QED BY <3>2, <3>3
  <2>5. \A x \in Lockers' \cap Basic :
          \E i \in DOMAIN S : S[i].obj = x /\ S[i].at = "rtc"
    BY <1>2, <1>5 DEF FramesSound, Lockers, locks
  <2> QED BY <2>2, <2>3, <2>4, <2>5 DEF FramesSound
<1>11. Scheduled'
  <2>1. Elig' = Elig /\ Elig \in Slots
    BY <1>2, <1>5, EligIsReady DEF Elig, locks, EligReady
  <2>2. active'[Elig] \notin Ext
    BY <1>4, <1>6, <2>1
  <2> QED BY <1>1, <1>4, <1>5, <2>1, <2>2 DEF Scheduled
<1>12. Started'
  BY <1>1, <1>5 DEF Started, locks
<1>13. Dispatching'
  BY <1>0, <1>1, <1>2, <1>5, <1>10, <1>11, <1>12, QuietDispatch DEF dispatcher
<1> QED BY <1>9, <1>13 DEF XInv

LEMMA stopSchedStep ==
    ASSUME XInv, stopSched, UNCHANGED sync
    PROVE  XInv'
<1> USE ThreadPrios
<1>0. PICK S, n, a : S = stack /\ n = Len(stack) /\ a = Top.obj
  OBVIOUS
<1>1. /\ ThreadsRun /\ curr = NULL /\ stack # << >> /\ Stopping(Top)
      /\ asrt = "none" /\ Started
  BY DEF stopSched, ThreadsRun
<1>2. Core /\ Dispatching /\ S \in Seq(Frames) /\ FramesSound(S) /\ Placed
  BY <1>0, <1>1, Situation, Places
<1>3. /\ n \in DOMAIN S /\ S[n] = Top /\ a \in Basic /\ a \in Threads
      /\ prio[a] = PrioOf[a]
      /\ \A i \in DOMAIN S : S[i].obj \in Basic /\ (i # n => S[i].obj # a)
  BY <1>0, <1>1, TopSound
<1>4. /\ UNCHANGED <<curr, locks, active, prio, nEvts, obj, armed, sig, expiring>>
      /\ readySet' = readySet \ {prio[a]} /\ QXK_sched_("activate")
  BY <1>0 DEF stopSched, waiting
<1>5. ~Registered(a) /\ Top.at = "rtc" /\ a \notin Lockers
  BY <1>0, <1>1, <1>2 DEF Stopping, Core, LockChain
<1>6. Core'
  BY <1>2, <1>3, <1>4, <1>5, UnreadyCore
<1>7. /\ \A x : Registered(x)' = Registered(x)
      /\ \A x \in Threads : x # a => (Ready(x)' <=> Ready(x))
      /\ ~Ready(a)' /\ Lockers' = Lockers
  BY <1>2, <1>3, <1>4 DEF Registered, Ready, Placed, Lockers, locks
<1>8. FramesSound(S)'
  <2>1. ASSUME NEW i \in DOMAIN S PROVE FrameSound(S[i])'
    <3>0. FrameSound(S[i]) /\ S[i].obj \in Threads
      BY <1>2, <1>3 DEF FramesSound
    <3>1. CASE i = n
      <4>1. S[i].obj = a /\ S[i].at = "rtc"
        BY <1>0, <1>3, <1>5, <3>1
      <4> QED BY <1>5, <1>7, <3>0, <4>1 DEF FrameSound
    <3>2. CASE i # n
      <4>1. S[i].obj # a
        BY <1>3, <3>2
      <4> QED BY <1>4, <1>7, <3>0, <4>1 DEF FrameSound
    <3> QED BY <3>1, <3>2
  <2>2. \A x \in Basic : Registered(x)' /\ Ready(x)' =>
          nEvts'[x] > 0 \/ \E i \in DOMAIN S : S[i].obj = x
    BY <1>2, <1>4, <1>7 DEF FramesSound
  <2>3. \A p \in readySet' :
          \/ active'[p] \in Threads /\ prio'[active'[p]] = p
          \/ active'[p] = NULL /\ \E i \in DOMAIN S :
                S[i].at = "rtc" /\ PrioOf[S[i].obj] = p
    BY <1>2, <1>4 DEF FramesSound
  <2>4. \A x \in Lockers' \cap Basic :
          \E i \in DOMAIN S : S[i].obj = x /\ S[i].at = "rtc"
    BY <1>2, <1>7 DEF FramesSound
  <2> QED BY <2>1, <2>2, <2>3, <2>4 DEF FramesSound
<1>9. Started'
  BY <1>1, <1>4 DEF Started, locks
<1>10. Dispatching'
  BY <1>0, <1>1, <1>2, <1>4, <1>6, <1>8, <1>9, SchedStep
<1> QED BY <1>6, <1>10 DEF XInv

LEMMA threadRetStep ==
    ASSUME XInv, NEW t \in Ext, threadRet(t), UNCHANGED sync,
           \A x \in Threads : has[x] > 0 => Registered(x)'
    PROVE  XInv'
<1> USE ThreadPrios
<1>0. PICK S : S = stack
  OBVIOUS
<1>1. Runs(t) /\ lockHolder # prio[t] /\ prio[t] = PrioOf[t]
  BY DEF threadRet
<1>2. /\ ThreadsRun /\ Registered(t) /\ Ready(t) /\ obj[t] = "none" /\ curr = t
      /\ t \notin Lockers /\ asrt = "none" /\ Started
  BY <1>1, RunsExecutes, RunningThread DEF HolderOf, ThreadsRun
<1>3. Core /\ Dispatching /\ S \in Seq(Frames) /\ FramesSound(S) /\ Placed
  BY <1>0, <1>2, Situation, Places
<1>4. /\ UNCHANGED <<curr, locks, prio, nEvts, obj, armed, sig, expiring>>
      /\ active' = [active EXCEPT ![PrioOf[t]] = NULL]
      /\ readySet' = readySet \ {prio[t]} /\ QXK_sched_("ignore")
  BY <1>1 DEF threadRet, waiting
<1>5. /\ active'[PrioOf[t]] = NULL
      /\ \A p \in Slots : p # PrioOf[t] => active'[p] = active[p]
  BY <1>3, <1>4 DEF Core, ThreadTypes
<1>6. ~Registered(t)' /\ \A x \in Threads : x # t => (Registered(x)' <=> Registered(x))
  BY <1>5 DEF Registered
<1>7. has[t] = 0
  BY <1>3, <1>6 DEF Core, SyncTypes
<1>8. Core'
  BY <1>2, <1>3, <1>4, <1>7, NotHolder, UnregisterCore
<1>9. FramesSound(S)'
  <2>1. \A x \in Basic : /\ Registered(x)' <=> Registered(x)
                         /\ Ready(x) => Ready(x)'
                         /\ nEvts[x] > 0 => nEvts'[x] > 0
                         /\ Ready(x)' => Ready(x) \/ nEvts'[x] > 0
    BY <1>3, <1>4, <1>6 DEF Ready, Placed
  <2>2. \A p \in readySet' :
               \/ active'[p] \in Threads /\ prio'[active'[p]] = p
               \/ p \in readySet /\ active[p] = NULL /\ active'[p] = NULL
    <3> SUFFICES ASSUME NEW p \in readySet'
                 PROVE  \/ active'[p] \in Threads /\ prio'[active'[p]] = p
                        \/ p \in readySet /\ active[p] = NULL /\ active'[p] = NULL
      OBVIOUS
    <3>1. p \in readySet /\ p \in Slots /\ active'[p] = active[p]
      BY <1>1, <1>3, <1>4, <1>5, Numbers DEF Core, ThreadTypes
    <3> QED BY <1>3, <1>4, <3>1 DEF FramesSound
  <2> QED BY <1>3, <1>4, <2>1, <2>2, FramesKept DEF locks
<1>10. Started' /\ curr # NULL
  BY <1>2, <1>4 DEF Started, locks
<1>11. Dispatching'
  BY <1>0, <1>2, <1>3, <1>4, <1>8, <1>9, <1>10, SchedStep
<1> QED BY <1>8, <1>11 DEF XInv

-----------------------------------------------------------------------------
(***************************************************************************)
(* Before QF::run.                                                         *)
(***************************************************************************)
LEMMA Boots ==
    ASSUME XInv, asrt = "none", ~Started
    PROVE  /\ Booting /\ m_lockNest = 0 /\ m_holderPrio = 0 /\ mutexSet = {}
           /\ Lockers = {} /\ lockHolder = 0 /\ lockPrio = MAX_ACTIVE + 1
           /\ \A x \in Threads : ~Holds(x) /\ has[x] = 0 /\ prio[x] = PrioOf[x]
           /\ \A p \in readySet : active[p] \in Threads /\ prio[active[p]] = p
           /\ \A p \in Slots : active[p] \in Threads => PrioOf[active[p]] = p
<1>1. Booting /\ Core
  BY DEF XInv, Dispatching
<1>2. m_lockNest = 0 /\ m_holderPrio = 0
  BY <1>1 DEF Core, Held, SyncTypes
<1>3. mutexSet = {}
  BY <1>1, <1>2 DEF Core, Waiters, MutexWaits
<1>4. Lockers = {} /\ lockHolder = 0 /\ lockPrio = MAX_ACTIVE + 1
  BY <1>1 DEF Core, LockChain, HolderAmong
<1>5. \A x \in Threads : ~Holds(x) /\ has[x] = 0 /\ prio[x] = PrioOf[x]
  <2>1. \A x : ~Holds(x)
    BY <1>2 DEF Holds
  <2> QED BY <1>1, <2>1 DEF Core, Held, SyncTypes, Slotted
<1>6. \A p \in readySet : active[p] \in Threads /\ prio[active[p]] = p
  <2>1. FramesSound(<< >>)
    BY <1>1 DEF Booting, XInv, Dispatching
  <2>2. DOMAIN << >> = {}
    OBVIOUS
  <2> QED BY <2>1, <2>2 DEF FramesSound
<1>7. \A p \in Slots : active[p] \in Threads => PrioOf[active[p]] = p
  BY <1>1, <1>2 DEF Core, Slotted, Holds
<1> QED BY <1>1, <1>2, <1>3, <1>4, <1>5, <1>6, <1>7

\* What keeps the frames, of which there are none, and the dispatcher.
LEMMA BootDispatch ==
    ASSUME XInv, asrt = "none", ~Started, lockPrio' = lockPrio, FramesSound(<< >>)',
           UNCHANGED <<curr, expiring, nEvts, dispatcher>>
    PROVE  Dispatching'
<1>1. Dispatching /\ Booting /\ ~Started'
  BY DEF XInv, Dispatching, Started
<1>2. UNCHANGED <<next, pendSV, stack, actPrio, asrt>> /\ stack' = << >>
  BY <1>1 DEF dispatcher, Booting
<1>3. FramesNested' /\ DispatcherTypes'
  BY <1>1, <1>2, NestedIs, NestedIsNext DEF Dispatching, DispatcherTypes
<1>4. FramesSound(stack)'
  BY <1>2 DEF FramesSound
<1>5. Booting'
  BY <1>1, <1>2 DEF Booting
<1> QED BY <1>1, <1>2, <1>3, <1>4, <1>5 DEF Dispatching, NoKernelAssertion

LEMMA BootFrames ==
    ASSUME \A p \in readySet' : active'[p] \in Threads /\ prio'[active'[p]] = p,
           \A x \in Basic : ~(Registered(x)' /\ Ready(x)'),
           Lockers' = {}
    PROVE  FramesSound(<< >>)'
<1>1. DOMAIN << >> = {}
  OBVIOUS
<1> QED BY <1>1 DEF FramesSound

\* Basic threads are not ready yet.
LEMMA BasicIdle ==
    ASSUME XInv, asrt = "none", ~Started, NEW x \in Basic, Registered(x)
    PROVE  ~Ready(x)
<1>1. Booting /\ FramesSound(stack)
  BY Boots DEF XInv, Dispatching
<1>2. stack = << >> /\ DOMAIN << >> = {} /\ nEvts[x] = 0
  BY <1>1, ThreadPrios DEF Booting
<1> QED BY <1>1, <1>2 DEF FramesSound

LEMMA mutexInitStep ==
    ASSUME XInv, NEW c \in Ceilings, mutexInit(c)
    PROVE  XInv'
<1> USE ThreadPrios
<1>1. /\ asrt = "none" /\ ~Started /\ m_ceiling = NULL /\ (c # 0 => active[c] = NULL)
      /\ m_ceiling' = c
      /\ active' = IF c = 0 THEN active ELSE [active EXCEPT ![c] = Mutex]
      /\ UNCHANGED <<curr, dispatcher, lockPrio, lockHolder, status, readySet, prio, nEvts,
                     obj, armed, sig, expiring, m_count, semaSet, m_lockNest,
                     m_holderPrio, mutexSet, has>>
      /\ UNCHANGED locks
  BY DEF mutexInit, locks, waiting, sema
<1>2. c \in Slots /\ Core
  BY SyncAssumption DEF Slots, XInv
<1>3. /\ Booting /\ m_lockNest = 0 /\ m_holderPrio = 0 /\ mutexSet = {}
      /\ Lockers = {}
      /\ \A x \in Threads : has[x] = 0 /\ prio[x] = PrioOf[x]
      /\ \A p \in readySet : active[p] \in Threads /\ prio[active[p]] = p
      /\ \A p \in Slots : active[p] \in Threads => PrioOf[active[p]] = p
  BY <1>1, Boots
<1>4. /\ active' \in [Slots -> Threads \cup {Idle, NULL, Mutex}]
      /\ c # 0 => active'[c] = Mutex
      /\ \A p \in Slots : p # c \/ c = 0 => active'[p] = active[p]
      /\ \A p \in Slots : active[p] \in Threads => active'[p] = active[p]
      /\ \A p \in Slots : active'[p] \in Threads => active'[p] = active[p]
  BY <1>1, <1>2 DEF Core, ThreadTypes
<1>5. \A x \in Threads : Registered(x)' <=> Registered(x)
  BY <1>4 DEF Registered
<1>6. \A x : Ready(x)' = Ready(x) /\ Started' = Started
  BY <1>1 DEF Ready, Started
<1>7. ThreadTypes' /\ SyncTypes'
  BY <1>1, <1>2, <1>4 DEF Core, ThreadTypes, SyncTypes
<1>8. Slotted'
  <2>1. \A x : ~Holds(x)'
    BY <1>1, <1>3 DEF Holds
  <2>2. \A p \in Slots : active'[p] = Idle <=> p = 0
    <3>1. \A p \in Slots : active[p] = Idle <=> p = 0
      BY <1>2 DEF Core, Slotted
    <3> QED BY <1>2, <1>4, <3>1
  <2>3. \A p \in Slots : active'[p] \in Threads => PrioOf[active'[p]] = p
    BY <1>3, <1>4
  <2>4. CeilingUsed' => active'[m_ceiling'] = Mutex
    BY <1>1, <1>4 DEF CeilingUsed
  <2>5. prio'[Idle] = 0 /\ \A x \in Threads : prio'[x] = PrioOf[x]
    BY <1>1, <1>2, <1>3 DEF Core, Slotted
  <2> QED BY <1>1, <1>3, <1>6, <2>1, <2>2, <2>3, <2>4, <2>5 DEF Slotted
<1>9. Held'
  <2>1. \A x : ~Holds(x)'
    BY <1>1, <1>3 DEF Holds
  <2> QED BY <1>1, <1>3, <2>1 DEF Held
<1>10. Timeouts'
  BY <1>1, <1>2, <1>5, <1>6 DEF Core, Timeouts
<1>11. Waiters'
  <2>1. ASSUME NEW x \in Threads PROVE ~Stranded(x)'
    <3>1. x \in Ext => (Pending(x)' <=> Pending(x))
      BY <1>1 DEF Pending
    <3> QED BY <1>1, <1>2, <1>5, <1>6, <3>1 DEF Core, Waiters, Stranded
  <2>2. \A t \in Ext : obj'[t] = "mutex" /\ Ready(t)' => Holds(t)' /\ has'[t] = 0
    BY <1>1, <1>2, <1>6 DEF Core, Waiters, Holds
  <2>3. \A p \in semaSet' : SemaWaits(p)' /\ m_count' = 0
    <3> SUFFICES ASSUME NEW p \in semaSet PROVE SemaWaits(p)' /\ m_count' = 0
      BY <1>1
    <3>1. SemaWaits(p) /\ m_count = 0 /\ p \in Slots
      BY <1>2, Numbers DEF Core, Waiters, SyncTypes
    <3>2. active'[p] = active[p]
      BY <1>4, <3>1 DEF SemaWaits
    <3> QED BY <1>1, <3>1, <3>2 DEF SemaWaits
  <2> QED BY <1>1, <1>3, <2>1, <2>2, <2>3 DEF Waiters
<1>12. LockChain'
  BY <1>1, <1>2, <1>3, LockKept DEF Core
<1>13. Core'
  BY <1>7, <1>8, <1>9, <1>10, <1>11, <1>12 DEF Core
<1>14. FramesSound(<< >>)'
  <2>1. \A p \in readySet' : active'[p] \in Threads /\ prio'[active'[p]] = p
    <3>1. \A p \in readySet : p \in Slots
      BY <1>2, Numbers DEF Core, ThreadTypes
    <3> QED BY <1>1, <1>3, <1>4, <3>1
  <2>2. \A x \in Basic : ~(Registered(x)' /\ Ready(x)')
    BY <1>1, <1>5, <1>6, BasicIdle
  <2>3. Lockers' = {}
    BY <1>1, <1>3 DEF Lockers
  <2> QED BY <2>1, <2>2, <2>3, BootFrames
<1>15. Dispatching'
  BY <1>1, <1>14, BootDispatch
<1> QED BY <1>13, <1>15 DEF XInv

LEMMA startStep ==
    ASSUME XInv, NEW x \in Threads, start(x), UNCHANGED sync
    PROVE  XInv'
<1> USE ThreadPrios
<1>1. /\ asrt = "none" /\ ~Started /\ active[PrioOf[x]] = NULL
      /\ active' = [active EXCEPT ![PrioOf[x]] = x]
      /\ readySet' = IF x \in Ext THEN readySet \cup {PrioOf[x]} ELSE readySet
      /\ UNCHANGED <<curr, lockPrio, lockHolder, status, prio, nEvts, obj, armed, sig,
                     expiring, m_count, semaSet, m_ceiling, m_lockNest, m_holderPrio,
                     mutexSet, has>>
      /\ UNCHANGED locks
      /\ QXK_sched_(IF x \in Ext THEN "ignore" ELSE "activate")
  BY DEF start, locks, waiting, sync
<1>2. Core
  BY DEF XInv
<1>3. /\ Booting /\ m_lockNest = 0 /\ m_holderPrio = 0 /\ mutexSet = {}
      /\ Lockers = {} /\ lockHolder = 0 /\ lockPrio = MAX_ACTIVE + 1
      /\ \A y \in Threads : has[y] = 0 /\ prio[y] = PrioOf[y]
      /\ \A p \in readySet : active[p] \in Threads /\ prio[active[p]] = p
      /\ \A p \in Slots : active[p] \in Threads => PrioOf[active[p]] = p
  BY <1>1, Boots
<1>4. /\ active' \in [Slots -> Threads \cup {Idle, NULL, Mutex}]
      /\ active'[PrioOf[x]] = x
      /\ \A p \in Slots : p # PrioOf[x] => active'[p] = active[p]
      /\ \A p \in Slots : active[p] \in Threads \cup {Mutex, Idle} => active'[p] = active[p]
  BY <1>1, <1>2 DEF Core, ThreadTypes
<1>5. Registered(x)' /\ ~Registered(x)
      /\ \A y \in Threads : y # x => (Registered(y)' <=> Registered(y))
  BY <1>1, <1>4 DEF Registered
<1>6. Started' = Started /\ (\A y \in Threads : y # x => (Ready(y)' <=> Ready(y)))
      /\ (x \in Ext => Ready(x)') /\ (x \in Basic => ~Ready(x)' /\ ~Ready(x))
  BY <1>1, <1>3 DEF Ready, Started
<1>7. ThreadTypes' /\ SyncTypes'
  BY <1>1, <1>2, <1>4 DEF Core, ThreadTypes, SyncTypes
<1>8. Slotted'
  <2>1. \A y : ~Holds(y)'
    BY <1>1, <1>3 DEF Holds
  <2>2. \A p \in Slots : active'[p] = Idle <=> p = 0
    <3>1. \A p \in Slots : active[p] = Idle <=> p = 0
      BY <1>2 DEF Core, Slotted
    <3> QED BY <1>4, <3>1
  <2>3. \A p \in Slots : active'[p] \in Threads => PrioOf[active'[p]] = p
    BY <1>3, <1>4
  <2>4. CeilingUsed' => active'[m_ceiling'] = Mutex
    <3> SUFFICES ASSUME CeilingUsed' PROVE active'[m_ceiling'] = Mutex
      OBVIOUS
    <3>1. m_ceiling' = m_ceiling /\ m_ceiling \in Slots /\ active[m_ceiling] = Mutex
      BY <1>1, <1>2, <1>3 DEF Core, Slotted, CeilingUsed, SyncTypes
    <3> QED BY <1>4, <3>1
  <2>5. prio'[Idle] = 0 /\ \A y \in Threads : prio'[y] = PrioOf[y]
    BY <1>1, <1>2, <1>3 DEF Core, Slotted
  <2> QED BY <1>1, <1>3, <1>6, <2>1, <2>2, <2>3, <2>4, <2>5 DEF Slotted
<1>9. Held'
  <2>1. \A y : ~Holds(y)'
    BY <1>1, <1>3 DEF Holds
  <2> QED BY <1>1, <1>3, <2>1 DEF Held
<1>10. Timeouts'
  <2>1. x \in Ext => obj[x] = "none" /\ ~armed[x]
    BY <1>2, <1>5 DEF Core, Timeouts
  <2> QED BY <1>1, <1>2, <1>5, <1>6, <2>1 DEF Core, Timeouts, Booting
<1>11. Waiters'
  <2>1. ASSUME NEW y \in Threads PROVE ~Stranded(y)'
    <3>1. y \in Ext => (Pending(y)' <=> Pending(y))
      BY <1>1 DEF Pending
    <3>2. nEvts'[y] = 0
      BY <1>1, <1>3 DEF Booting
    <3> QED BY <1>1, <1>2, <1>5, <1>6, <3>1, <3>2 DEF Core, Waiters, Stranded
  <2>2. \A t \in Ext : obj'[t] = "mutex" /\ Ready(t)' => Holds(t)' /\ has'[t] = 0
    <3>1. x \in Ext => obj[x] = "none"
      BY <1>2, <1>5 DEF Core, Timeouts
    <3> QED BY <1>1, <1>2, <1>6, <3>1 DEF Core, Waiters, Holds
  <2>3. \A p \in semaSet' : SemaWaits(p)' /\ m_count' = 0
    <3> SUFFICES ASSUME NEW p \in semaSet PROVE SemaWaits(p)' /\ m_count' = 0
      BY <1>1
    <3>1. SemaWaits(p) /\ m_count = 0 /\ p \in Slots
      BY <1>2, Numbers DEF Core, Waiters, SyncTypes
    <3>2. active'[p] = active[p] /\ p # PrioOf[x]
      BY <1>1, <1>4, <3>1 DEF SemaWaits
    <3>3. p \notin readySet'
      BY <1>1, <3>1, <3>2 DEF SemaWaits
    <3> QED BY <1>1, <3>1, <3>2, <3>3 DEF SemaWaits
  <2> QED BY <1>1, <1>3, <2>1, <2>2, <2>3 DEF Waiters
<1>12. LockChain'
  BY <1>1, <1>2, <1>3, LockKept DEF Core
<1>13. Core'
  BY <1>7, <1>8, <1>9, <1>10, <1>11, <1>12 DEF Core
<1>14. FramesSound(<< >>)'
  <2>1. \A p \in readySet' : active'[p] \in Threads /\ prio'[active'[p]] = p
    <3>1. \A p \in readySet : p \in Slots
      BY <1>2, Numbers DEF Core, ThreadTypes
    <3> QED BY <1>1, <1>3, <1>4, <3>1
  <2>2. \A y \in Basic : ~(Registered(y)' /\ Ready(y)')
    BY <1>1, <1>5, <1>6, BasicIdle
  <2>3. Lockers' = {}
    BY <1>1, <1>3 DEF Lockers
  <2> QED BY <2>1, <2>2, <2>3, BootFrames
<1>15. UNCHANGED dispatcher
  <2>1. Eligible = 0
    <3>1. findMax(readySet') \in 0 .. MAX_ACTIVE
      BY <1>7, FindMax DEF ThreadTypes, Slots
    <3>2. findMax(readySet') <= lockPrio'
      BY <1>1, <1>3, <3>1, Numbers
    <3> QED BY <1>1, <1>3, <3>2 DEF Eligible
  <2>2. active'[0] = Idle
    BY <1>8, Numbers DEF Slotted
  <2>3. ~EligibleFails /\ Idle \notin Ext /\ curr = NULL /\ next = NULL
    BY <1>3, <2>1, <2>2 DEF EligibleFails, HolderNotReady, NotRegistered, Booting
  <2>4. ~Preempts(0)
    <3>1. actPrio \in Nat
      BY Numbers DEF XInv, Dispatching, DispatcherTypes
    <3> QED BY <3>1 DEF Preempts
  <2>5. Stay
    BY <1>1, <2>1, <2>2, <2>3, <2>4 DEF QXK_sched_
  <2> QED BY <2>3, <2>5 DEF Stay, dispatcher
<1>16. Dispatching'
  BY <1>1, <1>14, <1>15, BootDispatch
<1> QED BY <1>13, <1>16 DEF XInv

LEMMA runStep ==
    ASSUME XInv, run, UNCHANGED sync, Started' => m_ceiling # NULL
    PROVE  XInv'
<1> USE ThreadPrios
<1>0. PICK S : S = stack
  OBVIOUS
<1>1. /\ asrt = "none" /\ ~Started /\ lockPrio' = 0 /\ QXK_sched_("activate")
      /\ \A x \in Threads : Registered(x)
      /\ UNCHANGED <<curr, lockHolder, status, readySet, active, prio, nEvts, obj, armed,
                     sig, expiring, m_count, semaSet, m_ceiling, m_lockNest,
                     m_holderPrio, mutexSet, has>>
  BY DEF run, waiting, sync
<1>2. Core /\ Dispatching /\ S \in Seq(Frames) /\ FramesSound(S)
  BY <1>0, <1>1, Situation
<1>3. /\ m_lockNest = 0 /\ Lockers = {} /\ lockHolder = 0
  BY <1>1, Boots
<1>4. Started' /\ m_ceiling # NULL
  BY <1>1, Numbers DEF Started
<1>5. /\ \A x : Registered(x)' = Registered(x) /\ Ready(x)' = Ready(x)
      /\ \A x : Holds(x)' = Holds(x)
      /\ CeilingUsed' = CeilingUsed /\ Lockers' = Lockers
  BY <1>1 DEF Registered, Ready, Holds, CeilingUsed, Lockers
<1>6. ThreadTypes' /\ SyncTypes'
  <2>1. lockPrio' \in 0 .. MAX_ACTIVE + 1
    BY <1>1, Numbers
  <2> QED BY <1>1, <1>2, <2>1 DEF Core, ThreadTypes, SyncTypes
<1>7. Slotted'
  <2>1. CeilingUsed => \A x \in Threads : PrioOf[x] # m_ceiling
    BY <1>1, <1>2, <1>3 DEF Core, Slotted, Registered
  <2>2. \A p \in Slots : active'[p] \in Threads =>
          PrioOf[active'[p]] = p \/ (p = m_ceiling' /\ Holds(active[p])')
    BY <1>1, <1>2 DEF Core, Slotted, Holds
  <2> QED BY <1>1, <1>2, <1>4, <1>5, <2>1, <2>2 DEF Core, Slotted
<1>8. Held'
  BY <1>1, <1>2, <1>4, <1>5, HeldKept DEF Core
<1>9. Timeouts'
  BY <1>1, <1>2, <1>5 DEF Core, Timeouts
<1>10. Waiters'
  BY <1>1, <1>2 DEF Core, Waiters, Stranded, Pending, SemaWaits, MutexWaits, Holds,
                    CeilingUsed, Registered, Ready
<1>11. LockChain'
  <2>1. HolderAmong(lockHolder, Lockers)'
    BY <1>1, <1>3, <1>5 DEF HolderAmong
  <2> QED BY <1>3, <1>4, <1>5, <2>1 DEF LockChain
<1>12. Core'
  BY <1>6, <1>7, <1>8, <1>9, <1>10, <1>11 DEF Core
<1>13. FramesSound(S)'
  BY <1>1, <1>2, <1>5, FramesLocks
<1>14. Dispatching'
  BY <1>0, <1>1, <1>2, <1>4, <1>12, <1>13, SchedStep
<1> QED BY <1>12, <1>14 DEF XInv

-----------------------------------------------------------------------------
(***************************************************************************)
(* The mutex.                                                              *)
(***************************************************************************)
\* The thread x is at one level of the mutex more or less.
LEMMA LevelStep ==
    ASSUME XInv, NEW x \in Threads, Runs(x), Holds(x),
           m_lockNest' \in Nat, m_lockNest' > 0,
           has' = [has EXCEPT ![x] = m_lockNest'],
           UNCHANGED <<curr, dispatcher, locks, readySet, active, prio, nEvts, obj, armed,
                       sig, expiring, m_count, semaSet, m_ceiling, m_holderPrio, mutexSet>>
    PROVE  XInv'
<1> USE ThreadPrios
<1>0. PICK S : S = stack
  OBVIOUS
<1>1. /\ ThreadsRun /\ asrt = "none" /\ Started /\ (x \in Ext => obj[x] = "none")
  BY RunsExecutes, RunningThread DEF ThreadsRun
<1>2. Core /\ Dispatching /\ S \in Seq(Frames) /\ FramesSound(S)
  BY <1>0, <1>1, Situation
<1>3. UNCHANGED <<lockPrio, lockHolder, status>> /\ Started' /\ CeilingUsed' = CeilingUsed
      /\ \A y : Holds(y)' = Holds(y) /\ Registered(y)' = Registered(y) /\ Ready(y)' = Ready(y)
  BY <1>1 DEF locks, Started, Holds, Registered, Ready, CeilingUsed
<1>4. /\ has' \in [Threads -> Nat] /\ has'[x] = m_lockNest'
      /\ \A y \in Threads : y # x => has'[y] = has[y]
      /\ \A y \in Threads : Holds(y) => y = x
  BY <1>2 DEF Core, SyncTypes, Holds
<1>5. ThreadTypes' /\ SyncTypes'
  BY <1>2, <1>3, <1>4 DEF Core, ThreadTypes, SyncTypes
<1>6. Slotted'
  <2>1. m_lockNest # 0 /\ m_lockNest' # 0
    BY DEF Holds
  <2>2. \A p \in Slots : active'[p] \in Threads =>
          PrioOf[active'[p]] = p \/ (p = m_ceiling' /\ Holds(active[p])')
    BY <1>2 DEF Core, Slotted, Holds
  <2>3. \A y \in Threads :
          prio'[y] = IF CeilingUsed' /\ Holds(y)' THEN m_ceiling' ELSE PrioOf[y]
    BY <1>2, <1>3 DEF Core, Slotted
  <2>4. CeilingUsed' => active'[m_ceiling'] = IF m_lockNest' = 0 THEN Mutex
                                              ELSE active'[m_holderPrio']
    BY <1>2, <1>3, <2>1 DEF Core, Slotted
  <2>5. /\ \A p \in Slots : active'[p] = Idle <=> p = 0
        /\ prio'[Idle] = 0 /\ m_ceiling' # NULL
        /\ CeilingUsed' => \A y \in Threads : PrioOf[y] # m_ceiling'
    BY <1>1, <1>2, <1>3 DEF Core, Slotted
  <2> QED BY <2>2, <2>3, <2>4, <2>5 DEF Slotted
<1>7. Held'
  <2>1. m_lockNest' # 0 /\ m_lockNest > 0
    BY DEF Holds
  <2>2. active'[m_holderPrio'] \in Threads
    BY <1>2, <2>1 DEF Core, Held
  <2>3. ASSUME NEW y \in Threads, Holds(y)'
        PROVE  /\ Registered(y)' /\ (CeilingUsed' => y \in Ext /\ PrioOf[y] < m_ceiling')
               /\ has'[y] = m_lockNest'
    BY <1>2, <1>3, <1>4, <2>3 DEF Core, Held
  <2>4. \A y \in Threads : has'[y] > 0 => Holds(y)'
    BY <1>2, <1>3, <1>4 DEF Core, Held
  <2> QED BY <1>3, <2>1, <2>2, <2>3, <2>4 DEF Held
<1>8. Timeouts'
  BY <1>2, <1>3 DEF Core, Timeouts
<1>9. Waiters'
  <2>1. ASSUME NEW y \in Threads PROVE ~Stranded(y)'
    <3>1. y \in Ext => (Pending(y)' <=> Pending(y))
      BY DEF Pending, Holds
    <3> QED BY <1>2, <1>3, <3>1 DEF Core, Waiters, Stranded
  <2>2. \A t \in Ext : obj'[t] = "mutex" /\ Ready(t)' => Holds(t)' /\ has'[t] = 0
    BY <1>1, <1>2, <1>3, <1>4 DEF Core, Waiters
  <2>3. \A p \in semaSet' : SemaWaits(p)' /\ m_count' = 0
    BY <1>2 DEF Core, Waiters, SemaWaits
  <2>4. \A p \in mutexSet' : MutexWaits(p)'
    BY <1>2, <1>3 DEF Core, Waiters, MutexWaits
  <2> QED BY <2>1, <2>2, <2>3, <2>4 DEF Waiters
<1>10. LockChain'
  BY <1>2, <1>3, LockKept DEF Core, LockChain
<1>11. Core'
  BY <1>5, <1>6, <1>7, <1>8, <1>9, <1>10 DEF Core
<1>12. FramesSound(S)'
  <2>1. Lockers' = Lockers
    BY <1>3 DEF Lockers
  <2> QED BY <1>2, <2>1, FramesLocks
<1>13. Dispatching'
  BY <1>0, <1>1, <1>2, <1>3, <1>12, QuietStep
<1> QED BY <1>11, <1>13 DEF XInv

\* x holds the mutex already.
LEMMA NestStep ==
    ASSUME XInv, NEW x \in Threads, NEW service, MayLock(x, service), Acquires(x),
           Nests(x), Nest,
           UNCHANGED <<curr, locks, nEvts, waiting, expiring, sema>>
    PROVE  XInv'
<1> USE ThreadPrios
<1>1. Runs(x) /\ Holds(x)
  BY DEF MayLock, Nests, Holds
<1>2. x \in Ext => obj[x] = "none"
  BY <1>1, RunsExecutes, RunningThread
<1>3. m_lockNest \in Nat /\ has \in [Threads -> Nat]
  BY DEF XInv, Core, SyncTypes
<1>4. has[x] = m_lockNest
  BY <1>1, <1>2 DEF XInv, Core, Held
<1>5. m_lockNest' = m_lockNest + 1 /\ m_lockNest' \in Nat /\ m_lockNest' > 0
  BY <1>3 DEF Nest
<1>6. has' = [has EXCEPT ![x] = m_lockNest']
  BY <1>3, <1>4, <1>5 DEF Acquires
<1>7. UNCHANGED <<curr, dispatcher, locks, readySet, active, prio, nEvts, obj, armed,
                  sig, expiring, m_count, semaSet, m_ceiling, m_holderPrio, mutexSet>>
  BY DEF Nest, waiting, sema
<1> QED BY <1>1, <1>5, <1>6, <1>7, LevelStep

\* The free mutex: nobody holds it or waits for it.
LEMMA FreeMutex ==
    ASSUME Core, m_lockNest = 0
    PROVE  /\ m_holderPrio = 0 /\ mutexSet = {}
           /\ \A y \in Threads : ~Holds(y) /\ has[y] = 0 /\ prio[y] = PrioOf[y]
           /\ \A t \in Ext : obj[t] = "mutex" => Registered(t) /\ ~Ready(t) /\ Pending(t)
           /\ \A t \in Ext : obj[t] # "mutex"
<1> USE ThreadPrios
<1>1. m_holderPrio = 0 /\ mutexSet = {}
  BY DEF Core, Held, Waiters, MutexWaits
<1>2. \A y : ~Holds(y)
  BY DEF Holds
<1>3. \A y \in Threads : ~Holds(y) /\ has[y] = 0 /\ prio[y] = PrioOf[y]
  BY <1>2 DEF Core, Held, SyncTypes, Slotted
<1>4. \A t \in Ext : obj[t] = "mutex" => Registered(t) /\ ~Ready(t) /\ Pending(t)
  BY <1>2 DEF Core, Timeouts, Waiters, Stranded
<1>5. \A t \in Ext : obj[t] # "mutex"
  BY <1>4 DEF Pending
<1> QED BY <1>1, <1>3, <1>4, <1>5

LEMMA tryLockFailsStep ==
    ASSUME XInv, NEW x \in Threads, tryLockFails(x)
    PROVE  XInv'
<1>0. PICK S : S = stack
  OBVIOUS
<1>1. asrt = "none" /\ Started
  BY DEF tryLockFails, MayLock, Runs, Executes, ThreadsRun
<1>2. Core /\ Dispatching /\ S \in Seq(Frames) /\ FramesSound(S)
  BY <1>0, <1>1, Situation
<1>3. UNCHANGED <<curr, locks, readySet, active, prio, nEvts, obj, armed, sig, expiring, sync>>
  BY DEF tryLockFails, waiting
<1>4. curr' \in Ext \cup {NULL}
  BY <1>2, <1>3 DEF Core, ThreadTypes
<1>5. Core' /\ FramesSound(S)' /\ Started'
  BY <1>1, <1>2, <1>3, <1>4, SameCore
<1>6. CASE UNCHANGED dispatcher
  <2>1. Dispatching'
    BY <1>0, <1>1, <1>2, <1>3, <1>5, <1>6, QuietStep DEF locks
  <2> QED BY <1>5, <2>1 DEF XInv
<1>7. CASE Fails("tryLock:330")
  <2>1. asrt' = "tryLock:330" /\ UNCHANGED <<next, pendSV, stack, actPrio>>
    BY <1>7 DEF Fails
  <2>2. DispatcherTypes' /\ FramesNested'
    BY <1>2, <2>1, NestedIs, NestedIsNext DEF Dispatching, DispatcherTypes
  <2>3. Dispatching'
    BY <1>2, <1>5, <2>1, <2>2 DEF Dispatching, NoKernelAssertion
  <2> QED BY <1>5, <2>3 DEF XInv
<1> QED BY <1>6, <1>7 DEF tryLockFails

\* x takes the free mutex; with a ceiling it is the extended thread that executes, and
\* goes on at the ceiling, above all that are ready.
LEMMA TakeStep ==
    ASSUME XInv, SupportedUse, NEW x \in Threads, NEW service, MayLock(x, service),
           Acquires(x), m_lockNest = 0, Take(x),
           UNCHANGED <<curr, locks, nEvts, waiting, expiring, sema>>
    PROVE  XInv'
<1> USE ThreadPrios
<1>0. PICK S, c : S = stack /\ c = m_ceiling
  OBVIOUS
<1>1. Runs(x) /\ prio[x] # lockHolder
  BY DEF MayLock
<1>2. /\ ThreadsRun /\ asrt = "none" /\ Started /\ next = NULL /\ Registered(x) /\ Ready(x)
      /\ x \in Ext => /\ curr = x /\ obj[x] = "none" /\ Elig = prio[x] /\ ~armed[x]
                      /\ x \notin Lockers
  BY <1>1, RunsExecutes, RunningThread DEF ThreadsRun, HolderOf
<1>3. Core /\ Dispatching /\ S \in Seq(Frames) /\ FramesSound(S) /\ Placed
  BY <1>0, <1>2, Situation, Places
<1>4. /\ m_holderPrio = 0 /\ mutexSet = {}
      /\ \A y \in Threads : ~Holds(y) /\ has[y] = 0 /\ prio[y] = PrioOf[y]
      /\ \A t \in Ext : obj[t] # "mutex"
  BY <1>3, FreeMutex
<1>5. /\ c \in Slots /\ (CeilingUsed <=> c # 0)
      /\ c # 0 => /\ active[c] = Mutex /\ PrioOf[x] < c /\ x \in Ext /\ c \in Prios
                  /\ \A y \in Threads : PrioOf[y] # c
  <2>1. c \in Slots /\ (CeilingUsed <=> c # 0)
    BY <1>0, <1>2, <1>3 DEF Core, Slotted, SyncTypes, CeilingUsed
  <2>2. c # 0 => active[c] = Mutex /\ \A y \in Threads : PrioOf[y] # c
    BY <1>0, <1>2, <1>3, <2>1 DEF Core, Slotted
  <2>3. c # 0 => PrioOf[x] < c /\ x \in Ext /\ c \in Prios
    BY <1>0, <2>1, Numbers DEF MayLock, SupportedUse
  <2> QED BY <2>1, <2>2, <2>3
<1>6. /\ m_lockNest' = 1 /\ m_holderPrio' = PrioOf[x] /\ m_ceiling' = c
      /\ mutexSet' = {} /\ UNCHANGED dispatcher
      /\ c = 0 => UNCHANGED <<prio, active, readySet>>
      /\ c # 0 => /\ prio' = [prio EXCEPT ![x] = c]
                  /\ readySet' = (readySet \ {PrioOf[x]}) \cup {c}
                  /\ active' = [active EXCEPT ![c] = x]
  BY <1>0, <1>4, <1>5 DEF Take, Boost
<1>7. /\ UNCHANGED <<curr, lockPrio, lockHolder, status, nEvts, obj, armed, sig, expiring,
                     m_count, semaSet>>
      /\ Started' /\ CeilingUsed' = CeilingUsed
  BY <1>0, <1>2, <1>6 DEF locks, waiting, sema, Started, CeilingUsed
<1>8. /\ has' \in [Threads -> Nat] /\ has'[x] = 1
      /\ \A y \in Threads : y # x => has'[y] = 0
  BY <1>3, <1>4 DEF Acquires, Core, SyncTypes
<1>9. \A y \in Threads : Holds(y)' <=> y = x
  BY <1>6 DEF Holds
<1>10. /\ active' \in [Slots -> Threads \cup {Idle, NULL, Mutex}]
       /\ c # 0 => active'[c] = x
       /\ \A p \in Slots : p # c \/ c = 0 => active'[p] = active[p]
       /\ \A p \in Slots : active[p] \in Threads \cup {Idle, NULL} => active'[p] = active[p]
  <2>0. active \in [Slots -> Threads \cup {Idle, NULL, Mutex}]
    BY <1>3 DEF Core, ThreadTypes
  <2>1. CASE c = 0
    BY <1>6, <2>0, <2>1
  <2>2. CASE c # 0
    <3>1. active[c] = Mutex /\ active' = [active EXCEPT ![c] = x]
      BY <1>5, <1>6, <2>2
    <3>2. /\ active' \in [Slots -> Threads \cup {Idle, NULL, Mutex}] /\ active'[c] = x
          /\ \A p \in Slots : p # c => active'[p] = active[p]
      BY <1>5, <2>0, <3>1
    <3> QED BY <2>2, <3>1, <3>2
  <2> QED BY <2>1, <2>2
<1>11. /\ prio' \in [Threads \cup {Idle} -> Slots] /\ prio'[Idle] = 0
       /\ prio'[x] = IF c = 0 THEN PrioOf[x] ELSE c
       /\ \A y \in Threads : y # x => prio'[y] = PrioOf[y]
  BY <1>3, <1>4, <1>5, <1>6 DEF Core, ThreadTypes, Slotted
<1>12. /\ \A y \in Threads : Registered(y)' <=> Registered(y)
       /\ \A y \in Threads : Ready(y)' <=> Ready(y)
  <2>1. ASSUME NEW y \in Threads PROVE Registered(y)' <=> Registered(y)
    BY <1>5, <1>10 DEF Registered
  <2>2. ASSUME NEW y \in Threads PROVE Ready(y)' <=> Ready(y)
    <3>1. CASE c = 0
      BY <1>6, <3>1 DEF Ready
    <3>2. CASE c # 0 /\ y = x
      BY <1>2, <1>6, <1>11, <3>2 DEF Ready
    <3>3. CASE c # 0 /\ y # x
      <4>1. PrioOf[y] # PrioOf[x] /\ PrioOf[y] # c
        BY <1>5, <3>3
      <4> QED BY <1>4, <1>6, <1>11, <3>3, <4>1 DEF Ready
    <3> QED BY <3>1, <3>2, <3>3
  <2> QED BY <2>1, <2>2
<1>13. ThreadTypes' /\ SyncTypes'
  <2>1. readySet' \subseteq Prios
    BY <1>3, <1>5, <1>6 DEF Core, ThreadTypes
  <2> QED BY <1>3, <1>5, <1>6, <1>7, <1>8, <1>10, <1>11, <2>1 DEF Core, ThreadTypes, SyncTypes
<1>14. Slotted'
  <2>1. \A p \in Slots : active'[p] = Idle <=> p = 0
    <3>1. \A p \in Slots : active[p] = Idle <=> p = 0
      BY <1>3 DEF Core, Slotted
    <3> QED BY <1>5, <1>10, <3>1
  <2>2. ASSUME NEW p \in Slots, active'[p] \in Threads
        PROVE  PrioOf[active'[p]] = p \/ (p = m_ceiling' /\ Holds(active[p])')
    <3>1. CASE c # 0 /\ p = c
      BY <1>6, <1>10, <3>1 DEF Holds
    <3>2. CASE ~(c # 0 /\ p = c)
      <4>1. active'[p] = active[p] /\ active[p] \in Threads
        BY <1>10, <2>2, <3>2
      <4> QED BY <1>3, <1>4, <4>1 DEF Core, Slotted
    <3> QED BY <3>1, <3>2
  <2>3. \A y \in Threads :
          prio'[y] = IF CeilingUsed' /\ Holds(y)' THEN m_ceiling' ELSE PrioOf[y]
    BY <1>5, <1>6, <1>7, <1>9, <1>11
  <2>4. CeilingUsed' => active'[m_ceiling'] = IF m_lockNest' = 0 THEN Mutex
                                              ELSE active'[m_holderPrio']
    BY <1>2, <1>5, <1>6, <1>7, <1>10 DEF Registered
  <2>5. m_ceiling' # NULL /\ (CeilingUsed' => \A y \in Threads : PrioOf[y] # m_ceiling')
    BY <1>5, <1>6, <1>7
  <2> QED BY <1>11, <2>1, <2>2, <2>3, <2>4, <2>5 DEF Slotted
<1>15. Held'
  <2>1. active'[m_holderPrio'] \in Threads /\ m_lockNest' # 0
    BY <1>2, <1>6, <1>12 DEF Registered
  <2>2. /\ Registered(x)' /\ (CeilingUsed' => x \in Ext /\ PrioOf[x] < m_ceiling')
        /\ has'[x] = m_lockNest'
    BY <1>2, <1>5, <1>6, <1>7, <1>8, <1>12
  <2>3. \A y \in Threads : has'[y] > 0 => Holds(y)'
    BY <1>8, <1>9
  <2> QED BY <1>7, <1>9, <2>1, <2>2, <2>3 DEF Held
<1>16. Timeouts'
  BY <1>3, <1>7, <1>12 DEF Core, Timeouts
<1>17. Waiters'
  <2>1. ASSUME NEW y \in Threads PROVE ~Stranded(y)'
    <3> SUFFICES ASSUME Stranded(y)' PROVE FALSE
      OBVIOUS
    <3>1. Registered(y) /\ ~Ready(y) /\ y # x
      BY <1>2, <1>12 DEF Stranded
    <3>2. prio'[y] = prio[y]
      BY <1>4, <1>11, <3>1
    <3>3. y \in Ext => (Pending(y)' <=> Pending(y))
      BY <1>4, <1>7, <3>2 DEF Pending
    <3> QED BY <1>3, <1>7, <3>1, <3>3 DEF Core, Waiters, Stranded
  <2>2. \A t \in Ext : obj'[t] # "mutex"
    BY <1>4, <1>7
  <2>3. \A p \in semaSet' : SemaWaits(p)' /\ m_count' = 0
    <3> SUFFICES ASSUME NEW p \in semaSet PROVE SemaWaits(p)' /\ m_count' = 0
      BY <1>7
    <3>1. SemaWaits(p) /\ m_count = 0 /\ p \in Slots
      BY <1>3, Numbers DEF Core, Waiters, SyncTypes
    <3>2. PICK y \in Ext : y = active[p] /\ y # x /\ prio[y] = p /\ obj[y] = "sema"
      BY <1>2, <3>1 DEF SemaWaits
    <3>3. active'[p] = y /\ prio'[y] = p
      BY <1>4, <1>10, <1>11, <3>1, <3>2
    <3>4. p \notin readySet'
      <4>1. ~Ready(y)
        BY <3>1, <3>2 DEF SemaWaits, Ready
      <4> QED BY <1>12, <3>3, <4>1 DEF Ready
    <3> QED BY <1>7, <3>1, <3>2, <3>3, <3>4 DEF SemaWaits
  <2> QED BY <1>6, <2>1, <2>2, <2>3 DEF Waiters
<1>18. LockChain'
  <2>1. \A y \in Lockers : /\ prio'[y] = prio[y] /\ Registered(y)' /\ Ready(y)'
                           /\ y \in Ext => obj'[y] = "none"
    <3> SUFFICES ASSUME NEW y \in Lockers
                 PROVE  /\ prio'[y] = prio[y] /\ Registered(y)' /\ Ready(y)'
                        /\ y \in Ext => obj'[y] = "none"
      OBVIOUS
    <3>1. /\ y \in Threads /\ Registered(y) /\ Ready(y) /\ (y \in Ext => obj[y] = "none")
      BY <1>3 DEF Core, LockChain, Lockers
    <3>2. prio'[y] = prio[y]
      BY <1>2, <1>4, <1>5, <1>11, <3>1
    <3> QED BY <1>7, <1>12, <3>1, <3>2
  <2> QED BY <1>3, <2>1, LockKept DEF Core
<1>19. Core'
  BY <1>13, <1>14, <1>15, <1>16, <1>17, <1>18 DEF Core
<1>20. FramesSound(S)'
  <2>1. ASSUME NEW p \in readySet'
        PROVE  \/ active'[p] \in Threads /\ prio'[active'[p]] = p
               \/ p \in readySet /\ active[p] = NULL /\ active'[p] = NULL
    <3>1. CASE c # 0 /\ p = c
      BY <1>10, <1>11, <3>1
    <3>2. CASE ~(c # 0 /\ p = c)
      <4>1. p \in readySet /\ p \in Slots /\ (c # 0 => p # PrioOf[x])
        BY <1>3, <1>6, <3>2, Numbers DEF Core, ThreadTypes
      <4>2. active'[p] = active[p]
        BY <1>10, <3>2, <4>1
      <4>3. active[p] = NULL \/ (active[p] \in Threads /\ prio[active[p]] = p)
        BY <1>3, <4>1 DEF FramesSound
      <4>4. active[p] \in Threads => prio'[active[p]] = prio[active[p]]
        BY <1>4, <1>11, <4>1, <4>3
      <4> QED BY <4>1, <4>2, <4>3, <4>4
    <3> QED BY <3>1, <3>2
  <2>2. \A y \in Basic : /\ Registered(y)' <=> Registered(y)
                         /\ Ready(y) => Ready(y)'
                         /\ nEvts[y] > 0 => nEvts'[y] > 0
                         /\ Ready(y)' => Ready(y) \/ nEvts'[y] > 0
    BY <1>7, <1>12
  <2> QED BY <1>3, <1>7, <2>1, <2>2, FramesKept
<1>21. Scheduled'
  <2>1. CASE c = 0
    BY <1>2, <1>3, <1>6, <1>7, <2>1, ScheduledKept DEF Dispatching, dispatcher
  <2>2. CASE c # 0
    <3>1. /\ findMax(readySet) \in Nat /\ \A p \in readySet : p <= findMax(readySet)
          /\ findMax(readySet') \in Nat /\ \A p \in readySet' : p <= findMax(readySet')
          /\ findMax(readySet') \in readySet' \cup {0}
          /\ lockPrio \in Nat /\ PrioOf[x] \in Nat /\ c \in Nat
          /\ \A p \in readySet : p \in Nat
      BY <1>3, <1>5, <1>13, FindMax, Numbers DEF Core, ThreadTypes
    <3>2. findMax(readySet) = PrioOf[x] /\ ~(findMax(readySet) <= lockPrio)
      BY <1>1, <1>2, <1>4, <1>5, <2>2 DEF Elig
    <3>3. c \in readySet' /\ \A p \in readySet' : p <= c
      BY <1>5, <1>6, <2>2, <3>1, <3>2
    <3>4. findMax(readySet') = c
      BY <2>2, <3>1, <3>3
    <3>5. ~(findMax(readySet') <= lockPrio')
      BY <1>5, <1>7, <2>2, <3>1, <3>2, <3>4
    <3>6. Elig' = c
      BY <3>4, <3>5 DEF Elig
    <3> QED BY <1>2, <1>5, <1>6, <1>7, <1>10, <2>2, <3>6 DEF Scheduled, dispatcher
  <2> QED BY <2>1, <2>2
<1>22. Dispatching'
  BY <1>0, <1>2, <1>3, <1>6, <1>7, <1>20, <1>21, QuietDispatch
<1> QED BY <1>19, <1>22 DEF XInv

LEMMA lockNowStep ==
    ASSUME XInv, SupportedUse, NEW t \in Ext, NEW timed \in BOOLEAN, lockNow(t, timed)
    PROVE  XInv'
<1>1. t \in Threads /\ ~timed
  BY ThreadPrios DEF lockNow, SupportedUse
<1>2. /\ MayLock(t, "lock") /\ Acquires(t)
      /\ UNCHANGED <<curr, locks, nEvts, waiting, expiring, sema>>
      /\ \/ m_lockNest = 0 /\ Take(t)
         \/ Nests(t) /\ Nest
  BY <1>1 DEF lockNow
<1>3. CASE m_lockNest = 0 /\ Take(t)
  BY <1>1, <1>2, <1>3, TakeStep
<1>4. CASE Nests(t) /\ Nest
  BY <1>1, <1>2, <1>4, NestStep
<1> QED BY <1>2, <1>3, <1>4

LEMMA tryLockStep ==
    ASSUME XInv, SupportedUse, NEW x \in Threads, tryLock(x)
    PROVE  XInv'
<1>1. /\ MayLock(x, "tryLock") /\ Acquires(x)
      /\ UNCHANGED <<curr, locks, nEvts, waiting, expiring, sema>>
      /\ \/ m_lockNest = 0 /\ Take(x)
         \/ Nests(x) /\ Nest
  BY DEF tryLock
<1>2. CASE m_lockNest = 0 /\ Take(x)
  BY <1>1, <1>2, TakeStep
<1>3. CASE Nests(x) /\ Nest
  BY <1>1, <1>3, NestStep
<1> QED BY <1>1, <1>2, <1>3

\* A thread that unlocks the mutex holds it, at the ceiling, on all its levels.
LEMMA HolderRuns ==
    ASSUME XInv, SupportedUse, NEW x \in Threads, MayUnlock(x)
    PROVE  /\ Runs(x) /\ ThreadsRun /\ asrt = "none" /\ Started /\ next = NULL
           /\ Holds(x) /\ Owns(x) /\ has[x] = m_lockNest
           /\ Registered(x) /\ Ready(x) /\ expiring = NULL
           /\ x \in Ext => curr = x /\ obj[x] = "none" /\ x \notin Lockers
           /\ m_ceiling \in Slots /\ (CeilingUsed <=> m_ceiling # 0)
           /\ m_ceiling # 0 => /\ x \in Ext /\ prio[x] = m_ceiling /\ active[m_ceiling] = x
                               /\ PrioOf[x] < m_ceiling /\ m_ceiling \in Prios
                               /\ \A y \in Threads : PrioOf[y] # m_ceiling
           /\ m_ceiling = 0 => prio[x] = PrioOf[x]
           /\ \A y \in Threads : y # x => /\ ~Holds(y) /\ has[y] = 0
                                          /\ prio[y] = PrioOf[y] /\ PrioOf[y] # PrioOf[x]
<1> USE ThreadPrios
<1>1. Runs(x) /\ has[x] > 0 /\ prio[x] # lockHolder
  BY DEF MayUnlock, SupportedUse
<1>2. /\ ThreadsRun /\ asrt = "none" /\ Started /\ next = NULL /\ expiring = NULL
      /\ Registered(x) /\ Ready(x)
      /\ x \in Ext => curr = x /\ obj[x] = "none" /\ x \notin Lockers
  BY <1>1, RunsExecutes, RunningThread DEF ThreadsRun, HolderOf
<1>3. Core
  BY DEF XInv
<1>4. Holds(x) /\ has[x] = m_lockNest
  BY <1>1, <1>2, <1>3 DEF Core, Held, SyncTypes
<1>5. m_ceiling \in Slots /\ (CeilingUsed <=> m_ceiling # 0)
  BY <1>2, <1>3 DEF Core, Slotted, SyncTypes, CeilingUsed
<1>6. m_ceiling # 0 => /\ x \in Ext /\ prio[x] = m_ceiling /\ active[m_ceiling] = x
                       /\ PrioOf[x] < m_ceiling /\ m_ceiling \in Prios
                       /\ \A y \in Threads : PrioOf[y] # m_ceiling
  <2> SUFFICES ASSUME m_ceiling # 0
               PROVE  /\ x \in Ext /\ prio[x] = m_ceiling /\ active[m_ceiling] = x
                      /\ PrioOf[x] < m_ceiling /\ m_ceiling \in Prios
                      /\ \A y \in Threads : PrioOf[y] # m_ceiling
    OBVIOUS
  <2>1. x \in Ext /\ PrioOf[x] < m_ceiling
    BY <1>3, <1>4, <1>5 DEF Core, Held
  <2>2. prio[x] = m_ceiling /\ \A y \in Threads : PrioOf[y] # m_ceiling
    BY <1>2, <1>3, <1>4, <1>5 DEF Core, Slotted
  <2>3. active[m_ceiling] = x
    BY <1>2, <1>3, <1>4, <1>5 DEF Core, Slotted, Holds, Registered
  <2> QED BY <1>5, <2>1, <2>2, <2>3, Numbers
<1>7. m_ceiling = 0 => prio[x] = PrioOf[x]
  BY <1>3, <1>5 DEF Core, Slotted
<1>8. Owns(x)
  BY <1>4, <1>6 DEF Owns, Holds
<1>9. \A y \in Threads : y # x => /\ ~Holds(y) /\ has[y] = 0
                                  /\ prio[y] = PrioOf[y] /\ PrioOf[y] # PrioOf[x]
  <2> SUFFICES ASSUME NEW y \in Threads, y # x
               PROVE  /\ ~Holds(y) /\ has[y] = 0
                      /\ prio[y] = PrioOf[y] /\ PrioOf[y] # PrioOf[x]
    OBVIOUS
  <2>1. PrioOf[y] # PrioOf[x] /\ ~Holds(y)
    BY <1>4 DEF Holds
  <2> QED BY <1>3, <2>1 DEF Core, Held, SyncTypes, Slotted
<1> QED BY <1>1, <1>2, <1>4, <1>5, <1>6, <1>7, <1>8, <1>9

LEMMA unlockLevelStep ==
    ASSUME XInv, SupportedUse, NEW x \in Threads, unlockLevel(x)
    PROVE  XInv'
<1>1. MayUnlock(x) /\ m_lockNest # 1 /\ Gives(x)
  BY DEF unlockLevel
<1>2. Runs(x) /\ Holds(x) /\ Owns(x) /\ has[x] = m_lockNest
  BY <1>1, HolderRuns
<1>3. m_lockNest \in Nat /\ has \in [Threads -> Nat] /\ m_lockNest > 0
  BY <1>2 DEF XInv, Core, SyncTypes, Holds
<1>4. m_lockNest' = m_lockNest - 1 /\ m_lockNest' \in Nat /\ m_lockNest' > 0
  BY <1>1, <1>2, <1>3 DEF unlockLevel
<1>5. has' = [has EXCEPT ![x] = m_lockNest']
  BY <1>1, <1>2, <1>3, <1>4 DEF Gives
<1>6. UNCHANGED <<curr, dispatcher, locks, readySet, active, prio, nEvts, obj, armed,
                  sig, expiring, m_count, semaSet, m_ceiling, m_holderPrio, mutexSet>>
  BY <1>2 DEF unlockLevel, waiting, sema
<1> QED BY <1>2, <1>4, <1>5, <1>6, LevelStep

LEMMA unlockFreeStep ==
    ASSUME XInv, SupportedUse, NEW x \in Threads, unlockFree(x)
    PROVE  XInv'
<1> USE ThreadPrios
<1>0. PICK S, c : S = stack /\ c = m_ceiling
  OBVIOUS
<1>1. MayUnlock(x) /\ m_lockNest = 1 /\ mutexSet = {} /\ Gives(x)
  BY DEF unlockFree
<1>2. /\ asrt = "none" /\ Started /\ Holds(x) /\ Owns(x) /\ has[x] = m_lockNest
      /\ Registered(x) /\ Ready(x)
      /\ x \in Ext => curr = x /\ obj[x] = "none" /\ x \notin Lockers
      /\ c \in Slots /\ (CeilingUsed <=> c # 0)
      /\ c # 0 => /\ x \in Ext /\ prio[x] = c /\ active[c] = x
                  /\ \A y \in Threads : PrioOf[y] # c
      /\ c = 0 => prio[x] = PrioOf[x]
      /\ \A y \in Threads : y # x => /\ ~Holds(y) /\ has[y] = 0
                                     /\ prio[y] = PrioOf[y] /\ PrioOf[y] # PrioOf[x]
  BY <1>0, <1>1, HolderRuns
<1>3. Core /\ Dispatching /\ S \in Seq(Frames) /\ FramesSound(S) /\ Placed
  BY <1>0, <1>2, Situation, Places
<1>4. /\ m_lockNest' = 0 /\ m_holderPrio' = 0 /\ m_ceiling' = c /\ mutexSet' = {}
      /\ prio' = [prio EXCEPT ![x] = PrioOf[x]]
      /\ readySet' = IF c = 0 THEN readySet ELSE (readySet \ {c}) \cup {PrioOf[x]}
      /\ active' = IF c = 0 THEN active ELSE [active EXCEPT ![c] = Mutex]
      /\ QXK_sched_("activate")
  BY <1>0, <1>1, <1>2 DEF unlockFree, ReadyBelow, SlotFreed
<1>5. /\ UNCHANGED <<curr, lockPrio, lockHolder, status, nEvts, obj, armed, sig, expiring,
                     m_count, semaSet>>
      /\ UNCHANGED locks /\ Started' /\ CeilingUsed' = CeilingUsed
  BY <1>0, <1>2, <1>4 DEF unlockFree, locks, waiting, sema, Started, CeilingUsed
<1>6. has' \in [Threads -> Nat] /\ \A y \in Threads : has'[y] = 0
  <2>1. has \in [Threads -> Nat]
    BY <1>3 DEF Core, SyncTypes
  <2> QED BY <1>1, <1>2, <2>1 DEF Gives
<1>7. \A y : ~Holds(y)'
  BY <1>4 DEF Holds
<1>8. /\ prio' \in [Threads \cup {Idle} -> Slots] /\ prio'[Idle] = 0
      /\ \A y \in Threads : prio'[y] = PrioOf[y]
  BY <1>2, <1>3, <1>4 DEF Core, ThreadTypes, Slotted
<1>9. /\ active' \in [Slots -> Threads \cup {Idle, NULL, Mutex}]
      /\ c # 0 => active'[c] = Mutex
      /\ \A p \in Slots : p # c \/ c = 0 => active'[p] = active[p]
  <2>0. active \in [Slots -> Threads \cup {Idle, NULL, Mutex}]
    BY <1>3 DEF Core, ThreadTypes
  <2>1. CASE c = 0
    BY <1>4, <2>0, <2>1
  <2>2. CASE c # 0
    BY <1>2, <1>4, <2>0, <2>2
  <2> QED BY <2>1, <2>2
<1>10. \A y \in Threads : Registered(y)' <=> Registered(y)
  BY <1>2, <1>9 DEF Registered
<1>11. \A y \in Threads : Ready(y)' <=> Ready(y)
  <2> SUFFICES ASSUME NEW y \in Threads PROVE Ready(y)' <=> Ready(y)
    OBVIOUS
  <2>1. CASE c = 0
    BY <1>2, <1>4, <1>8, <2>1 DEF Ready
  <2>2. CASE c # 0 /\ y = x
    BY <1>2, <1>4, <1>8, <2>2 DEF Ready
  <2>3. CASE c # 0 /\ y # x
    <3>1. PrioOf[y] # PrioOf[x] /\ PrioOf[y] # c /\ prio[y] = PrioOf[y]
      BY <1>2, <2>3
    <3> QED BY <1>4, <1>8, <2>3, <3>1 DEF Ready
  <2> QED BY <2>1, <2>2, <2>3
<1>12. ThreadTypes' /\ SyncTypes'
  <2>1. readySet' \subseteq Prios
    BY <1>3, <1>4 DEF Core, ThreadTypes
  <2> QED BY <1>2, <1>3, <1>4, <1>5, <1>6, <1>8, <1>9, <2>1, Numbers
          DEF Core, ThreadTypes, SyncTypes
<1>13. Slotted'
  <2>1. \A p \in Slots : active'[p] = Idle <=> p = 0
    <3>1. \A p \in Slots : active[p] = Idle <=> p = 0
      BY <1>3 DEF Core, Slotted
    <3> QED BY <1>2, <1>9, <3>1
  <2>2. \A p \in Slots : active'[p] \in Threads => PrioOf[active'[p]] = p
    <3> SUFFICES ASSUME NEW p \in Slots, active'[p] \in Threads PROVE PrioOf[active'[p]] = p
      OBVIOUS
    <3>1. active'[p] = active[p] /\ (c = 0 \/ p # c)
      BY <1>9
    <3>2. PrioOf[active[p]] = p \/ (p = c /\ Holds(active[p]))
      BY <1>0, <1>3, <3>1 DEF Core, Slotted
    <3>3. p # 0
      BY <2>1
    <3> QED BY <3>1, <3>2, <3>3
  <2>3. CeilingUsed' => active'[m_ceiling'] = Mutex
    BY <1>2, <1>4, <1>5, <1>9
  <2>4. m_ceiling' # NULL /\ (CeilingUsed' => \A y \in Threads : PrioOf[y] # m_ceiling')
    BY <1>2, <1>4, <1>5
  <2> QED BY <1>4, <1>7, <1>8, <2>1, <2>2, <2>3, <2>4 DEF Slotted
<1>14. Held'
  BY <1>4, <1>6, <1>7 DEF Held
<1>15. Timeouts'
  BY <1>3, <1>5, <1>10, <1>11 DEF Core, Timeouts
<1>16. Waiters'
  <2>0. \A t \in Ext : obj[t] # "mutex"
    <3> SUFFICES ASSUME NEW t \in Ext, obj[t] = "mutex" PROVE FALSE
      OBVIOUS
    <3>1. t # x /\ ~Ready(t) /\ Registered(t)
      BY <1>2, <1>3 DEF Core, Waiters, Timeouts
    <3>2. Pending(t)
      BY <1>3, <3>1 DEF Core, Waiters, Stranded
    <3> QED BY <1>1, <3>2 DEF Pending
  <2>1. ASSUME NEW y \in Threads PROVE ~Stranded(y)'
    <3> SUFFICES ASSUME Stranded(y)' PROVE FALSE
      OBVIOUS
    <3>1. Registered(y) /\ ~Ready(y) /\ y # x
      BY <1>2, <1>10, <1>11 DEF Stranded
    <3>2. prio'[y] = prio[y]
      BY <1>2, <1>8, <3>1
    <3>3. y \in Ext => (Pending(y)' <=> Pending(y))
      BY <1>5, <2>0, <3>2 DEF Pending
    <3> QED BY <1>3, <1>5, <3>1, <3>3 DEF Core, Waiters, Stranded
  <2>2. \A t \in Ext : obj'[t] # "mutex"
    BY <1>5, <2>0
  <2>3. \A p \in semaSet' : SemaWaits(p)' /\ m_count' = 0
    <3> SUFFICES ASSUME NEW p \in semaSet PROVE SemaWaits(p)' /\ m_count' = 0
      BY <1>5
    <3>1. SemaWaits(p) /\ m_count = 0 /\ p \in Slots
      BY <1>3, Numbers DEF Core, Waiters, SyncTypes
    <3>2. PICK y \in Ext : y = active[p] /\ y # x /\ prio[y] = p /\ obj[y] = "sema"
      BY <1>2, <3>1 DEF SemaWaits
    <3>3. active'[p] = y /\ prio'[y] = p
      BY <1>2, <1>8, <1>9, <3>1, <3>2
    <3>4. p \notin readySet'
      <4>1. ~Ready(y)
        BY <3>1, <3>2 DEF SemaWaits, Ready
      <4> QED BY <1>11, <3>3, <4>1 DEF Ready
    <3> QED BY <1>5, <3>1, <3>2, <3>3, <3>4 DEF SemaWaits
  <2> QED BY <1>4, <2>1, <2>2, <2>3 DEF Waiters
<1>17. LockChain'
  <2>1. \A y \in Lockers : /\ prio'[y] = prio[y] /\ Registered(y)' /\ Ready(y)'
                           /\ y \in Ext => obj'[y] = "none"
    <3> SUFFICES ASSUME NEW y \in Lockers
                 PROVE  /\ prio'[y] = prio[y] /\ Registered(y)' /\ Ready(y)'
                        /\ y \in Ext => obj'[y] = "none"
      OBVIOUS
    <3>1. /\ y \in Threads /\ Registered(y) /\ Ready(y) /\ (y \in Ext => obj[y] = "none")
      BY <1>3 DEF Core, LockChain, Lockers
    <3>2. prio'[y] = prio[y]
      BY <1>2, <1>8, <3>1
    <3> QED BY <1>5, <1>10, <1>11, <3>1, <3>2
  <2> QED BY <1>3, <1>5, <2>1, LockKept DEF Core
<1>18. Core'
  BY <1>12, <1>13, <1>14, <1>15, <1>16, <1>17 DEF Core
<1>19. FramesSound(S)'
  <2>1. ASSUME NEW p \in readySet'
        PROVE  \/ active'[p] \in Threads /\ prio'[active'[p]] = p
               \/ p \in readySet /\ active[p] = NULL /\ active'[p] = NULL
    <3>1. CASE c # 0 /\ p = PrioOf[x]
      BY <1>2, <1>8, <1>10, <3>1 DEF Registered
    <3>2. CASE ~(c # 0 /\ p = PrioOf[x])
      <4>1. p \in readySet /\ p \in Slots /\ (c = 0 \/ p # c)
        BY <1>3, <1>4, <3>2, Numbers DEF Core, ThreadTypes
      <4>2. active'[p] = active[p]
        BY <1>9, <4>1
      <4>3. active[p] = NULL \/ (active[p] \in Threads /\ prio[active[p]] = p)
        BY <1>3, <4>1 DEF FramesSound
      <4>4. active[p] \in Threads => prio'[active[p]] = prio[active[p]]
        BY <1>2, <1>8, <4>1, <4>3
      <4> QED BY <4>1, <4>2, <4>3, <4>4
    <3> QED BY <3>1, <3>2
  <2>2. \A y \in Basic : /\ Registered(y)' <=> Registered(y)
                         /\ Ready(y) => Ready(y)'
                         /\ nEvts[y] > 0 => nEvts'[y] > 0
                         /\ Ready(y)' => Ready(y) \/ nEvts'[y] > 0
    BY <1>5, <1>10, <1>11
  <2> QED BY <1>3, <1>5, <2>1, <2>2, FramesKept
<1>20. Dispatching'
  BY <1>0, <1>2, <1>3, <1>4, <1>5, <1>18, <1>19, SchedStep
<1> QED BY <1>18, <1>20 DEF XInv

\* The thread that unlock() finds waits for the mutex and can inherit it.
LEMMA Heir ==
    ASSUME XInv, SupportedUse, NEW x \in Threads, MayUnlock(x), mutexSet # {},
           NEW p, p = findMax(mutexSet)
    PROVE  /\ p \in mutexSet /\ p \in Prios /\ p \in Slots /\ active[p] \in Ext
           /\ active[p] # x /\ obj[active[p]] = "mutex" /\ PrioOf[active[p]] = p
           /\ m_holderPrio # p /\ p # PrioOf[x] /\ p \notin readySet
           /\ Registered(active[p]) /\ sig[active[p]]
           /\ m_ceiling # 0 => p < m_ceiling
           /\ CanInherit(x, p)
<1> USE ThreadPrios
<1>1. p \in mutexSet /\ p \in Prios /\ p \in Slots
  BY FindMax, Numbers DEF XInv, Core, SyncTypes
<1>2. MutexWaits(p)
  BY <1>1 DEF XInv, Core, Waiters
<1>3. /\ Holds(x) /\ (x \in Ext => obj[x] = "none")
      /\ CeilingUsed <=> m_ceiling # 0
      /\ \A y \in Threads : y # x => prio[y] = PrioOf[y]
  BY HolderRuns
<1>4. /\ active[p] \in Ext /\ obj[active[p]] = "mutex" /\ PrioOf[active[p]] = p
      /\ m_holderPrio # p /\ p \notin readySet /\ (m_ceiling # 0 => p < m_ceiling)
  BY <1>2, <1>3 DEF MutexWaits
<1>5. active[p] # x /\ p # PrioOf[x] /\ prio[active[p]] = p
  BY <1>3, <1>4 DEF Holds
<1>6. Registered(active[p]) /\ sig[active[p]]
  BY <1>4 DEF XInv, Core, Timeouts
<1>7. CanInherit(x, p)
  <2>1. p \notin ReadyBelow(x)
    BY <1>4, <1>5 DEF ReadyBelow
  <2> QED BY <1>4, <1>5, <2>1 DEF CanInherit
<1> QED BY <1>1, <1>4, <1>5, <1>6, <1>7

LEMMA unlockHandOverStep ==
    ASSUME XInv, SupportedUse, NEW x \in Threads, unlockHandOver(x)
    PROVE  XInv'
<1> USE ThreadPrios
<1>0. PICK S, c, p, t, q : /\ S = stack /\ c = m_ceiling /\ p = findMax(mutexSet)
                           /\ t = active[p] /\ q = IF c = 0 THEN p ELSE c
  OBVIOUS
<1>1. MayUnlock(x) /\ m_lockNest = 1 /\ mutexSet # {} /\ Gives(x)
  BY DEF unlockHandOver
<1>2. /\ asrt = "none" /\ Started /\ Holds(x) /\ Owns(x) /\ has[x] = m_lockNest
      /\ Registered(x) /\ Ready(x) /\ expiring = NULL
      /\ x \in Ext => curr = x /\ obj[x] = "none" /\ x \notin Lockers
      /\ c \in Slots /\ (CeilingUsed <=> c # 0)
      /\ c # 0 => /\ x \in Ext /\ prio[x] = c /\ active[c] = x /\ c \in Prios
                  /\ \A y \in Threads : PrioOf[y] # c
      /\ c = 0 => prio[x] = PrioOf[x]
      /\ \A y \in Threads : y # x => /\ ~Holds(y) /\ has[y] = 0
                                     /\ prio[y] = PrioOf[y] /\ PrioOf[y] # PrioOf[x]
  BY <1>0, <1>1, HolderRuns
<1>3. Core /\ Dispatching /\ S \in Seq(Frames) /\ FramesSound(S) /\ Placed
  BY <1>0, <1>2, Situation, Places
<1>4. /\ p \in mutexSet /\ p \in Prios /\ p \in Slots /\ t \in Ext /\ t # x
      /\ obj[t] = "mutex" /\ PrioOf[t] = p /\ m_holderPrio # p /\ p # PrioOf[x]
      /\ p \notin readySet /\ Registered(t) /\ sig[t] /\ (c # 0 => p < c)
      /\ CanInherit(x, p)
  BY <1>0, <1>1, Heir
<1>5. /\ m_lockNest' = 1 /\ m_holderPrio' = p /\ m_ceiling' = c
      /\ mutexSet' = mutexSet \ {p}
      /\ armed' = [armed EXCEPT ![t] = FALSE]
      /\ prio' = [prio EXCEPT ![x] = PrioOf[x], ![t] = q]
      /\ readySet' = ReadyBelow(x) \cup {q}
      /\ active' = [active EXCEPT ![q] = t]
      /\ QXK_sched_("activate")
  BY <1>0, <1>1, <1>2, <1>4 DEF unlockHandOver, TeDisarm
<1>6. /\ UNCHANGED <<curr, lockPrio, lockHolder, status, nEvts, obj, sig, expiring,
                     m_count, semaSet>>
      /\ UNCHANGED locks /\ Started' /\ CeilingUsed' = CeilingUsed
  BY <1>0, <1>2, <1>5 DEF unlockHandOver, locks, sema, Started, CeilingUsed
<1>7. has' \in [Threads -> Nat] /\ \A y \in Threads : has'[y] = 0
  <2>1. has \in [Threads -> Nat]
    BY <1>3 DEF Core, SyncTypes
  <2> QED BY <1>1, <1>2, <2>1 DEF Gives
<1>8. \A y \in Threads : Holds(y)' <=> y = t
  BY <1>4, <1>5 DEF Holds
<1>9. q \in Prios /\ q \in Slots /\ (c = 0 => q = p) /\ (c # 0 => q = c)
  BY <1>0, <1>2, <1>4
<1>10. /\ prio' \in [Threads \cup {Idle} -> Slots] /\ prio'[Idle] = 0
       /\ prio'[t] = q
       /\ \A y \in Threads : y # t => prio'[y] = PrioOf[y]
  <2>1. prio \in [Threads \cup {Idle} -> Slots] /\ prio[Idle] = 0
    BY <1>3 DEF Core, ThreadTypes, Slotted
  <2> QED BY <1>2, <1>4, <1>5, <1>9, <2>1
<1>11. /\ active' \in [Slots -> Threads \cup {Idle, NULL, Mutex}]
       /\ active'[q] = t /\ \A r \in Slots : r # q => active'[r] = active[r]
       /\ c = 0 => active' = active
  <2>0. active \in [Slots -> Threads \cup {Idle, NULL, Mutex}]
    BY <1>3 DEF Core, ThreadTypes
  <2>1. /\ active' \in [Slots -> Threads \cup {Idle, NULL, Mutex}]
        /\ active'[q] = t /\ \A r \in Slots : r # q => active'[r] = active[r]
    BY <1>4, <1>5, <1>9, <2>0
  <2>2. c = 0 => active' = active
    BY <1>0, <1>5, <1>9, <2>0
  <2> QED BY <2>1, <2>2
<1>12. \A y \in Threads : Registered(y)' <=> Registered(y)
  BY <1>2, <1>9, <1>11 DEF Registered
<1>13. readySet' = IF c = 0 THEN readySet \cup {p}
                   ELSE (readySet \ {c}) \cup {PrioOf[x], c}
  BY <1>0, <1>5, <1>9 DEF ReadyBelow
<1>14. /\ \A y \in Threads : y # t => (Ready(y)' <=> Ready(y))
       /\ Ready(t)' /\ ~Ready(t)
  <2>1. Ready(t)' /\ ~Ready(t)
    BY <1>2, <1>4, <1>5, <1>10 DEF Ready
  <2>2. ASSUME NEW y \in Threads, y # t PROVE Ready(y)' <=> Ready(y)
    <3>0. PrioOf[y] # p
      BY <1>4, <2>2
    <3>1. CASE c = 0
      <4>1. prio'[y] = PrioOf[y] /\ prio[y] = PrioOf[y]
        BY <1>2, <1>10, <2>2, <3>1
      <4> QED BY <1>13, <3>0, <3>1, <4>1 DEF Ready
    <3>2. CASE c # 0 /\ y = x
      BY <1>2, <1>4, <1>10, <1>13, <3>2 DEF Ready
    <3>3. CASE c # 0 /\ y # x
      <4>1. /\ PrioOf[y] # PrioOf[x] /\ PrioOf[y] # c
            /\ prio'[y] = PrioOf[y] /\ prio[y] = PrioOf[y]
        BY <1>2, <1>10, <2>2, <3>3
      <4> QED BY <1>13, <3>3, <4>1 DEF Ready
    <3> QED BY <3>1, <3>2, <3>3
  <2> QED BY <2>1, <2>2
<1>15. ThreadTypes' /\ SyncTypes'
  <2>1. readySet' \subseteq Prios
    BY <1>2, <1>3, <1>4, <1>13 DEF Core, ThreadTypes
  <2>2. armed' \in [Ext -> BOOLEAN]
    BY <1>3, <1>5 DEF Core, ThreadTypes
  <2>3. ThreadTypes'
    BY <1>3, <1>6, <1>10, <1>11, <2>1, <2>2 DEF Core, ThreadTypes
  <2>4. SyncTypes'
    BY <1>2, <1>3, <1>4, <1>5, <1>6, <1>7 DEF Core, SyncTypes
  <2> QED BY <2>3, <2>4
<1>16. Slotted'
  <2>1. \A r \in Slots : active'[r] = Idle <=> r = 0
    <3>1. \A r \in Slots : active[r] = Idle <=> r = 0
      BY <1>3 DEF Core, Slotted
    <3> QED BY <1>4, <1>9, <1>11, <3>1, Numbers
  <2>2. ASSUME NEW r \in Slots, active'[r] \in Threads
        PROVE  PrioOf[active'[r]] = r \/ (r = m_ceiling' /\ Holds(active[r])')
    <3>1. CASE r = q /\ c # 0
      BY <1>5, <1>4, <1>9, <1>11, <3>1 DEF Holds
    <3>2. CASE r = q /\ c = 0
      BY <1>4, <1>9, <1>11, <3>2
    <3>3. CASE r # q
      <4>1. active'[r] = active[r] /\ r # 0 /\ r # c
        BY <1>9, <1>11, <2>1, <2>2, <3>3
      <4> QED BY <1>0, <1>3, <2>2, <4>1 DEF Core, Slotted
    <3> QED BY <3>1, <3>2, <3>3
  <2>3. \A y \in Threads :
          prio'[y] = IF CeilingUsed' /\ Holds(y)' THEN m_ceiling' ELSE PrioOf[y]
    BY <1>2, <1>4, <1>5, <1>6, <1>8, <1>9, <1>10
  <2>4. CeilingUsed' => active'[m_ceiling'] = IF m_lockNest' = 0 THEN Mutex
                                              ELSE active'[m_holderPrio']
    <3>1. Registered(t)'
      BY <1>4, <1>12
    <3> QED BY <1>2, <1>4, <1>5, <1>6, <1>9, <1>11, <3>1 DEF Registered
  <2>5. m_ceiling' # NULL /\ (CeilingUsed' => \A y \in Threads : PrioOf[y] # m_ceiling')
    BY <1>2, <1>5, <1>6
  <2> QED BY <1>10, <2>1, <2>2, <2>3, <2>4, <2>5 DEF Slotted
<1>17. Held'
  <2>1. active'[m_holderPrio'] \in Threads /\ m_lockNest' # 0 /\ Registered(t)'
    BY <1>4, <1>5, <1>12 DEF Registered
  <2>2. /\ CeilingUsed' => t \in Ext /\ PrioOf[t] < m_ceiling'
        /\ t \in Ext /\ has'[t] = 0 /\ m_lockNest' = 1
        /\ obj'[t] = "mutex" /\ Ready(t)' /\ sig'[t]
    BY <1>2, <1>4, <1>5, <1>6, <1>7, <1>14
  <2>3. \A y \in Threads : ~(has'[y] > 0)
    BY <1>7
  <2> QED BY <1>6, <1>8, <2>1, <2>2, <2>3 DEF Held
<1>18. Timeouts'
  <2>1. ~armed'[t] /\ \A y \in Ext : y # t => armed'[y] = armed[y]
    BY <1>3, <1>4, <1>5 DEF Core, ThreadTypes
  <2> QED BY <1>2, <1>3, <1>4, <1>6, <1>12, <1>14, <2>1 DEF Core, Timeouts
<1>19. Waiters'
  <2>1. ASSUME NEW y \in Threads PROVE ~Stranded(y)'
    <3> SUFFICES ASSUME Stranded(y)' PROVE FALSE
      OBVIOUS
    <3>1. Registered(y) /\ ~Ready(y) /\ y # x /\ y # t
      BY <1>2, <1>12, <1>14 DEF Stranded
    <3>2. prio'[y] = prio[y] /\ prio[y] = PrioOf[y] /\ PrioOf[y] # p
      BY <1>2, <1>4, <1>10, <3>1
    <3>3. ASSUME y \in Ext, Pending(y) PROVE Pending(y)'
      BY <1>5, <1>6, <3>2, <3>3 DEF Pending
    <3> QED BY <1>3, <1>6, <3>1, <3>3 DEF Core, Waiters, Stranded
  <2>2. \A y \in Ext : obj'[y] = "mutex" /\ Ready(y)' => Holds(y)' /\ has'[y] = 0
    <3> SUFFICES ASSUME NEW y \in Ext, obj[y] = "mutex", Ready(y)', y # t PROVE FALSE
      BY <1>6, <1>7, <1>8
    <3>1. Ready(y) /\ y # x
      BY <1>2, <1>14
    <3> QED BY <1>2, <1>3, <3>1 DEF Core, Waiters
  <2>3. \A r \in semaSet' : SemaWaits(r)' /\ m_count' = 0
    <3> SUFFICES ASSUME NEW r \in semaSet PROVE SemaWaits(r)' /\ m_count' = 0
      BY <1>6
    <3>1. SemaWaits(r) /\ m_count = 0 /\ r \in Slots
      BY <1>3, Numbers DEF Core, Waiters, SyncTypes
    <3>2. PICK y \in Ext : y = active[r] /\ y # x /\ y # t /\ prio[y] = r /\ obj[y] = "sema"
      BY <1>2, <1>4, <3>1 DEF SemaWaits
    <3>3. r # q
      BY <1>0, <1>2, <1>9, <3>2
    <3>4. active'[r] = y /\ prio'[y] = r
      BY <1>2, <1>10, <1>11, <3>1, <3>2, <3>3
    <3>5. r \notin readySet'
      <4>1. ~Ready(y)
        BY <3>1, <3>2 DEF SemaWaits, Ready
      <4> QED BY <1>14, <3>2, <3>4, <4>1 DEF Ready
    <3> QED BY <1>6, <3>1, <3>2, <3>4, <3>5 DEF SemaWaits
  <2>4. \A r \in mutexSet' : MutexWaits(r)'
    <3> SUFFICES ASSUME NEW r \in mutexSet, r # p PROVE MutexWaits(r)'
      BY <1>5
    <3>1. MutexWaits(r) /\ r \in Slots
      BY <1>3, Numbers DEF Core, Waiters, SyncTypes
    <3>2. PICK y \in Ext : /\ y = active[r] /\ y # x /\ y # t /\ PrioOf[y] = r
                           /\ obj[y] = "mutex"
      BY <1>2, <1>4, <3>1 DEF MutexWaits
    <3>3. r # q /\ (c # 0 => r < c)
      BY <1>0, <1>2, <1>9, <3>1, <3>2 DEF MutexWaits
    <3>4. active'[r] = y /\ prio'[y] = r /\ prio[y] = r
      BY <1>2, <1>10, <1>11, <3>1, <3>2, <3>3
    <3>5. r \notin readySet'
      <4>1. ~Ready(y)
        BY <3>1, <3>4 DEF MutexWaits, Ready
      <4> QED BY <1>14, <3>2, <3>4, <4>1 DEF Ready
    <3> QED BY <1>2, <1>5, <1>6, <3>2, <3>3, <3>4, <3>5 DEF MutexWaits
  <2> QED BY <2>1, <2>2, <2>3, <2>4 DEF Waiters
<1>20. LockChain'
  <2>1. \A y \in Lockers : /\ prio'[y] = prio[y] /\ Registered(y)' /\ Ready(y)'
                           /\ y \in Ext => obj'[y] = "none"
    <3> SUFFICES ASSUME NEW y \in Lockers
                 PROVE  /\ prio'[y] = prio[y] /\ Registered(y)' /\ Ready(y)'
                        /\ y \in Ext => obj'[y] = "none"
      OBVIOUS
    <3>1. /\ y \in Threads /\ Registered(y) /\ Ready(y) /\ (y \in Ext => obj[y] = "none")
      BY <1>3 DEF Core, LockChain, Lockers
    <3>2. y # t
      BY <1>4, <3>1
    <3>3. prio'[y] = prio[y]
      BY <1>2, <1>10, <3>1, <3>2
    <3> QED BY <1>6, <1>12, <1>14, <3>1, <3>2, <3>3
  <2> QED BY <1>3, <1>6, <2>1, LockKept DEF Core
<1>21. Core'
  BY <1>15, <1>16, <1>17, <1>18, <1>19, <1>20 DEF Core
<1>22. FramesSound(S)'
  <2>1. ASSUME NEW r \in readySet'
        PROVE  \/ active'[r] \in Threads /\ prio'[active'[r]] = r
               \/ r \in readySet /\ active[r] = NULL /\ active'[r] = NULL
    <3>1. CASE r = q
      BY <1>4, <1>10, <1>11, <3>1
    <3>2. CASE r # q /\ c # 0 /\ r = PrioOf[x]
      BY <1>2, <1>4, <1>10, <1>12, <3>2 DEF Registered
    <3>3. CASE r # q /\ ~(c # 0 /\ r = PrioOf[x])
      <4>1. r \in readySet /\ r \in Slots /\ r # c
        BY <1>3, <1>9, <1>13, <3>3, Numbers DEF Core, ThreadTypes
      <4>2. active'[r] = active[r]
        BY <1>11, <3>3, <4>1
      <4>3. active[r] = NULL \/ (active[r] \in Threads /\ prio[active[r]] = r)
        BY <1>3, <4>1 DEF FramesSound
      <4>4. ASSUME active[r] \in Threads PROVE prio'[active[r]] = prio[active[r]]
        <5>1. active[r] # t
          BY <1>2, <1>4, <4>1, <4>3, <4>4
        <5> QED BY <1>2, <1>10, <4>1, <4>3, <4>4, <5>1
      <4> QED BY <4>1, <4>2, <4>3, <4>4
    <3> QED BY <3>1, <3>2, <3>3
  <2>2. \A y \in Basic : /\ Registered(y)' <=> Registered(y)
                         /\ Ready(y) => Ready(y)'
                         /\ nEvts[y] > 0 => nEvts'[y] > 0
                         /\ Ready(y)' => Ready(y) \/ nEvts'[y] > 0
    BY <1>4, <1>6, <1>12, <1>14
  <2> QED BY <1>3, <1>6, <2>1, <2>2, FramesKept
<1>23. Dispatching'
  BY <1>0, <1>2, <1>3, <1>5, <1>6, <1>21, <1>22, SchedStep
<1> QED BY <1>21, <1>23 DEF XInv

-----------------------------------------------------------------------------
(***************************************************************************)
(* The invariant holds of every behaviour.                                 *)
(***************************************************************************)
LEMMA InitXInv == SyncInit => XInv
<1> SUFFICES ASSUME SyncInit PROVE XInv
  OBVIOUS
<1> USE ThreadPrios, Numbers DEF SyncInit, Init
<1>1. ThreadTypes
  BY DEF ThreadTypes, Slots, Objects, Prios
<1>2. SyncTypes
  BY SyncAssumption DEF SyncTypes
<1>3. /\ \A x \in Threads : prio[x] = PrioOf[x] /\ has[x] = 0 /\ status[x] = NULL
      /\ \A x \in Threads : nEvts[x] = 0 /\ ~Registered(x)
      /\ ~Started /\ ~CeilingUsed /\ prio[Idle] = 0
      /\ \A p \in Slots : active[p] = IF p = 0 THEN Idle ELSE NULL
  BY DEF Registered, Started, CeilingUsed, Slots
<1>4. Slotted
  <2>1. \A p \in Slots : active[p] \notin Threads /\ (active[p] = Idle <=> p = 0)
    BY ONLY <1>3, ThreadPrios
  <2> QED BY <1>3, <2>1 DEF Slotted
<1>5. Held
  <2>1. \A x \in Threads : ~Holds(x) /\ ~(has[x] > 0)
    BY <1>3 DEF Holds
  <2> QED BY <2>1 DEF Held
<1>6. Timeouts
  BY <1>3 DEF Timeouts, Ready
<1>7. Waiters
  BY <1>3 DEF Waiters, Stranded, Ready
<1>8. LockChain
  <2>1. Lockers = {}
    BY <1>3 DEF Lockers
  <2> QED BY <1>3, <2>1 DEF LockChain, HolderAmong
<1>9. Dispatching
  <2>1. DispatcherTypes /\ FramesNested /\ Booting /\ NoKernelAssertion
    <3>1. DispatcherTypes /\ NoKernelAssertion
      <4>1. stack \in Seq(Frames)
        OBVIOUS
      <4>2. pendSV \in BOOLEAN
        BY Zenon
      <4> QED BY <4>1, <4>2 DEF DispatcherTypes, NoKernelAssertion
    <3>2. FramesNested
      BY DEF FramesNested
    <3>3. Booting
      BY <1>3 DEF Booting
    <3> QED BY <3>1, <3>2, <3>3
  <2>2. FramesSound(stack)
    BY <1>3 DEF FramesSound, Lockers
  <2> QED BY <1>3, <2>1, <2>2 DEF Dispatching
<1> QED BY <1>1, <1>2, <1>4, <1>5, <1>6, <1>7, <1>8, <1>9 DEF XInv, Core

LEMMA StutterXInv == XInv /\ UNCHANGED allVars => XInv'
BY SameXInv DEF allVars, vars, dispatcher, sync

\* A step of module QXK.
LEMMA ThreadStepXInv ==
    ASSUME XInv, Reads, SupportedUse, ThreadStep
    PROVE  XInv'
<1>1. /\ Next /\ UNCHANGED sync /\ (Started' => m_ceiling # NULL)
      /\ \A x \in Threads : has[x] > 0 => Registered(x)'
  BY DEF ThreadStep
<1>2. CASE \E x \in Threads : start(x)
  BY <1>1, <1>2, startStep
<1>3. CASE \E x \in Threads : \E c \in LockCeilings[x] : schedLock(x, c)
  BY <1>1, <1>3, schedLockStep
<1>4. CASE \E x \in Threads : schedUnlock(x)
  BY <1>1, <1>4, schedUnlockStep
<1>5. CASE \E x \in Threads : restoreLock(x)
  BY <1>1, <1>5, restoreLockStep
<1>6. CASE run
  BY <1>1, <1>6, runStep
<1>7. CASE PendSV
  BY <1>1, <1>7, PendSVStep
<1>8. CASE get_
  BY <1>1, <1>8, getStep
<1>9. CASE rtcEnd
  BY <1>1, <1>9, rtcEndStep
<1>10. CASE stop
  BY <1>1, <1>10, stopStep
<1>11. CASE stopSched
  BY <1>1, <1>11, stopSchedStep
<1>12. CASE tickPost
  BY <1>1, <1>12, tickPostStep
<1>13. CASE \E t \in Ext : queueGet(t)
  BY <1>1, <1>13, queueGetStep
<1>14. CASE \E t \in Ext : queueResume(t)
  BY <1>1, <1>14, queueResumeStep
<1>15. CASE \E t \in Ext : delayResume(t)
  BY <1>1, <1>15, delayResumeStep
<1>16. CASE \E t \in Ext : threadRet(t)
  BY <1>1, <1>16, threadRetStep
<1>17. CASE \E t \in Ext : tickExpire(t)
  BY <1>1, <1>17, tickExpireStep
<1>18. CASE \E t \in Ext : \E timed \in BOOLEAN : queueBlock(t, timed)
  BY <1>1, <1>18, queueBlockStep
<1>19. CASE \E t \in Ext : \E timed \in BOOLEAN : delay(t, timed)
  BY <1>1, <1>19, delayStep
<1>20. CASE \E ctx \in Contexts : \E y \in Threads : post(ctx, y)
  BY <1>1, <1>20, postStep
<1>21. CASE \E ctx \in Contexts : \E t \in Ext : delayCancel(ctx, t)
  BY <1>1, <1>21, delayCancelStep
<1> QED BY <1>1, <1>2, <1>3, <1>4, <1>5, <1>6, <1>7, <1>8, <1>9, <1>10, <1>11, <1>12,
           <1>13, <1>14, <1>15, <1>16, <1>17, <1>18, <1>19, <1>20, <1>21 DEF Next

LEMMA NextXInv == SupportedUse /\ XInv /\ Reads /\ [SyncNext]_allVars => XInv'
<1> SUFFICES ASSUME SupportedUse, XInv, Reads, [SyncNext]_allVars PROVE XInv'
  OBVIOUS
<1>1. CASE ThreadStep
  BY <1>1, ThreadStepXInv
<1>2. CASE \E c \in Ceilings : mutexInit(c)
  BY <1>2, mutexInitStep
<1>3. CASE \E t \in Ext : wait(t)
  BY <1>3, waitStep
<1>4. CASE \E t \in Ext : waitResume(t)
  BY <1>4, waitResumeStep
<1>5. CASE \E t \in Ext : lockResume(t)
  BY <1>5, lockResumeStep
<1>6. CASE \E t \in Ext : \E timed \in BOOLEAN : waitBlock(t, timed)
  BY <1>6, waitBlockStep
<1>7. CASE \E t \in Ext : \E timed \in BOOLEAN : lockNow(t, timed)
  BY <1>7, lockNowStep
<1>8. CASE \E t \in Ext : \E timed \in BOOLEAN : lockBlock(t, timed)
  BY <1>8, lockBlockStep
<1>9. CASE \E x \in Threads : tryLock(x)
  BY <1>9, tryLockStep
<1>10. CASE \E x \in Threads : tryLockFails(x)
  BY <1>10, tryLockFailsStep
<1>11. CASE \E x \in Threads : unlockLevel(x)
  BY <1>11, unlockLevelStep
<1>12. CASE \E x \in Threads : unlockFree(x)
  BY <1>12, unlockFreeStep
<1>13. CASE \E x \in Threads : unlockHandOver(x)
  BY <1>13, unlockHandOverStep
<1>14. CASE \E ctx \in Contexts : tryWait(ctx)
  BY <1>14, tryWaitStep
<1>15. CASE \E ctx \in Contexts : signalWaiter(ctx)
  BY <1>15, signalWaiterStep
<1>16. CASE \E ctx \in Contexts : signalCount(ctx)
  BY <1>16, signalCountStep
<1>17. CASE UNCHANGED allVars
  BY <1>17, StutterXInv
<1> QED BY <1>1, <1>2, <1>3, <1>4, <1>5, <1>6, <1>7, <1>8, <1>9, <1>10, <1>11, <1>12,
           <1>13, <1>14, <1>15, <1>16, <1>17 DEF SyncNext

\* Only the threads that lock and unlock the scheduler change what Reads is about.
LEMMA LockSteps ==
    ASSUME [SyncNext]_allVars
    PROVE  \/ UNCHANGED <<status, seen>>
           \/ \E x \in Threads : \/ \E c \in LockCeilings[x] : schedLock(x, c)
                                 \/ schedUnlock(x) \/ restoreLock(x)
<1> USE DEF locks
<1>1. CASE \E x \in Threads : start(x)
  BY <1>1 DEF start
<1>2. CASE run \/ PendSV \/ get_ \/ rtcEnd \/ stop \/ stopSched \/ tickPost
  BY <1>2 DEF run, PendSV, get_, rtcEnd, stop, stopSched, tickPost
<1>3. CASE \E t \in Ext : \/ queueGet(t) \/ queueResume(t) \/ delayResume(t)
                          \/ threadRet(t) \/ tickExpire(t)
  BY <1>3 DEF queueGet, queueResume, delayResume, threadRet, tickExpire
<1>4. CASE \E t \in Ext : \E timed \in BOOLEAN : queueBlock(t, timed) \/ delay(t, timed)
  BY <1>4 DEF queueBlock, delay
<1>5. CASE \E ctx \in Contexts : \/ \E y \in Threads : post(ctx, y)
                                 \/ \E t \in Ext : delayCancel(ctx, t)
  BY <1>5 DEF post, delayCancel
<1>6. CASE \E c \in Ceilings : mutexInit(c)
  BY <1>6 DEF mutexInit
<1>7. CASE \E t \in Ext : \/ wait(t) \/ waitResume(t) \/ lockResume(t)
                          \/ \E timed \in BOOLEAN : \/ waitBlock(t, timed)
                                                    \/ lockNow(t, timed)
                                                    \/ lockBlock(t, timed)
  BY <1>7 DEF wait, waitResume, lockResume, waitBlock, lockNow, lockBlock
<1>8. CASE \E x \in Threads : \/ tryLock(x) \/ tryLockFails(x) \/ unlockLevel(x)
                              \/ unlockFree(x) \/ unlockHandOver(x)
  BY <1>8 DEF tryLock, tryLockFails, unlockLevel, unlockFree, unlockHandOver
<1>9. CASE \E ctx \in Contexts : tryWait(ctx) \/ signalWaiter(ctx) \/ signalCount(ctx)
  BY <1>9 DEF tryWait, signalWaiter, signalCount
<1>10. CASE UNCHANGED allVars
  BY <1>10 DEF allVars, vars
<1> QED BY <1>1, <1>2, <1>3, <1>4, <1>5, <1>6, <1>7, <1>8, <1>9, <1>10
           DEF SyncNext, ThreadStep, Next

LEMMA NextReads == XInv /\ Reads /\ [SyncNext]_allVars => Reads'
<1> SUFFICES ASSUME XInv, Reads, [SyncNext]_allVars PROVE Reads'
  OBVIOUS
<1> USE ThreadPrios
<1>0. /\ status \in [Threads -> Statuses \cup {NULL}] /\ seen \in [Threads -> Nat \cup {NULL}]
      /\ lockPrio \in Nat
      /\ \A y \in Threads : seen[y] # NULL => y \in Lockers /\ status[y].prev < seen[y]
  BY Numbers DEF XInv, Core, ThreadTypes, Reads
<1>1. CASE UNCHANGED <<status, seen>>
  BY <1>0, <1>1 DEF Reads, Lockers
<1>2. ASSUME NEW x \in Threads, NEW c \in LockCeilings[x], schedLock(x, c) PROVE Reads'
  <2>1. /\ seen' = seen /\ seen[x] = NULL
        /\ \A y \in Threads : y # x => status'[y] = status[y]
    BY <1>0, <1>2 DEF schedLock, Runs
  <2> QED BY <1>0, <2>1 DEF Reads, Lockers
<1>3. ASSUME NEW x \in Threads, schedUnlock(x), status[x] = NoChange PROVE Reads'
  <2>1. /\ seen' = seen /\ seen[x] = NULL
        /\ \A y \in Threads : y # x => status'[y] = status[y]
    BY <1>0, <1>3 DEF schedUnlock, Runs
  <2> QED BY <1>0, <2>1 DEF Reads, Lockers
<1>4. ASSUME NEW x \in Threads, schedUnlock(x), status[x] # NoChange PROVE Reads'
  <2>1. status' = status /\ seen' = [seen EXCEPT ![x] = lockPrio] /\ x \in Lockers
    BY <1>4 DEF schedUnlock, Lockers
  <2>2. status[x].prev < lockPrio
    BY <2>1 DEF XInv, Core, LockChain
  <2> QED BY <1>0, <2>1, <2>2 DEF Reads, Lockers
<1>5. ASSUME NEW x \in Threads, restoreLock(x) PROVE Reads'
  <2>1. /\ seen' = [seen EXCEPT ![x] = NULL]
        /\ \A y \in Threads : y # x => status'[y] = status[y]
    BY <1>0, <1>5 DEF restoreLock
  <2> QED BY <1>0, <2>1 DEF Reads, Lockers
<1> QED BY <1>1, <1>2, <1>3, <1>4, <1>5, LockSteps

\* As long as the threads keep to the supported uses, the invariant holds.
LEMMA XInvHolds == ASSUME SupportedUse PROVE SyncSpec => []XInv
<1>1. SyncInit => XInv /\ Reads
  BY InitXInv DEF SyncInit, Init, Reads
<1>2. XInv /\ Reads /\ [SyncNext]_allVars => XInv' /\ Reads'
  BY NextXInv, NextReads
<1> QED BY <1>1, <1>2, PTL DEF SyncSpec

-----------------------------------------------------------------------------
\* Basic threads preempt one another only upwards: QXK_activate_ nests a frame
\* only for a priority above the one it interrupts (qxk.cpp), whatever the
\* interrupts, scheduler locks, mutexes and stops in between.
THEOREM BasicFramesNest == ASSUME SupportedUse PROVE SyncSpec => []FramesNested
<1>1. XInv => FramesNested
  BY DEF XInv, Dispatching
<1> QED BY <1>1, XInvHolds, PTL

\* No assertion of the kernel fires but 330 of tryLock(), and 620 and 720 for an
\* object that is inside stop(): signal() and unlock() find a waiting thread, the
\* holder of the scheduler lock is ready, a mutex finds its slot as it left it.
THEOREM KernelAssertionsHold ==
    ASSUME SupportedUse PROVE SyncSpec => []NoKernelAssertion
<1>1. XInv => NoKernelAssertion
  BY DEF XInv, Dispatching
<1> QED BY <1>1, XInvHolds, PTL

\* Outside interrupts and context switches, the thread of the highest priority
\* that the scheduler lock lets run is the one that executes: every service
\* calls QXK_sched_ when it may have changed which thread that is.
THEOREM HighestPriorityRuns == ASSUME SupportedUse PROVE SyncSpec => []HighestRuns
<1>1. XInv => HighestRuns
  <2> SUFFICES ASSUME XInv, ThreadsRun
               PROVE  IF active[Elig] \in Ext THEN curr = active[Elig]
                      ELSE curr = NULL /\ Elig <= actPrio
    BY DEF HighestRuns, Elig
  <2>1. Scheduled /\ next = NULL
    BY DEF XInv, Dispatching, ThreadsRun
  <2> QED BY <2>1 DEF Scheduled
<1> QED BY <1>1, XInvHolds, PTL

\* QXMutex excludes: a thread that was told that it has the mutex is the holder,
\* only the holder is boosted to the ceiling, and it alone owns its slot, also
\* when unlock() hands the mutex over to a thread that has yet to run.
THEOREM MutexExcludes == ASSUME SupportedUse PROVE SyncSpec => []MutualExclusion
<1>1. XInv => MutualExclusion
  <2> SUFFICES ASSUME XInv PROVE MutualExclusion
    OBVIOUS
  <2> USE ThreadPrios
  <2>1. ASSUME NEW x \in Threads, has[x] > 0
        PROVE  m_holderPrio = PrioOf[x] /\ m_lockNest >= has[x]
    <3>1. Holds(x) /\ has[x] \in Nat /\ m_lockNest \in Nat
      BY <2>1 DEF XInv, Core, Held, SyncTypes
    <3>2. has[x] = m_lockNest
      BY <2>1, <3>1 DEF XInv, Core, Held
    <3> QED BY <3>1, <3>2 DEF Holds
  <2>2. ASSUME NEW x \in Threads
        PROVE  (prio[x] = PrioOf[x]) # (CeilingUsed /\ Holds(x))
    <3>1. prio[x] = IF CeilingUsed /\ Holds(x) THEN m_ceiling ELSE PrioOf[x]
      BY DEF XInv, Core, Slotted
    <3>2. ASSUME CeilingUsed, Holds(x) PROVE PrioOf[x] # m_ceiling
      <4>1. Started
        BY <3>2 DEF XInv, Core, Held, Holds
      <4> QED BY <3>2, <4>1 DEF XInv, Core, Slotted
    <3> QED BY <3>1, <3>2
  <2>3. CeilingUsed => active[m_ceiling] = IF m_lockNest = 0 THEN Mutex
                                           ELSE active[m_holderPrio]
    BY DEF XInv, Core, Slotted
  <2> QED BY <2>1, <2>2, <2>3 DEF MutualExclusion, CeilingUsed, Holds
<1> QED BY <1>1, XInvHolds, PTL

\* No wake-up is lost: a thread that is not ready blocks on a queue that is empty,
\* a delay, or a semaphore or a mutex that is taken and whose m_waitSet has it,
\* whatever post, tick, signal or unlock came while it was blocking.
THEOREM NoThreadStranded == ASSUME SupportedUse PROVE SyncSpec => []NoStrandedThread
<1>1. XInv => NoStrandedThread
  BY DEF XInv, Core, Waiters, Stranded, Ready, NoStrandedThread
<1> QED BY <1>1, XInvHolds, PTL
=============================================================================
