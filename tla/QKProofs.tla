------------------------------ MODULE QKProofs ------------------------------
(***************************************************************************)
(* For any number of active objects, priorities, queue lengths and nested  *)
(* interrupts: preemption nests, scheduler locks nest across it and keep   *)
(* what they lock out from running, the highest eligible priority runs     *)
(* and, provided that no two objects use the same priority, no wake-up is  *)
(* lost and no assertion of the kernel fires.                              *)
(***************************************************************************)
EXTENDS QK, SequenceTheorems, FiniteSetTheorems, WellFoundedInduction, TLAPS

\* A non-empty set of naturals has a smallest element.
LEMMA SmallestExists ==
    ASSUME NEW S, S \subseteq Nat, S # {}
    PROVE  \E x \in S : \A y \in S : x <= y
<1>1. PICK x \in S : \A y \in S : ~(<<y, x>> \in OpToRel(<, Nat))
  BY WFMin, NatLessThanWellFounded
<1>2. \A y \in S : ~(y < x)
  BY <1>1 DEF OpToRel
<1> QED BY <1>2

\* A non-empty set of naturals that is bounded has a largest element: its
\* smallest upper bound.
LEMMA LargestExists ==
    ASSUME NEW m \in Nat, NEW S, S \subseteq 0 .. m, S # {}
    PROVE  \E x \in S : \A y \in S : x >= y
<1> DEFINE U == {b \in Nat : \A y \in S : b >= y}
<1>1. m \in U /\ U \subseteq Nat
  OBVIOUS
<1>2. PICK b \in U : \A u \in U : b <= u
  <2> HIDE DEF U
  <2> QED BY <1>1, SmallestExists
<1>3. b \in Nat /\ \A y \in S : b >= y /\ y \in Nat
  OBVIOUS
<1>4. ASSUME b \notin S PROVE FALSE
  <2>1. \A y \in S : b > y
    BY <1>3, <1>4
  <2>2. PICK z : z \in S
    OBVIOUS
  <2>3. b - 1 \in Nat /\ \A y \in S : b - 1 >= y
    BY <1>3, <2>2, <2>1
  <2>4. b - 1 \in U
    BY <2>3
  <2> HIDE DEF U
  <2> QED BY <1>2, <1>3, <2>4
<1> QED BY <1>3, <1>4

\* Max is an upper bound of the set, and one of its elements.
LEMMA MaxProperties ==
    ASSUME NEW m \in Nat, NEW S, S \subseteq 0 .. m, S # {}
    PROVE  Max(S) \in S /\ \A y \in S : Max(S) >= y
BY LargestExists DEF Max

-----------------------------------------------------------------------------
(***************************************************************************)
(* The inductive invariant of the stack, the locks and the scheduler.      *)
(***************************************************************************)
Places == {"get", "rtc", "idle", "copied", "multicast", "unlock", "init",
           "stop"}
Statuses == [prev : 0 .. MAX_ACTIVE \cup {NoChange}, holder : 0 .. MAX_ACTIVE,
             ceiling : Prios]
Frames == [prio : 0 .. MAX_ACTIVE, obj : Objs \cup {NULL},
           pin : 0 .. MAX_ACTIVE, at : Places, fuel : Int,
           locks : Seq(Statuses), seen : 0 .. MAX_ACTIVE,
           list : SUBSET Prios, todo : SUBSET Prios, child : Objs \cup {NULL}]

\* What is known of every frame, from where it is.
Sound(f) ==
    /\ f.at = "init" => f.child \in Objs
    /\ f.at = "copied" => f.list # {}
    /\ f.at = "multicast" =>
          /\ f.locks # << >>
          /\ \A q \in f.list : q <= f.locks[Len(f.locks)].ceiling
    /\ f.at = "unlock" =>
          /\ f.locks # << >> /\ f.locks[Len(f.locks)].prev # NoChange
          /\ f.seen > f.locks[Len(f.locks)].prev
    /\ f.prio = 0 => f.at \notin {"get", "stop"}

TypeOK ==
    /\ active \in [Prios -> Objs \cup {NULL}]
    /\ nEvts \in [Objs -> 0 .. QLen]
    /\ hsm \in [Objs -> {"new", "init", "stable", "stopped"}]
    /\ subscrList \subseteq Prios /\ readySet \subseteq Prios
    /\ actPrio \in 0 .. MAX_ACTIVE /\ nextPrio \in 0 .. MAX_ACTIVE
    /\ lockPrio \in 0 .. MAX_ACTIVE /\ lockHolder \in 0 .. MAX_ACTIVE
    /\ stack \in Seq(Frames) /\ stack # << >>
    /\ isr \in Nat /\ pendSV \in BOOLEAN

FramesSound == \A i \in DOMAIN stack : Sound(stack[i])

MainLowest == stack[1].prio = 0

\* A lock that is held raised the ceiling, and notes what was in force before
\* it; lockPrio is at least every ceiling, and at each unlock it stays so.
Before(x) == {y \in Held : Older(y, x)}
LockChain ==
    /\ \A x \in Held : /\ x.stat.ceiling > x.stat.prev
                       /\ InForce(Before(x), x.stat.prev, x.stat.holder)
    /\ \A x \in Locks : x.stat.ceiling <= lockPrio
    /\ \A x \in Locks, y \in Held :
          Older(x, y) => x.stat.ceiling <= y.stat.prev

\* The frames above a lock are above its ceiling.
Cleared == \A x \in Locks : \A k \in x.frame + 1 .. Len(stack) :
               stack[k].prio > x.stat.ceiling

\* PendSV is pending for an eligible priority and, once the last interrupt
\* has returned, for the highest; without it no eligible priority waits.
Scheduling ==
    /\ pendSV => /\ nextPrio \in readySet
                 /\ nextPrio > actPrio /\ nextPrio > lockPrio
    /\ pendSV /\ isr = 0 => \A p \in readySet : p <= nextPrio
    /\ ~pendSV /\ isr = 0 => \A p \in readySet : p <= actPrio \/ p <= lockPrio

NoLockAssertion == asrt \notin {"unlock700", "activate800"}

SInv == /\ TypeOK /\ FramesSound /\ MainLowest /\ StackNested
        /\ LocksNested /\ LockChain /\ Cleared
        /\ Scheduling /\ NoLockAssertion

-----------------------------------------------------------------------------
(***************************************************************************)
(* Operators of the model.                                                 *)
(***************************************************************************)
LEMMA PrioNumbers == /\ MAX_ACTIVE \in Nat /\ MAX_ACTIVE < NoChange
                     /\ \A p \in Prios : p \in 1 .. MAX_ACTIVE
BY QKAssumption DEF Prios, NoChange

\* findMax() finds the highest priority of the set, or 0 for an empty one.
LEMMA FindMax ==
    ASSUME NEW S, S \subseteq Prios
    PROVE  /\ findMax(S) \in S \cup {0} /\ findMax(S) \in 0 .. MAX_ACTIVE
           /\ \A p \in S : p <= findMax(S)
           /\ findMax(S) = 0 => S = {}
<1>1. S \cup {0} \subseteq 0 .. MAX_ACTIVE /\ S \cup {0} # {} /\ MAX_ACTIVE \in Nat
  BY QKAssumption DEF Prios
<1>2. findMax(S) \in S \cup {0} /\ \A y \in S \cup {0} : findMax(S) >= y
  BY <1>1, MaxProperties DEF findMax
<1>3. findMax(S) \in 0 .. MAX_ACTIVE
  BY <1>1, <1>2
<1>4. \A p \in S : p <= findMax(S) /\ p \in 1 .. MAX_ACTIVE
  BY <1>1, <1>2, <1>3 DEF Prios
<1> QED BY <1>1, <1>2, <1>3, <1>4

\* The frame that QK_activate_ begins with.
LEMMA FrameProperties ==
    ASSUME NEW p \in Prios, NEW a \in Objs \cup {NULL}, NEW pin \in 0 .. MAX_ACTIVE
    PROVE  /\ Frame(p, a, pin) \in Frames /\ Sound(Frame(p, a, pin))
           /\ Frame(p, a, pin).prio = p /\ Frame(p, a, pin).obj = a
           /\ Frame(p, a, pin).pin = pin /\ Frame(p, a, pin).at = "get"
           /\ Frame(p, a, pin).locks = << >>
<1> USE QKAssumption
<1>1. p \in 0 .. MAX_ACTIVE /\ p # 0
  BY DEF Prios
<1>2. << >> \in Seq(Statuses)
  OBVIOUS
<1>3. Frame(p, a, pin) \in Frames
  BY <1>1, <1>2 DEF Frame, Frames, Places
<1> QED BY <1>1, <1>3 DEF Frame, Sound

\* What a replacement of the top frame leaves alone.
LEMMA SetTopProperties ==
    ASSUME stack \in Seq(Frames), stack # << >>, NEW f \in Frames
    PROVE  /\ SetTop(f) \in Seq(Frames) /\ Len(SetTop(f)) = Len(stack)
           /\ SetTop(f)[Len(stack)] = f
           /\ \A i \in 1 .. Len(stack) - 1 : SetTop(f)[i] = stack[i]
           /\ Len(stack) \in Nat /\ Len(stack) >= 1
           /\ Top \in Frames
<1>1. Len(stack) \in Nat /\ Len(stack) >= 1
  BY LenProperties, EmptySeq
<1>2. DOMAIN stack = 1 .. Len(stack)
  BY LenProperties
<1>3. SetTop(f) \in Seq(Frames) /\ Len(SetTop(f)) = Len(stack)
  BY <1>1, <1>2, ExceptSeq DEF SetTop
<1>4. Top \in Frames
  BY <1>1, ElementOfSeq DEF Top
<1> DEFINE n == Len(stack)
<1>5. n \in 1 .. n /\ \A i \in 1 .. n - 1 : i \in 1 .. n /\ i # n
  <2> HIDE DEF n
  <2>1. n \in Nat /\ n >= 1
    BY <1>1 DEF n
  <2> QED BY <2>1
<1>6. SetTop(f)[Len(stack)] = f
  BY <1>2, <1>5 DEF SetTop
<1>7. \A i \in 1 .. Len(stack) - 1 : SetTop(f)[i] = stack[i]
  BY <1>2, <1>5, Zenon DEF SetTop
<1> QED BY <1>1, <1>3, <1>4, <1>6, <1>7

-----------------------------------------------------------------------------
(***************************************************************************)
(* The shapes of a step: the running frame goes on, possibly preempted, or *)
(* its run-to-completion step ends.                                        *)
(***************************************************************************)
Replaced(f) == /\ stack' \in Seq(Frames) /\ Len(stack') = Len(stack)
               /\ stack'[Len(stack)] = f
               /\ \A i \in 1 .. Len(stack) - 1 : stack'[i] = stack[i]

Pushed(f, g) == /\ stack' \in Seq(Frames) /\ Len(stack') = Len(stack) + 1
                /\ stack'[Len(stack)] = f /\ stack'[Len(stack) + 1] = g
                /\ \A i \in 1 .. Len(stack) - 1 : stack'[i] = stack[i]

Popped == /\ stack' \in Seq(Frames) /\ Len(stack') = Len(stack) - 1
          /\ \A i \in 1 .. Len(stack) - 1 : stack'[i] = stack[i]

Preempts(f, p, a) == /\ Pushed(f, Frame(p, a, actPrio)) /\ actPrio' = p
                     /\ p > actPrio /\ p > lockPrio'

Continues(f) == \/ Replaced(f) /\ actPrio' = actPrio
                \/ \E p \in Prios, a \in Objs \cup {NULL} : Preempts(f, p, a)

Succeeds(p, a) == /\ Replaced(Frame(p, a, Top.pin)) /\ actPrio' = p
                  /\ p > Top.pin /\ p > lockPrio

Ends == \/ Popped /\ actPrio' = Top.pin
        \/ \E p \in Prios, a \in Objs \cup {NULL} : Succeeds(p, a)

\* The frames, without the top one, and their priorities.
LEMMA StackFacts ==
    ASSUME SInv
    PROVE  /\ Len(stack) \in Nat /\ Len(stack) >= 1
           /\ DOMAIN stack = 1 .. Len(stack)
           /\ \A i \in 1 .. Len(stack) : stack[i] \in Frames /\ Sound(stack[i])
           /\ Top \in Frames /\ Sound(Top) /\ Top = stack[Len(stack)]
           /\ actPrio = Top.prio
           /\ Top.prio > 0 => Len(stack) >= 2
<1>1. stack \in Seq(Frames) /\ stack # << >>
  BY DEF SInv, TypeOK
<1>2. Len(stack) \in Nat /\ Len(stack) >= 1 /\ DOMAIN stack = 1 .. Len(stack)
  BY <1>1, LenProperties, EmptySeq
<1>3. \A i \in 1 .. Len(stack) : stack[i] \in Frames /\ Sound(stack[i])
  BY <1>1, <1>2, ElementOfSeq DEF SInv, FramesSound
<1>4. Top = stack[Len(stack)] /\ actPrio = Top.prio
  BY DEF Top, SInv, StackNested
<1>5. Top \in Frames /\ Sound(Top)
  BY <1>2, <1>3, <1>4
<1>6. Len(stack) = 1 => Top.prio = 0
  BY <1>4 DEF SInv, MainLowest
<1> QED BY <1>2, <1>3, <1>4, <1>5, <1>6

\* Preemption nests when the running frame goes on, ...
LEMMA ContinuesStack ==
    ASSUME SInv, NEW f \in Frames, Sound(f), f.prio = Top.prio, f.pin = Top.pin,
           Continues(f)
    PROVE  /\ stack' \in Seq(Frames) /\ stack' # << >>
           /\ actPrio' \in 0 .. MAX_ACTIVE
           /\ FramesSound' /\ MainLowest' /\ StackNested'
<1> DEFINE n == Len(stack)
<1>1. /\ n \in Nat /\ n >= 1 /\ \A i \in 1 .. n : stack[i] \in Frames /\ Sound(stack[i])
      /\ stack[n].prio = actPrio /\ stack[n] = Top
      /\ actPrio \in 0 .. MAX_ACTIVE /\ MAX_ACTIVE \in Nat
  <2>1. TypeOK
    BY DEF SInv
  <2>2. actPrio \in 0 .. MAX_ACTIVE
    BY <2>1 DEF TypeOK
  <2>3. MAX_ACTIVE \in Nat
    BY PrioNumbers
  <2> QED BY <2>2, <2>3, StackFacts
<1>2. /\ stack[1].prio = 0
      /\ \A i \in 2 .. n : stack[i].prio > stack[i-1].prio /\ stack[i].pin = stack[i-1].prio
  BY DEF SInv, MainLowest, StackNested
<1>3. CASE Replaced(f) /\ actPrio' = actPrio
  <2>1. /\ stack' \in Seq(Frames) /\ Len(stack') = n /\ stack'[n] = f
        /\ \A i \in 1 .. n - 1 : stack'[i] = stack[i]
    BY <1>3 DEF Replaced
  <2>2. stack' # << >> /\ DOMAIN stack' = 1 .. n
    BY <2>1, <1>1, LenProperties, EmptySeq
  <2> HIDE DEF n
  <2>3. \A i \in 1 .. n : Sound(stack'[i])
    BY <2>1, <1>1
  <2>4. \A i \in 1 .. n : stack'[i].prio = stack[i].prio /\ stack'[i].pin = stack[i].pin
    BY <2>1, <1>1
  <2>5. \A i \in 2 .. n : stack'[i].prio > stack'[i-1].prio /\ stack'[i].pin = stack'[i-1].prio
    <3> SUFFICES ASSUME NEW i \in 2 .. n
                 PROVE  stack'[i].prio > stack'[i-1].prio /\ stack'[i].pin = stack'[i-1].prio
      OBVIOUS
    <3>1. i \in 1 .. n /\ i - 1 \in 1 .. n
      BY <1>1
    <3> QED BY <3>1, <2>4, <1>2
  <2>6. stack'[1].prio = 0 /\ actPrio' = stack'[n].prio
    BY <2>4, <1>1, <1>2, <1>3
  <2>7. FramesSound'
    BY <2>2, <2>3 DEF FramesSound, Sound
  <2>8. MainLowest' /\ StackNested'
    BY <2>1, <2>5, <2>6 DEF MainLowest, StackNested, Top
  <2> QED BY <2>1, <2>2, <2>7, <2>8, <1>1, <1>3
<1>4. CASE \E p \in Prios, a \in Objs \cup {NULL} : Preempts(f, p, a)
  <2>0. PICK p \in Prios, a \in Objs \cup {NULL} : Preempts(f, p, a)
    BY <1>4
  <2> DEFINE g == Frame(p, a, actPrio)
  <2>g. Sound(g) /\ g.prio = p /\ g.pin = actPrio
    BY <1>1, FrameProperties
  <2>1. /\ stack' \in Seq(Frames) /\ Len(stack') = n + 1 /\ stack'[n] = f
        /\ stack'[n + 1] = g
        /\ \A i \in 1 .. n - 1 : stack'[i] = stack[i]
        /\ actPrio' = p /\ p > actPrio
    BY <2>0 DEF Preempts, Pushed
  <2>2. stack' # << >> /\ DOMAIN stack' = 1 .. n + 1
    BY <2>1, <1>1, LenProperties, EmptySeq
  <2> HIDE DEF n, g
  <2>3. \A i \in 1 .. n + 1 : Sound(stack'[i])
    BY <2>1, <2>g, <1>1
  <2>4. \A i \in 1 .. n : stack'[i].prio = stack[i].prio /\ stack'[i].pin = stack[i].pin
    BY <2>1, <1>1
  <2>5. \A i \in 2 .. n + 1 : stack'[i].prio > stack'[i-1].prio /\ stack'[i].pin = stack'[i-1].prio
    <3> SUFFICES ASSUME NEW i \in 2 .. n + 1
                 PROVE  stack'[i].prio > stack'[i-1].prio /\ stack'[i].pin = stack'[i-1].prio
      OBVIOUS
    <3>1. CASE i = n + 1
      <4>1. i - 1 = n /\ n \in 1 .. n
        BY <3>1, <1>1
      <4> QED BY <4>1, <3>1, <2>1, <2>4, <2>g, <1>1
    <3>2. CASE i # n + 1
      <4>1. i \in 2 .. n /\ i \in 1 .. n /\ i - 1 \in 1 .. n
        BY <3>2, <1>1
      <4> QED BY <4>1, <2>4, <1>2
    <3> QED BY <3>1, <3>2
  <2>6. stack'[1].prio = 0 /\ actPrio' = stack'[n + 1].prio /\ actPrio' \in 0 .. MAX_ACTIVE
    BY <2>1, <2>4, <2>g, <1>1, <1>2 DEF Prios
  <2>7. FramesSound'
    BY <2>2, <2>3 DEF FramesSound, Sound
  <2>8. MainLowest' /\ StackNested'
    BY <2>1, <2>5, <2>6 DEF MainLowest, StackNested, Top
  <2> QED BY <2>1, <2>2, <2>6, <2>7, <2>8
<1> QED BY <1>3, <1>4 DEF Continues

\* ... and when its run-to-completion step ends.
LEMMA EndsStack ==
    ASSUME SInv, Top.prio > 0, Ends
    PROVE  /\ stack' \in Seq(Frames) /\ stack' # << >>
           /\ actPrio' \in 0 .. MAX_ACTIVE
           /\ FramesSound' /\ MainLowest' /\ StackNested'
<1> DEFINE n == Len(stack)
<1>1. /\ n \in Nat /\ n >= 2 /\ \A i \in 1 .. n : stack[i] \in Frames /\ Sound(stack[i])
      /\ stack[n] = Top /\ MAX_ACTIVE \in Nat
  BY StackFacts, QKAssumption
<1>t. \A i \in 1 .. n : stack[i].prio \in 0 .. MAX_ACTIVE
  BY <1>1 DEF Frames
<1>2. /\ stack[1].prio = 0
      /\ \A i \in 2 .. n : stack[i].prio > stack[i-1].prio /\ stack[i].pin = stack[i-1].prio
  BY DEF SInv, MainLowest, StackNested
<1>p. Top.pin = stack[n-1].prio /\ Top.pin \in 0 .. MAX_ACTIVE
  <2> HIDE DEF n
  <2>1. n \in 2 .. n /\ n - 1 \in 1 .. n
    BY <1>1
  <2> QED BY <2>1, <1>1, <1>2, <1>t
<1>3. CASE Popped /\ actPrio' = Top.pin
  <2>1. /\ stack' \in Seq(Frames) /\ Len(stack') = n - 1
        /\ \A i \in 1 .. n - 1 : stack'[i] = stack[i]
    BY <1>3 DEF Popped
  <2>2. stack' # << >> /\ DOMAIN stack' = 1 .. n - 1
    BY <2>1, <1>1, LenProperties, EmptySeq
  <2> HIDE DEF n
  <2>3. \A i \in 1 .. n - 1 : Sound(stack'[i])
    BY <2>1, <1>1
  <2>5. \A i \in 2 .. n - 1 : stack'[i].prio > stack'[i-1].prio /\ stack'[i].pin = stack'[i-1].prio
    <3> SUFFICES ASSUME NEW i \in 2 .. n - 1
                 PROVE  stack'[i].prio > stack'[i-1].prio /\ stack'[i].pin = stack'[i-1].prio
      OBVIOUS
    <3>1. i \in 1 .. n - 1 /\ i - 1 \in 1 .. n - 1 /\ i \in 2 .. n
      BY <1>1
    <3> QED BY <3>1, <2>1, <1>2
  <2>6. stack'[1].prio = 0 /\ actPrio' = stack'[n - 1].prio
    BY <2>1, <1>p, <1>1, <1>2, <1>3
  <2>7. FramesSound'
    BY <2>2, <2>3 DEF FramesSound, Sound
  <2>8. MainLowest' /\ StackNested'
    BY <2>1, <2>5, <2>6 DEF MainLowest, StackNested, Top
  <2> QED BY <2>1, <2>2, <2>7, <2>8, <1>p, <1>3
<1>4. CASE \E p \in Prios, a \in Objs \cup {NULL} : Succeeds(p, a)
  <2>0. PICK p \in Prios, a \in Objs \cup {NULL} : Succeeds(p, a)
    BY <1>4
  <2> DEFINE g == Frame(p, a, Top.pin)
  <2>g. Sound(g) /\ g.prio = p /\ g.pin = Top.pin
    BY <1>p, FrameProperties
  <2>1. /\ stack' \in Seq(Frames) /\ Len(stack') = n /\ stack'[n] = g
        /\ \A i \in 1 .. n - 1 : stack'[i] = stack[i]
        /\ actPrio' = p /\ p > Top.pin
    BY <2>0 DEF Succeeds, Replaced
  <2>2. stack' # << >> /\ DOMAIN stack' = 1 .. n
    BY <2>1, <1>1, LenProperties, EmptySeq
  <2> HIDE DEF n, g
  <2>3. \A i \in 1 .. n : Sound(stack'[i])
    BY <2>1, <2>g, <1>1
  <2>5. \A i \in 2 .. n : stack'[i].prio > stack'[i-1].prio /\ stack'[i].pin = stack'[i-1].prio
    <3> SUFFICES ASSUME NEW i \in 2 .. n
                 PROVE  stack'[i].prio > stack'[i-1].prio /\ stack'[i].pin = stack'[i-1].prio
      OBVIOUS
    <3>0. i - 1 \in 1 .. n - 1
      BY <1>1
    <3>1. CASE i = n
      BY <3>0, <3>1, <2>1, <2>g, <1>p
    <3>2. CASE i # n
      <4>1. i \in 1 .. n - 1
        BY <3>2, <1>1
      <4> QED BY <3>0, <4>1, <2>1, <1>2
    <3> QED BY <3>1, <3>2
  <2>6. stack'[1].prio = 0 /\ actPrio' = stack'[n].prio /\ actPrio' \in 0 .. MAX_ACTIVE
    BY <2>1, <2>g, <1>1, <1>2 DEF Prios
  <2>7. FramesSound'
    BY <2>2, <2>3 DEF FramesSound, Sound
  <2>8. MainLowest' /\ StackNested'
    BY <2>1, <2>5, <2>6 DEF MainLowest, StackNested, Top
  <2> QED BY <2>1, <2>2, <2>6, <2>7, <2>8
<1> QED BY <1>3, <1>4 DEF Ends

-----------------------------------------------------------------------------
(***************************************************************************)
(* The locks that the frames hold.                                         *)
(***************************************************************************)
\* Frame i holds a lock with number j.
Holds(s, i, j) == i \in 1 .. Len(s) /\ j \in 1 .. Len(s[i].locks)
LockAt(s, i, j) == [frame |-> i, nr |-> j, stat |-> s[i].locks[j],
                    prio |-> s[i].prio]

LockList == /\ \A x \in Locks : \E i, j : Holds(stack, i, j) /\ x = LockAt(stack, i, j)
            /\ \A i, j : Holds(stack, i, j) => LockAt(stack, i, j) \in Locks

\* The locks in force are the ones on the lists of the frames.
LEMMA LocksMembers == stack \in Seq(Frames) => LockList
<1> SUFFICES ASSUME stack \in Seq(Frames) PROVE LockList
  OBVIOUS
<1>1. DOMAIN stack = 1 .. Len(stack)
  BY LenProperties
<1>2. \A i \in 1 .. Len(stack) : DOMAIN stack[i].locks = 1 .. Len(stack[i].locks)
  <2> SUFFICES ASSUME NEW i \in 1 .. Len(stack)
               PROVE  DOMAIN stack[i].locks = 1 .. Len(stack[i].locks)
    OBVIOUS
  <2>1. stack[i] \in Frames
    BY ElementOfSeq
  <2>2. stack[i].locks \in Seq(Statuses)
    BY <2>1 DEF Frames
  <2> QED BY <2>2, LenProperties
<1>3. ASSUME NEW x \in Locks
      PROVE  \E i, j : Holds(stack, i, j) /\ x = LockAt(stack, i, j)
  <2>1. PICK i \in DOMAIN stack : \E j \in DOMAIN stack[i].locks : x = LockAt(stack, i, j)
    BY <1>3 DEF Locks, LockAt
  <2>2. PICK j \in DOMAIN stack[i].locks : x = LockAt(stack, i, j)
    BY <2>1
  <2>3. Holds(stack, i, j)
    BY <1>1, <1>2, <2>1, <2>2 DEF Holds
  <2> QED BY <2>2, <2>3
<1>4. ASSUME NEW i, NEW j, Holds(stack, i, j)
      PROVE  LockAt(stack, i, j) \in Locks
  <2>1. i \in DOMAIN stack /\ j \in DOMAIN stack[i].locks
    BY <1>4, <1>1, <1>2 DEF Holds
  <2> QED BY <2>1 DEF Locks, LockAt
<1> QED BY <1>3, <1>4 DEF LockList

\* The same in the next state.
LEMMA LocksMembersNext == (stack \in Seq(Frames) => LockList)'
BY LocksMembers, PTL

\* Which locks there are after the running frame became f, ...
LEMMA ContinuesHolds ==
    ASSUME SInv, NEW f \in Frames, f.prio = Top.prio, Continues(f)
    PROVE  \A i, j :
             /\ Holds(stack', i, j) <=> \/ Holds(stack, i, j) /\ i < Len(stack)
                                        \/ i = Len(stack) /\ j \in 1 .. Len(f.locks)
             /\ Holds(stack, i, j) /\ i < Len(stack) =>
                   LockAt(stack', i, j) = LockAt(stack, i, j)
             /\ i = Len(stack) =>
                   LockAt(stack', i, j) = [frame |-> i, nr |-> j, stat |-> f.locks[j],
                                           prio |-> Top.prio]
<1> DEFINE n == Len(stack)
<1>1. n \in Nat /\ n >= 1 /\ actPrio \in 0 .. MAX_ACTIVE
  BY StackFacts DEF SInv, TypeOK
<1>2. stack'[n] = f /\ \A i \in 1 .. n - 1 : stack'[i] = stack[i]
  BY DEF Continues, Preempts, Replaced, Pushed
<1>3. \/ Len(stack') = n
      \/ Len(stack') = n + 1 /\ stack'[n + 1].locks = << >>
  <2>1. CASE Replaced(f)
    BY <2>1 DEF Replaced
  <2>2. CASE \E p \in Prios, a \in Objs \cup {NULL} : Preempts(f, p, a)
    <3>1. PICK p \in Prios, a \in Objs \cup {NULL} : Preempts(f, p, a)
      BY <2>2
    <3>2. Len(stack') = n + 1 /\ stack'[n + 1] = Frame(p, a, actPrio)
      BY <3>1 DEF Preempts, Pushed
    <3> QED BY <3>2, <1>1, FrameProperties
  <2> QED BY <2>1, <2>2 DEF Continues
<1> HIDE DEF n
<1> SUFFICES ASSUME NEW i, NEW j
             PROVE /\ Holds(stack', i, j) <=> \/ Holds(stack, i, j) /\ i < n
                                              \/ i = n /\ j \in 1 .. Len(f.locks)
                   /\ Holds(stack, i, j) /\ i < n =>
                         LockAt(stack', i, j) = LockAt(stack, i, j)
                   /\ i = n =>
                         LockAt(stack', i, j) = [frame |-> i, nr |-> j, stat |-> f.locks[j],
                                                 prio |-> Top.prio]
  BY DEF n
<1>4. Holds(stack, i, j) <=> i \in 1 .. n /\ j \in 1 .. Len(stack[i].locks)
  BY DEF Holds, n
<1>5. i \in 1 .. n /\ i < n => i \in 1 .. n - 1
  BY <1>1
<1>6. Holds(stack, i, j) /\ i < n => LockAt(stack', i, j) = LockAt(stack, i, j)
  BY <1>2, <1>4, <1>5 DEF LockAt
<1>7. i = n => LockAt(stack', i, j) = [frame |-> i, nr |-> j, stat |-> f.locks[j],
                                       prio |-> Top.prio]
  BY <1>2 DEF LockAt
<1>8. Holds(stack', i, j) <=> \/ Holds(stack, i, j) /\ i < n
                              \/ i = n /\ j \in 1 .. Len(f.locks)
  <2>1. CASE i \in 1 .. n - 1
    <3>1. i \in 1 .. n /\ i < n /\ i # n /\ i \in 1 .. Len(stack') /\ stack'[i] = stack[i]
      BY <2>1, <1>1, <1>2, <1>3
    <3> QED BY <3>1, <1>4 DEF Holds
  <2>2. CASE i = n
    <3>1. i \in 1 .. Len(stack') /\ stack'[i] = f /\ ~(i < n)
      BY <2>2, <1>1, <1>2, <1>3
    <3> QED BY <2>2, <3>1 DEF Holds
  <2>3. CASE i \notin 1 .. n - 1 /\ i # n
    <3>1. ~(i \in 1 .. n /\ i < n)
      BY <2>3, <1>5
    <3>2. ~Holds(stack', i, j)
      <4> SUFFICES ASSUME Holds(stack', i, j) PROVE FALSE
        OBVIOUS
      <4>1. i \in 1 .. Len(stack') /\ j \in 1 .. Len(stack'[i].locks)
        BY DEF Holds
      <4>2. Len(stack') = n + 1 /\ i = n + 1
        BY <4>1, <2>3, <1>1, <1>3
      <4>3. Len(stack'[i].locks) = 0
        BY <4>2, <1>1, <1>3
      <4> QED BY <4>1, <4>3
    <3> QED BY <2>3, <3>1, <3>2, <1>4
  <2> QED BY <2>1, <2>2, <2>3
<1> QED BY <1>6, <1>7, <1>8

\* ... and after its step has ended.
LEMMA EndsHolds ==
    ASSUME SInv, Top.prio > 0, Top.locks = << >>, Ends
    PROVE  \A i, j : /\ Holds(stack', i, j) <=> Holds(stack, i, j)
                     /\ Holds(stack, i, j) => LockAt(stack', i, j) = LockAt(stack, i, j)
<1> DEFINE n == Len(stack)
<1>1. n \in Nat /\ n >= 1 /\ Top = stack[n] /\ Top.pin \in 0 .. MAX_ACTIVE
  BY StackFacts DEF Frames
<1>2. \A i \in 1 .. n - 1 : stack'[i] = stack[i]
  BY DEF Ends, Succeeds, Replaced, Popped
<1>3. \/ Len(stack') = n - 1
      \/ Len(stack') = n /\ stack'[n].locks = << >>
  BY <1>1, FrameProperties DEF Ends, Succeeds, Replaced, Popped
<1> HIDE DEF n
<1> SUFFICES ASSUME NEW i, NEW j
             PROVE /\ Holds(stack', i, j) <=> Holds(stack, i, j)
                   /\ Holds(stack, i, j) => LockAt(stack', i, j) = LockAt(stack, i, j)
  BY DEF n
<1>4. Holds(stack, i, j) <=> i \in 1 .. n /\ j \in 1 .. Len(stack[i].locks)
  BY DEF Holds, n
<1>5. CASE i \in 1 .. n - 1
  <2>1. i \in 1 .. n /\ i \in 1 .. Len(stack') /\ stack'[i] = stack[i]
    BY <1>5, <1>1, <1>2, <1>3
  <2> QED BY <2>1, <1>4 DEF Holds, LockAt
<1>6. CASE i \notin 1 .. n - 1
  <2>1. ~Holds(stack', i, j)
    <3> SUFFICES ASSUME Holds(stack', i, j) PROVE FALSE
      OBVIOUS
    <3>1. i \in 1 .. Len(stack') /\ j \in 1 .. Len(stack'[i].locks)
      BY DEF Holds
    <3>2. Len(stack') = n /\ i = n
      BY <3>1, <1>6, <1>1, <1>3
    <3>3. Len(stack'[i].locks) = 0
      BY <3>2, <1>1, <1>3
    <3> QED BY <3>1, <3>3
  <2>2. ~Holds(stack, i, j)
    <3> SUFFICES ASSUME Holds(stack, i, j) PROVE FALSE
      OBVIOUS
    <3>1. i \in 1 .. n /\ j \in 1 .. Len(stack[i].locks)
      BY <1>4
    <3>2. i = n
      BY <3>1, <1>6, <1>1
    <3>3. Len(stack[i].locks) = 0
      BY <3>2, <1>1
    <3> QED BY <3>1, <3>3
  <2> QED BY <2>1, <2>2
<1> QED BY <1>5, <1>6

\* Frames with the same lists of locks have the same locks in force.
LEMMA SameLocks ==
    ASSUME stack \in Seq(Frames), stack' \in Seq(Frames),
           \A i, j : /\ Holds(stack', i, j) <=> Holds(stack, i, j)
                     /\ Holds(stack, i, j) => LockAt(stack', i, j) = LockAt(stack, i, j)
    PROVE  Locks' = Locks
<1>1. \A x \in Locks : x \in Locks'
  <2> SUFFICES ASSUME NEW x \in Locks PROVE x \in Locks'
    OBVIOUS
  <2>1. PICK i, j : Holds(stack, i, j) /\ x = LockAt(stack, i, j)
    BY LocksMembers DEF LockList
  <2>2. Holds(stack', i, j) /\ x = LockAt(stack', i, j)
    BY <2>1
  <2> QED BY <2>2, LocksMembersNext DEF LockList
<1>2. \A x \in Locks' : x \in Locks
  <2> SUFFICES ASSUME NEW x \in Locks' PROVE x \in Locks
    OBVIOUS
  <2>1. PICK i, j : Holds(stack', i, j) /\ x = LockAt(stack', i, j)
    BY LocksMembersNext DEF LockList
  <2>2. Holds(stack, i, j) /\ x = LockAt(stack, i, j)
    BY <2>1
  <2> QED BY <2>2, LocksMembers DEF LockList
<1> QED BY <1>1, <1>2

LockTyping == \A x \in Locks : /\ x.frame \in Nat /\ x.nr \in Nat
                               /\ x.stat \in Statuses /\ x.prio \in 0 .. MAX_ACTIVE

\* The locks in force are records of a frame, a position and a status.
LEMMA LocksTyped == stack \in Seq(Frames) => LockTyping
<1> SUFFICES ASSUME stack \in Seq(Frames), NEW x \in Locks
             PROVE  /\ x.frame \in Nat /\ x.nr \in Nat
                    /\ x.stat \in Statuses /\ x.prio \in 0 .. MAX_ACTIVE
  BY DEF LockTyping
<1>1. PICK i, j : Holds(stack, i, j) /\ x = LockAt(stack, i, j)
  BY LocksMembers DEF LockList
<1>2. i \in 1 .. Len(stack) /\ j \in 1 .. Len(stack[i].locks)
  BY <1>1 DEF Holds
<1>3. stack[i] \in Frames
  BY <1>2, ElementOfSeq
<1>4. stack[i].locks \in Seq(Statuses) /\ stack[i].prio \in 0 .. MAX_ACTIVE
  BY <1>3 DEF Frames
<1>5. stack[i].locks[j] \in Statuses
  BY <1>2, <1>4, ElementOfSeq
<1> QED BY <1>1, <1>2, <1>4, <1>5 DEF LockAt

\* The same in the next state.
LEMMA LocksTypedNext == (stack \in Seq(Frames) => LockTyping)'
BY LocksTyped, PTL

\* schedLock adds a lock that is newer than all others, ...
LEMMA AddedLock ==
    ASSUME SInv, NEW f \in Frames, f.prio = Top.prio, Continues(f),
           NEW st \in Statuses, f.locks = Append(Top.locks, st), NEW x,
           x = [frame |-> Len(stack), nr |-> Len(Top.locks) + 1, stat |-> st,
                prio |-> Top.prio]
    PROVE  Locks' = Locks \cup {x} /\ \A y \in Locks : Older(y, x)
<1> DEFINE n == Len(stack)
           m == Len(Top.locks)
<1>1. n \in Nat /\ n >= 1 /\ Top = stack[n] /\ stack \in Seq(Frames)
  BY StackFacts DEF SInv, TypeOK
<1>2. stack' \in Seq(Frames)
  BY DEF Continues, Preempts, Replaced, Pushed
<1>3. Top.locks \in Seq(Statuses) /\ m \in Nat
  BY StackFacts, LenProperties DEF Frames
<1>4. Len(f.locks) = m + 1 /\ f.locks[m + 1] = st /\ \A j \in 1 .. m : f.locks[j] = Top.locks[j]
  BY <1>3, AppendProperties
<1>5. \A i, j : Holds(stack, i, j) <=> i \in 1 .. n /\ j \in 1 .. Len(stack[i].locks)
  BY DEF Holds
<1>6. \A i, j :
        /\ Holds(stack', i, j) <=> \/ Holds(stack, i, j) /\ i < n
                                   \/ i = n /\ j \in 1 .. Len(f.locks)
        /\ Holds(stack, i, j) /\ i < n => LockAt(stack', i, j) = LockAt(stack, i, j)
        /\ i = n => LockAt(stack', i, j) = [frame |-> i, nr |-> j, stat |-> f.locks[j],
                                            prio |-> Top.prio]
  BY ContinuesHolds
<1>7. x = [frame |-> n, nr |-> m + 1, stat |-> st, prio |-> Top.prio]
  OBVIOUS
<1> HIDE DEF n, m
<1>m. m = Len(Top.locks)
  BY DEF m
<1>8. ASSUME NEW y \in Locks PROVE y \in Locks' /\ Older(y, x)
  <2>1. PICK i, j : Holds(stack, i, j) /\ y = LockAt(stack, i, j)
    BY <1>1, LocksMembers DEF LockList
  <2>2. i \in 1 .. n /\ j \in 1 .. Len(stack[i].locks)
    BY <2>1, <1>5
  <2>3. CASE i = n
    <3>1. j \in 1 .. m /\ j \in 1 .. m + 1
      BY <2>2, <2>3, <1>1, <1>3, <1>m
    <3>2. Holds(stack', i, j)
      BY <3>1, <2>3, <1>4, <1>6
    <3>3. LockAt(stack', i, j) = y
      BY <2>1, <2>3, <3>1, <1>1, <1>4, <1>6 DEF LockAt
    <3>4. Older(y, x)
      BY <2>1, <2>3, <3>1, <1>3, <1>7 DEF LockAt, Older
    <3> QED BY <3>2, <3>3, <3>4, <1>2, LocksMembersNext DEF LockList
  <2>4. CASE i # n
    <3>1. i < n
      BY <2>2, <2>4, <1>1
    <3>2. Holds(stack', i, j) /\ LockAt(stack', i, j) = y
      BY <2>1, <3>1, <1>6
    <3>3. Older(y, x)
      BY <2>1, <3>1, <1>7 DEF LockAt, Older
    <3> QED BY <3>2, <3>3, <1>2, LocksMembersNext DEF LockList
  <2> QED BY <2>3, <2>4
<1>9. x \in Locks'
  <2>1. m + 1 \in 1 .. Len(f.locks)
    BY <1>3, <1>4
  <2>2. Holds(stack', n, m + 1) /\ LockAt(stack', n, m + 1) = x
    BY <2>1, <1>4, <1>6, <1>7
  <2> QED BY <2>2, <1>2, LocksMembersNext DEF LockList
<1>10. ASSUME NEW y \in Locks', y # x PROVE y \in Locks
  <2>1. PICK i, j : Holds(stack', i, j) /\ y = LockAt(stack', i, j)
    BY <1>2, LocksMembersNext DEF LockList
  <2>2. CASE Holds(stack, i, j) /\ i < n
    BY <2>1, <2>2, <1>1, <1>6, LocksMembers DEF LockList
  <2>3. CASE i = n /\ j \in 1 .. Len(f.locks)
    <3>1. y = [frame |-> n, nr |-> j, stat |-> f.locks[j], prio |-> Top.prio]
      BY <2>1, <2>3, <1>6
    <3>2. j # m + 1
      BY <3>1, <1>4, <1>7, <1>10
    <3>3. j \in 1 .. m /\ n \in 1 .. n
      BY <3>2, <2>3, <1>1, <1>3, <1>4
    <3>4. Holds(stack, n, j) /\ y = LockAt(stack, n, j)
      BY <3>1, <3>3, <1>1, <1>4, <1>5, <1>m DEF LockAt
    <3> QED BY <3>4, <1>1, LocksMembers DEF LockList
  <2> QED BY <2>1, <2>2, <2>3, <1>6
<1> QED BY <1>8, <1>9, <1>10

\* ... and schedUnlock removes it.
LEMMA RemovedLock ==
    ASSUME SInv, NEW f \in Frames, f.prio = Top.prio, Continues(f),
           Top.locks # << >>, f.locks = Front(Top.locks), NEW x,
           x = [frame |-> Len(stack), nr |-> Len(Top.locks),
                stat |-> Top.locks[Len(Top.locks)], prio |-> Top.prio]
    PROVE  Locks = Locks' \cup {x} /\ \A y \in Locks' : Older(y, x)
<1> DEFINE n == Len(stack)
           m == Len(Top.locks)
<1>1. n \in Nat /\ n >= 1 /\ Top = stack[n] /\ stack \in Seq(Frames)
  BY StackFacts DEF SInv, TypeOK
<1>2. stack' \in Seq(Frames)
  BY DEF Continues, Preempts, Replaced, Pushed
<1>3. Top.locks \in Seq(Statuses) /\ m \in Nat /\ m >= 1
  BY StackFacts, LenProperties, EmptySeq DEF Frames
<1>4. Len(f.locks) = m - 1 /\ \A j \in 1 .. m - 1 : f.locks[j] = Top.locks[j]
  <2>1. f.locks = SubSeq(Top.locks, 1, m - 1)
    BY DEF Front
  <2>2. 1 \in 1 .. m + 1 /\ m - 1 \in 1 - 1 .. m
    <3> HIDE DEF m
    <3> QED BY <1>3
  <2> QED BY <2>1, <2>2, <1>3, SubSeqProperties
<1>5. \A i, j : Holds(stack, i, j) <=> i \in 1 .. n /\ j \in 1 .. Len(stack[i].locks)
  BY DEF Holds
<1>6. \A i, j :
        /\ Holds(stack', i, j) <=> \/ Holds(stack, i, j) /\ i < n
                                   \/ i = n /\ j \in 1 .. Len(f.locks)
        /\ Holds(stack, i, j) /\ i < n => LockAt(stack', i, j) = LockAt(stack, i, j)
        /\ i = n => LockAt(stack', i, j) = [frame |-> i, nr |-> j, stat |-> f.locks[j],
                                            prio |-> Top.prio]
  BY ContinuesHolds
<1>7. x = [frame |-> n, nr |-> m, stat |-> Top.locks[m], prio |-> Top.prio]
  OBVIOUS
<1> HIDE DEF n, m
<1>m. m = Len(Top.locks)
  BY DEF m
<1>8. ASSUME NEW y \in Locks' PROVE y \in Locks /\ Older(y, x)
  <2>1. PICK i, j : Holds(stack', i, j) /\ y = LockAt(stack', i, j)
    BY <1>2, LocksMembersNext DEF LockList
  <2>2. CASE Holds(stack, i, j) /\ i < n
    <3>1. y = LockAt(stack, i, j)
      BY <2>1, <2>2, <1>6
    <3>2. Older(y, x)
      BY <3>1, <2>2, <1>7 DEF LockAt, Older
    <3> QED BY <3>1, <3>2, <2>2, <1>1, LocksMembers DEF LockList
  <2>3. CASE i = n /\ j \in 1 .. Len(f.locks)
    <3>1. y = [frame |-> n, nr |-> j, stat |-> f.locks[j], prio |-> Top.prio]
      BY <2>1, <2>3, <1>6
    <3>3. j \in 1 .. m - 1 /\ j \in 1 .. m /\ j < m /\ n \in 1 .. n
      BY <2>3, <1>1, <1>3, <1>4
    <3>4. Holds(stack, n, j) /\ y = LockAt(stack, n, j)
      BY <3>1, <3>3, <1>1, <1>4, <1>5, <1>m DEF LockAt
    <3>5. Older(y, x)
      BY <3>1, <3>3, <1>7 DEF Older
    <3> QED BY <3>4, <3>5, <1>1, LocksMembers DEF LockList
  <2> QED BY <2>1, <2>2, <2>3, <1>6
<1>9. x \in Locks
  <2>1. m \in 1 .. Len(stack[n].locks) /\ n \in 1 .. n
    BY <1>1, <1>3, <1>m
  <2>2. Holds(stack, n, m) /\ LockAt(stack, n, m) = x
    BY <2>1, <1>1, <1>5, <1>7 DEF LockAt
  <2> QED BY <2>2, <1>1, LocksMembers DEF LockList
<1>10. ASSUME NEW y \in Locks, y # x PROVE y \in Locks'
  <2>1. PICK i, j : Holds(stack, i, j) /\ y = LockAt(stack, i, j)
    BY <1>1, LocksMembers DEF LockList
  <2>2. i \in 1 .. n /\ j \in 1 .. Len(stack[i].locks)
    BY <2>1, <1>5
  <2>3. CASE i = n
    <3>0. j # m
      BY <2>1, <2>3, <1>1, <1>7, <1>10 DEF LockAt
    <3>1. j \in 1 .. m - 1
      BY <3>0, <2>2, <2>3, <1>1, <1>3, <1>m
    <3>2. Holds(stack', i, j)
      BY <3>1, <2>3, <1>4, <1>6
    <3>3. LockAt(stack', i, j) = y
      BY <2>1, <2>3, <3>1, <1>1, <1>4, <1>6 DEF LockAt
    <3> QED BY <3>2, <3>3, <1>2, LocksMembersNext DEF LockList
  <2>4. CASE i # n
    <3>1. i < n
      BY <2>2, <2>4, <1>1
    <3>2. Holds(stack', i, j) /\ LockAt(stack', i, j) = y
      BY <2>1, <3>1, <1>6
    <3> QED BY <3>2, <1>2, LocksMembersNext DEF LockList
  <2> QED BY <2>3, <2>4
<1> QED BY <1>8, <1>9, <1>10

\* Older orders the locks.
LEMMA OlderOrder ==
    ASSUME NEW x, NEW y, x.frame \in Nat, x.nr \in Nat, y.frame \in Nat, y.nr \in Nat
    PROVE  ~Older(x, x) /\ (Older(x, y) => ~Older(y, x))
BY DEF Older

\* Steps that lock and unlock nothing keep the locks nested.
LEMMA SameLocksNested ==
    ASSUME SInv, Locks' = Locks, lockPrio' = lockPrio, lockHolder' = lockHolder,
           stack'[1].at = "idle" <=> stack[1].at = "idle"
    PROVE  LocksNested' /\ LockChain'
<1>1. Held' = Held
  BY DEF Held
<1>2. \A x : Before(x)' = Before(x)
  BY <1>1 DEF Before, Older
<1>4. LocksNested'
  BY <1>1 DEF SInv, LocksNested, InForce, Older
<1>5. ASSUME NEW x \in Held'
      PROVE  x.stat.ceiling > x.stat.prev /\ InForce(Before(x), x.stat.prev, x.stat.holder)'
  <2>1. x.stat.ceiling > x.stat.prev /\ InForce(Before(x), x.stat.prev, x.stat.holder)
    BY <1>1, <1>5 DEF SInv, LockChain
  <2> QED BY <2>1, <1>2 DEF InForce, Older
<1>6. \A x \in Locks' : x.stat.ceiling <= lockPrio'
  BY DEF SInv, LockChain
<1>7. \A x \in Locks', y \in Held' : Older(x, y) => x.stat.ceiling <= y.stat.prev
  BY <1>1 DEF SInv, LockChain
<1> QED BY <1>4, <1>5, <1>6, <1>7 DEF LockChain, Older

\* A lock that raises the ceiling becomes the one in force, ...
LEMMA LockTakenNested ==
    ASSUME SInv, NEW x, Locks' = Locks \cup {x}, \A y \in Locks : Older(y, x),
           x.frame \in Nat, x.nr \in Nat, x.prio \in 0 .. MAX_ACTIVE,
           x.stat \in Statuses, x.stat.prev = lockPrio, x.stat.holder = lockHolder,
           lockPrio < x.stat.ceiling, lockPrio' = x.stat.ceiling,
           lockHolder' = x.prio,
           stack'[1].at = "idle" <=> stack[1].at = "idle"
    PROVE  LocksNested' /\ LockChain'
<1>0. /\ stack \in Seq(Frames) /\ lockPrio \in 0 .. MAX_ACTIVE /\ lockPrio # NoChange
      /\ x.stat.ceiling \in Prios /\ MAX_ACTIVE \in Nat /\ Prios \subseteq Nat
  BY QKAssumption DEF SInv, TypeOK, Statuses, NoChange, Prios
<1>n. x.stat.ceiling \in Nat /\ lockPrio \in Nat
  <2>1. \A p \in 0 .. MAX_ACTIVE : p \in Nat
    BY <1>0
  <2>2. \A p \in Prios : p \in Nat
    BY <1>0
  <2> QED BY <2>1, <2>2, <1>0, Zenon
<1>t. \A y \in Locks : y.frame \in Nat /\ y.nr \in Nat /\ y.stat \in Statuses
  BY <1>0, LocksTyped DEF LockTyping
<1>1. Held' = Held \cup {x}
  BY <1>0 DEF Held
<1>2. ~Older(x, x) /\ \A y \in Locks : ~Older(x, y) /\ y # x
  BY <1>t, OlderOrder
<1>h. \A y \in Held : y \in Locks /\ Older(y, x)
  BY DEF Held
<1>3. Before(x)' = Held
  BY <1>1, <1>2, <1>h DEF Before, Older
<1>4. \A y \in Held : Before(y)' = Before(y)
  BY <1>1, <1>2, <1>h DEF Before, Older
<1>5. LocksNested'
  <2>1. x \in Held' /\ \A y \in Held' : y = x \/ Older(y, x)
    BY <1>1, <1>h
  <2>2. lockPrio' = x.stat.ceiling /\ lockHolder' = x.prio
    OBVIOUS
  <2> QED BY <2>1, <2>2 DEF LocksNested, InForce, Older
<1>6. ASSUME NEW y \in Held'
      PROVE  y.stat.ceiling > y.stat.prev /\ InForce(Before(y), y.stat.prev, y.stat.holder)'
  <2>1. CASE y = x
    <3>1. InForce(Held, lockPrio, lockHolder)
      BY DEF SInv, LocksNested
    <3>2. InForce(Before(x), x.stat.prev, x.stat.holder)'
      BY <3>1, <1>3 DEF InForce, Older
    <3>3. x.stat.ceiling > x.stat.prev
      BY <1>n
    <3> QED BY <3>2, <3>3, <2>1
  <2>2. CASE y \in Held
    <3>1. y.stat.ceiling > y.stat.prev /\ InForce(Before(y), y.stat.prev, y.stat.holder)
      BY <2>2 DEF SInv, LockChain
    <3> QED BY <3>1, <2>2, <1>4 DEF InForce, Older
  <2> QED BY <2>1, <2>2, <1>1
<1>7. \A y \in Locks' : y.stat.ceiling <= lockPrio'
  <2> SUFFICES ASSUME NEW y \in Locks' PROVE y.stat.ceiling <= x.stat.ceiling
    OBVIOUS
  <2>1. CASE y = x
    BY <2>1, <1>n
  <2>2. CASE y \in Locks
    <3>1. y.stat.ceiling <= lockPrio
      BY <2>2 DEF SInv, LockChain
    <3>2. y.stat.ceiling \in Nat
      BY <2>2, <1>t, <1>0 DEF Statuses
    <3> QED BY <3>1, <3>2, <1>n
  <2> QED BY <2>1, <2>2
<1>8. ASSUME NEW y \in Locks', NEW z \in Held', Older(y, z)
      PROVE  y.stat.ceiling <= z.stat.prev
  <2>1. CASE z = x
    <3>1. y \in Locks
      BY <1>8, <1>2, <2>1
    <3> QED BY <2>1, <3>1 DEF SInv, LockChain
  <2>2. CASE z \in Held
    <3>1. y \in Locks
      BY <1>8, <1>2, <1>h, <2>2
    <3> QED BY <2>2, <3>1, <1>8 DEF SInv, LockChain
  <2> QED BY <2>1, <2>2, <1>1
<1> QED BY <1>5, <1>6, <1>7, <1>8 DEF LockChain, Older

\* ... one that does not leaves the one in force, ...
LEMMA LockIdleNested ==
    ASSUME SInv, NEW x, Locks' = Locks \cup {x}, \A y \in Locks : Older(y, x),
           x.frame \in Nat, x.nr \in Nat, x.stat.prev = NoChange,
           x.stat.ceiling <= lockPrio, lockPrio' = lockPrio,
           lockHolder' = lockHolder,
           stack'[1].at = "idle" <=> stack[1].at = "idle"
    PROVE  LocksNested' /\ LockChain'
<1>0. stack \in Seq(Frames)
  BY DEF SInv, TypeOK
<1>t. \A y \in Locks : y.frame \in Nat /\ y.nr \in Nat
  BY <1>0, LocksTyped DEF LockTyping
<1>1. Held' = Held
  BY DEF Held
<1>h. \A y \in Held : y \in Locks /\ ~Older(x, y)
  BY <1>t, OlderOrder DEF Held
<1>2. \A y : Before(y)' = Before(y)
  BY <1>1 DEF Before, Older
<1>4. LocksNested'
  BY <1>1 DEF SInv, LocksNested, InForce, Older
<1>5. ASSUME NEW y \in Held'
      PROVE  y.stat.ceiling > y.stat.prev /\ InForce(Before(y), y.stat.prev, y.stat.holder)'
  <2>1. y.stat.ceiling > y.stat.prev /\ InForce(Before(y), y.stat.prev, y.stat.holder)
    BY <1>1, <1>5 DEF SInv, LockChain
  <2> QED BY <2>1, <1>2 DEF InForce, Older
<1>6. \A y \in Locks' : y.stat.ceiling <= lockPrio'
  BY DEF SInv, LockChain
<1>7. ASSUME NEW y \in Locks', NEW z \in Held', Older(y, z)
      PROVE  y.stat.ceiling <= z.stat.prev
  <2>1. z \in Held /\ y \in Locks
    BY <1>1, <1>7, <1>h
  <2> QED BY <2>1, <1>7 DEF SInv, LockChain
<1> QED BY <1>4, <1>5, <1>6, <1>7 DEF LockChain, Older

\* ... and an unlock restores what was in force before the lock.
LEMMA UnlockIdleNested ==
    ASSUME SInv, NEW x, Locks = Locks' \cup {x}, x.stat.prev = NoChange,
           lockPrio' = lockPrio, lockHolder' = lockHolder,
           stack'[1].at = "idle" <=> stack[1].at = "idle"
    PROVE  LocksNested' /\ LockChain'
<1>1. Held' = Held
  BY DEF Held
<1>2. \A y : Before(y)' = Before(y)
  BY <1>1 DEF Before, Older
<1>4. LocksNested'
  BY <1>1 DEF SInv, LocksNested, InForce, Older
<1>5. ASSUME NEW y \in Held'
      PROVE  y.stat.ceiling > y.stat.prev /\ InForce(Before(y), y.stat.prev, y.stat.holder)'
  <2>1. y.stat.ceiling > y.stat.prev /\ InForce(Before(y), y.stat.prev, y.stat.holder)
    BY <1>1, <1>5 DEF SInv, LockChain
  <2> QED BY <2>1, <1>2 DEF InForce, Older
<1>6. \A y \in Locks' : y.stat.ceiling <= lockPrio'
  BY DEF SInv, LockChain
<1>7. ASSUME NEW y \in Locks', NEW z \in Held', Older(y, z)
      PROVE  y.stat.ceiling <= z.stat.prev
  BY <1>1, <1>7 DEF SInv, LockChain
<1> QED BY <1>4, <1>5, <1>6, <1>7 DEF LockChain, Older

\* The ceiling in force is the one of the newest lock that changed it.
LEMMA NewestInForce ==
    ASSUME SInv, NEW x \in Locks, \A y \in Locks : y = x \/ Older(y, x),
           x.stat.prev # NoChange
    PROVE  lockPrio = x.stat.ceiling /\ x.stat.ceiling > x.stat.prev
<1>1. x \in Held
  BY DEF Held
<1>2. InForce(Held, lockPrio, lockHolder)
  BY DEF SInv, LocksNested
<1>3. PICK y \in Held : /\ \A z \in Held : z = y \/ Older(z, y)
                        /\ lockPrio = y.stat.ceiling
  BY <1>1, <1>2 DEF InForce
<1>4. stack \in Seq(Frames) /\ y \in Locks
  BY <1>3 DEF SInv, TypeOK, Held
<1>5. y = x
  BY <1>1, <1>3, <1>4, LocksTyped, OlderOrder DEF LockTyping
<1> QED BY <1>1, <1>3, <1>5 DEF SInv, LockChain

\* schedUnlock of the newest lock restores the ceiling below it.
LEMMA UnlockNested ==
    ASSUME SInv, NEW x, Locks = Locks' \cup {x}, \A y \in Locks' : Older(y, x),
           x.stat.prev # NoChange, lockPrio' = x.stat.prev,
           lockHolder' = x.stat.holder,
           stack'[1].at = "idle" <=> stack[1].at = "idle"
    PROVE  LocksNested' /\ LockChain'
<1>0. stack \in Seq(Frames)
  BY DEF SInv, TypeOK
<1>t. \A y \in Locks : y.frame \in Nat /\ y.nr \in Nat
  BY <1>0, LocksTyped DEF LockTyping
<1>1. Held = Held' \cup {x}
  BY DEF Held
<1>2. ~Older(x, x) /\ \A y \in Locks' : ~Older(x, y) /\ y # x
  BY <1>t, OlderOrder
<1>h. \A y \in Held' : y \in Locks' /\ Older(y, x) /\ y \in Held
  BY <1>1 DEF Held
<1>3. Before(x) = Held'
  BY <1>1, <1>2, <1>h DEF Before
<1>4. \A y \in Held' : Before(y)' = Before(y)
  BY <1>1, <1>2, <1>h DEF Before, Older
<1>5. LocksNested'
  <2>1. InForce(Before(x), x.stat.prev, x.stat.holder)
    BY <1>1 DEF SInv, LockChain
  <2> QED BY <2>1, <1>3 DEF LocksNested, InForce, Older
<1>6. ASSUME NEW y \in Held'
      PROVE  y.stat.ceiling > y.stat.prev /\ InForce(Before(y), y.stat.prev, y.stat.holder)'
  <2>1. y.stat.ceiling > y.stat.prev /\ InForce(Before(y), y.stat.prev, y.stat.holder)
    BY <1>h, <1>6 DEF SInv, LockChain
  <2> QED BY <2>1, <1>4, <1>6 DEF InForce, Older
<1>7. \A y \in Locks' : y.stat.ceiling <= lockPrio'
  <2> SUFFICES ASSUME NEW y \in Locks' PROVE y.stat.ceiling <= x.stat.prev
    OBVIOUS
  <2>1. y \in Locks /\ x \in Held /\ Older(y, x)
    BY <1>1
  <2> QED BY <2>1 DEF SInv, LockChain
<1>8. ASSUME NEW y \in Locks', NEW z \in Held', Older(y, z)
      PROVE  y.stat.ceiling <= z.stat.prev
  BY <1>h, <1>8 DEF SInv, LockChain
<1> QED BY <1>5, <1>6, <1>7, <1>8 DEF LockChain, Older

\* The frames above a lock stay above its ceiling.
LEMMA ContinuesCleared ==
    ASSUME SInv, NEW f \in Frames, f.prio = Top.prio, Continues(f), LockChain',
           lockPrio' \in 0 .. MAX_ACTIVE
    PROVE  Cleared'
<1> DEFINE n == Len(stack)
<1>1. n \in Nat /\ n >= 1 /\ Top = stack[n] /\ stack \in Seq(Frames) /\ actPrio \in 0 .. MAX_ACTIVE
  BY StackFacts DEF SInv, TypeOK
<1>2. stack' \in Seq(Frames)
  BY DEF Continues, Preempts, Replaced, Pushed
<1>3. \A i, j :
        /\ Holds(stack', i, j) => \/ Holds(stack, i, j) /\ i < n
                                  \/ i = n
        /\ Holds(stack, i, j) /\ i < n => LockAt(stack', i, j) = LockAt(stack, i, j)
  BY ContinuesHolds
<1>4. stack'[n] = f /\ \A i \in 1 .. n - 1 : stack'[i] = stack[i]
  BY DEF Continues, Preempts, Replaced, Pushed
<1>5. \/ Len(stack') = n
      \/ Len(stack') = n + 1 /\ \E p \in Prios : p > lockPrio' /\ stack'[n + 1].prio = p
  <2>1. CASE Replaced(f)
    BY <2>1 DEF Replaced
  <2>2. CASE \E p \in Prios, a \in Objs \cup {NULL} : Preempts(f, p, a)
    <3>1. PICK p \in Prios, a \in Objs \cup {NULL} : Preempts(f, p, a)
      BY <2>2
    <3>2. Len(stack') = n + 1 /\ stack'[n + 1] = Frame(p, a, actPrio) /\ p > lockPrio'
      BY <3>1 DEF Preempts, Pushed
    <3>3. Frame(p, a, actPrio).prio = p
      BY <1>1, FrameProperties
    <3>4. stack'[n + 1].prio = p
      BY <3>2, <3>3, Zenon
    <3> QED BY <3>2, <3>4
  <2> QED BY <2>1, <2>2 DEF Continues
<1>c. \A x \in Locks, k \in Nat : k > x.frame /\ k <= n => stack[k].prio > x.stat.ceiling
  <2> SUFFICES ASSUME NEW x \in Locks, NEW k \in Nat, k > x.frame, k <= n
               PROVE  stack[k].prio > x.stat.ceiling
    OBVIOUS
  <2>1. x.frame \in Nat
    BY <1>1, LocksTyped DEF LockTyping
  <2>2. k \in x.frame + 1 .. n
    <3> HIDE DEF n
    <3> QED BY <2>1, <1>1
  <2> QED BY <2>2 DEF SInv, Cleared
<1> HIDE DEF n
<1> SUFFICES ASSUME NEW x \in Locks', NEW k \in x.frame + 1 .. Len(stack')
             PROVE  stack'[k].prio > x.stat.ceiling
  BY DEF Cleared
<1>6. x.frame \in Nat /\ x.stat.ceiling \in 1 .. MAX_ACTIVE
  BY <1>2, LocksTypedNext DEF LockTyping, Statuses, Prios
<1>7. CASE k = n + 1
  <2>1. PICK p \in Prios : p > lockPrio' /\ stack'[n + 1].prio = p
    BY <1>7, <1>1, <1>5, <1>6
  <2>2. x.stat.ceiling <= lockPrio'
    BY DEF LockChain
  <2>3. p \in Nat /\ lockPrio' \in Nat
    BY QKAssumption DEF Prios
  <2> QED BY <2>1, <2>2, <2>3, <1>6, <1>7
<1>8. CASE k # n + 1
  <2>1. k \in Nat /\ k > x.frame /\ k <= n
    BY <1>8, <1>1, <1>5, <1>6
  <2>2. PICK i, j : Holds(stack', i, j) /\ x = LockAt(stack', i, j)
    BY <1>2, LocksMembersNext DEF LockList
  <2>3. i = x.frame /\ i # n
    BY <2>1, <2>2, <1>1, <1>6 DEF LockAt
  <2>4. Holds(stack, i, j) /\ x = LockAt(stack, i, j)
    BY <2>2, <2>3, <1>3
  <2>5. x \in Locks
    BY <2>4, <1>1, LocksMembers DEF LockList
  <2>6. stack'[k].prio = stack[k].prio
    <3>1. k = n \/ k \in 1 .. n - 1
      BY <2>1, <1>1, <1>6
    <3> QED BY <3>1, <1>1, <1>4
  <2> QED BY <2>1, <2>5, <2>6, <1>c
<1> QED BY <1>7, <1>8

\* When a frame ends, the frames above a lock are still above its ceiling.
LEMMA EndsCleared ==
    ASSUME SInv, Top.prio > 0, Top.locks = << >>, Ends, Locks' = Locks
    PROVE  Cleared'
<1> DEFINE n == Len(stack)
<1>1. /\ n \in Nat /\ n >= 1 /\ Top = stack[n] /\ stack \in Seq(Frames)
      /\ Top.pin \in 0 .. MAX_ACTIVE /\ lockPrio \in 0 .. MAX_ACTIVE
  BY StackFacts DEF SInv, TypeOK, Frames
<1>4. \A i \in 1 .. n - 1 : stack'[i] = stack[i]
  BY DEF Ends, Succeeds, Replaced, Popped
<1>5. \/ Len(stack') = n - 1
      \/ Len(stack') = n /\ \E p \in Prios : p > lockPrio /\ stack'[n].prio = p
  <2>1. CASE Popped
    BY <2>1 DEF Popped
  <2>2. CASE \E p \in Prios, a \in Objs \cup {NULL} : Succeeds(p, a)
    <3>1. PICK p \in Prios, a \in Objs \cup {NULL} : Succeeds(p, a)
      BY <2>2
    <3>2. Len(stack') = n /\ stack'[n] = Frame(p, a, Top.pin) /\ p > lockPrio
      BY <3>1 DEF Succeeds, Replaced
    <3>3. stack'[n].prio = p
      BY <3>2, <1>1, FrameProperties
    <3> QED BY <3>2, <3>3
  <2> QED BY <2>1, <2>2 DEF Ends
<1>c. \A x \in Locks : \A k \in x.frame + 1 .. n : stack[k].prio > x.stat.ceiling
  BY DEF SInv, Cleared
<1> HIDE DEF n
<1> SUFFICES ASSUME NEW x \in Locks, NEW k \in x.frame + 1 .. Len(stack')
             PROVE  stack'[k].prio > x.stat.ceiling
  BY DEF Cleared
<1>6. x.frame \in Nat /\ x.stat.ceiling \in 1 .. MAX_ACTIVE
  BY <1>1, LocksTyped DEF LockTyping, Statuses, Prios
<1>7. CASE k = n
  <2>1. PICK p \in Prios : p > lockPrio /\ stack'[n].prio = p
    BY <1>7, <1>1, <1>5, <1>6
  <2>2. x.stat.ceiling <= lockPrio
    BY DEF SInv, LockChain
  <2>3. p \in Nat /\ lockPrio \in Nat
    BY <1>1, QKAssumption DEF Prios
  <2> QED BY <2>1, <2>2, <2>3, <1>6, <1>7
<1>8. CASE k # n
  <2>1. k \in 1 .. n - 1 /\ k \in x.frame + 1 .. n
    BY <1>8, <1>1, <1>5, <1>6
  <2> QED BY <2>1, <1>c, <1>4
<1> QED BY <1>7, <1>8

-----------------------------------------------------------------------------
(***************************************************************************)
(* What the shapes keep of the invariant.                                  *)
(***************************************************************************)
Structure == /\ stack \in Seq(Frames) /\ stack # << >>
             /\ actPrio \in 0 .. MAX_ACTIVE
             /\ FramesSound /\ MainLowest /\ StackNested
             /\ LocksNested /\ LockChain /\ Cleared

\* f can take the place of the running frame.
Fits(f) == /\ f \in Frames /\ f.prio = Top.prio /\ f.pin = Top.pin
           /\ f.at = "idle" <=> Top.at = "idle"
Proper(f) == Fits(f) /\ Sound(f)

\* The frame at the bottom is idle as before.
LEMMA IdleKept ==
    ASSUME SInv, NEW f, Proper(f), Continues(f)
    PROVE  stack'[1].at = "idle" <=> stack[1].at = "idle"
<1> DEFINE n == Len(stack)
<1>1. n \in Nat /\ n >= 1 /\ Top = stack[n]
  BY StackFacts
<1>2. stack'[n] = f /\ \A i \in 1 .. n - 1 : stack'[i] = stack[i]
  BY DEF Continues, Preempts, Replaced, Pushed
<1> HIDE DEF n
<1>3. n = 1 \/ 1 \in 1 .. n - 1
  BY <1>1
<1> QED BY <1>1, <1>2, <1>3 DEF Proper, Fits

\* A frame that goes on, activations above it or not, keeps the structure.
LEMMA ContinuesStructure ==
    ASSUME SInv, NEW f, Proper(f), Continues(f), f.locks = Top.locks,
           lockPrio' = lockPrio, lockHolder' = lockHolder
    PROVE  Structure'
<1> DEFINE n == Len(stack)
<1>1. /\ stack' \in Seq(Frames) /\ stack' # << >> /\ actPrio' \in 0 .. MAX_ACTIVE
      /\ FramesSound' /\ MainLowest' /\ StackNested'
  BY ContinuesStack DEF Proper, Fits
<1>2. n \in Nat /\ n >= 1 /\ Top = stack[n] /\ stack \in Seq(Frames)
  BY StackFacts DEF SInv, TypeOK
<1>3. \A i, j :
        /\ Holds(stack', i, j) <=> \/ Holds(stack, i, j) /\ i < n
                                   \/ i = n /\ j \in 1 .. Len(f.locks)
        /\ Holds(stack, i, j) /\ i < n => LockAt(stack', i, j) = LockAt(stack, i, j)
        /\ i = n => LockAt(stack', i, j) = [frame |-> i, nr |-> j, stat |-> f.locks[j],
                                            prio |-> Top.prio]
  BY ContinuesHolds DEF Proper, Fits
<1>4. Locks' = Locks
  <2>1. ASSUME NEW i, NEW j
        PROVE  /\ Holds(stack', i, j) <=> Holds(stack, i, j)
               /\ Holds(stack, i, j) => LockAt(stack', i, j) = LockAt(stack, i, j)
    <3>1. Holds(stack, i, j) <=> i \in 1 .. n /\ j \in 1 .. Len(stack[i].locks)
      BY DEF Holds
    <3> HIDE DEF n
    <3>2. i \in 1 .. n <=> (i \in 1 .. n /\ i < n) \/ i = n
      BY <1>2
    <3>3. Holds(stack', i, j) <=> Holds(stack, i, j)
      BY <3>1, <3>2, <1>2, <1>3
    <3>4. i = n => LockAt(stack', i, j) = LockAt(stack, i, j)
      BY <1>2, <1>3 DEF LockAt
    <3> QED BY <3>1, <3>2, <3>3, <3>4, <1>3
  <2> QED BY <2>1, <1>1, <1>2, SameLocks
<1>5. LocksNested' /\ LockChain'
  BY <1>4, IdleKept, SameLocksNested
<1>6. Cleared'
  <2>1. lockPrio' \in 0 .. MAX_ACTIVE
    BY DEF SInv, TypeOK
  <2> QED BY <2>1, <1>5, ContinuesCleared DEF Proper, Fits
<1> QED BY <1>1, <1>5, <1>6 DEF Structure

\* A frame that ends, activations in its place or not, keeps the structure.
LEMMA EndsStructure ==
    ASSUME SInv, Top.prio > 0, Top.locks = << >>, Ends,
           lockPrio' = lockPrio, lockHolder' = lockHolder
    PROVE  Structure'
<1>1. /\ stack' \in Seq(Frames) /\ stack' # << >> /\ actPrio' \in 0 .. MAX_ACTIVE
      /\ FramesSound' /\ MainLowest' /\ StackNested'
  BY EndsStack
<1>2. Locks' = Locks
  <2>1. stack \in Seq(Frames)
    BY DEF SInv, TypeOK
  <2> QED BY <2>1, <1>1, EndsHolds, SameLocks
<1>3. stack'[1] = stack[1]
  <2> DEFINE n == Len(stack)
  <2>1. n \in Nat /\ n >= 2
    BY StackFacts
  <2>2. \A i \in 1 .. n - 1 : stack'[i] = stack[i]
    BY DEF Ends, Succeeds, Replaced, Popped
  <2> HIDE DEF n
  <2> QED BY <2>1, <2>2
<1>4. LocksNested' /\ LockChain'
  BY <1>2, <1>3, SameLocksNested
<1>5. Cleared'
  BY <1>2, EndsCleared
<1> QED BY <1>1, <1>4, <1>5 DEF Structure

\* schedLock, whether it raises the ceiling or not.
LEMMA LockStructure ==
    ASSUME SInv, NEW f, Fits(f), NEW c \in Prios, NEW g, NEW st \in Statuses,
           g = [f EXCEPT !.locks = Append(@, st)], Sound(g), Replaced(g),
           f.locks = Top.locks, actPrio' = actPrio, st.ceiling = c,
           \/ /\ lockPrio < c /\ st.prev = lockPrio /\ st.holder = lockHolder
              /\ lockPrio' = c /\ lockHolder' = actPrio
           \/ /\ lockPrio >= c /\ st.prev = NoChange
              /\ lockPrio' = lockPrio /\ lockHolder' = lockHolder
    PROVE  Structure' /\ lockPrio' \in 0 .. MAX_ACTIVE /\ lockHolder' \in 0 .. MAX_ACTIVE
<1>1. /\ lockPrio \in 0 .. MAX_ACTIVE /\ lockHolder \in 0 .. MAX_ACTIVE
      /\ actPrio \in 0 .. MAX_ACTIVE /\ c \in 1 .. MAX_ACTIVE
      /\ MAX_ACTIVE \in Nat /\ actPrio = Top.prio
  <2>1. actPrio = Top.prio
    BY StackFacts
  <2>2. /\ lockPrio \in 0 .. MAX_ACTIVE /\ lockHolder \in 0 .. MAX_ACTIVE
        /\ actPrio \in 0 .. MAX_ACTIVE
    BY DEF SInv, TypeOK
  <2>3. c \in 1 .. MAX_ACTIVE
    BY Zenon DEF Prios
  <2> QED BY <2>1, <2>2, <2>3, PrioNumbers, Zenon
<1>2. lockPrio' \in 0 .. MAX_ACTIVE /\ lockHolder' \in 0 .. MAX_ACTIVE
  BY <1>1
<1>3. g \in Frames
  <2>1. f \in Frames /\ f.locks \in Seq(Statuses)
    BY DEF Proper, Fits, Frames
  <2>2. Append(f.locks, st) \in Seq(Statuses)
    BY <2>1, AppendProperties
  <2> QED BY <2>1, <2>2 DEF Frames
<1>4. /\ g.locks = Append(Top.locks, st) /\ g.prio = Top.prio /\ g.pin = Top.pin
      /\ g.at = f.at
  BY DEF Proper, Fits, Frames
<1>5. Proper(g) /\ Continues(g)
  BY <1>3, <1>4 DEF Proper, Fits, Continues
<1>6. /\ stack' \in Seq(Frames) /\ stack' # << >> /\ actPrio' \in 0 .. MAX_ACTIVE
      /\ FramesSound' /\ MainLowest' /\ StackNested'
  BY <1>5, ContinuesStack DEF Proper, Fits
<1> DEFINE x == [frame |-> Len(stack), nr |-> Len(Top.locks) + 1, stat |-> st,
                 prio |-> Top.prio]
<1>7. Locks' = Locks \cup {x} /\ \A y \in Locks : Older(y, x)
  BY <1>3, <1>4, <1>5, AddedLock
<1>8. /\ x.frame \in Nat /\ x.nr \in Nat /\ x.prio \in 0 .. MAX_ACTIVE
      /\ x.stat = st /\ x.prio = actPrio
  <2>1. Len(stack) \in Nat
    BY StackFacts
  <2>2. Top.locks \in Seq(Statuses)
    BY StackFacts DEF Frames
  <2>3. Len(Top.locks) + 1 \in Nat
    BY <2>2, LenProperties
  <2> QED BY <1>1, <2>1, <2>3
<1>9. stack'[1].at = "idle" <=> stack[1].at = "idle"
  BY <1>5, IdleKept
<1> HIDE DEF x
<1>10. LocksNested' /\ LockChain'
  <2>1. CASE /\ lockPrio < c /\ st.prev = lockPrio /\ st.holder = lockHolder
             /\ lockPrio' = c /\ lockHolder' = actPrio
    <3>1. /\ x.stat \in Statuses /\ x.stat.prev = lockPrio /\ x.stat.holder = lockHolder
          /\ lockPrio < x.stat.ceiling /\ lockPrio' = x.stat.ceiling
          /\ lockHolder' = x.prio
      BY <2>1, <1>8
    <3> QED BY <3>1, <1>7, <1>8, <1>9, LockTakenNested
  <2>2. CASE /\ lockPrio >= c /\ st.prev = NoChange
             /\ lockPrio' = lockPrio /\ lockHolder' = lockHolder
    <3>1. x.stat.prev = NoChange /\ x.stat.ceiling <= lockPrio
      BY <2>2, <1>1, <1>8
    <3> QED BY <3>1, <2>2, <1>7, <1>8, <1>9, LockIdleNested
  <2> QED BY <2>1, <2>2
<1>11. Cleared'
  BY <1>2, <1>3, <1>4, <1>5, <1>10, ContinuesCleared
<1> QED BY <1>2, <1>6, <1>10, <1>11 DEF Structure

\* The frame f goes on, unless a priority that is ready preempts it.
Activates(f) == \/ Replaced(f) /\ actPrio' = actPrio
                \/ \E p \in readySet' : Preempts(f, p, active'[p])

\* No eligible priority waits.
Settled == \A p \in readySet : p <= actPrio \/ p <= lockPrio

\* A frame that called the activator goes on.
LEMMA ActivatesContinues ==
    ASSUME NEW f, Activates(f), readySet' \subseteq Prios,
           active' \in [Prios -> Objs \cup {NULL}]
    PROVE  Continues(f)
BY DEF Activates, Continues

\* An activation on top of the frame that caused it.
LEMMA AppendFrame ==
    ASSUME SInv, NEW f \in Frames, NEW g \in Frames,
           stack' = Append(SetTop(f), g)
    PROVE  Pushed(f, g)
<1> DEFINE n == Len(stack)
           s == SetTop(f)
<1>0. stack \in Seq(Frames) /\ stack # << >>
  BY DEF SInv, TypeOK
<1>1. /\ s \in Seq(Frames) /\ Len(s) = n /\ s[n] = f
      /\ \A i \in 1 .. n - 1 : s[i] = stack[i]
      /\ n \in Nat /\ n >= 1
  BY <1>0, SetTopProperties
<1> HIDE DEF s
<1>2. /\ stack' \in Seq(Frames) /\ Len(stack') = n + 1 /\ stack'[n + 1] = g
      /\ \A i \in 1 .. n : stack'[i] = s[i]
  <2>1. stack' = Append(s, g)
    BY DEF s
  <2> QED BY <1>1, <2>1, AppendProperties
<1>3. stack'[n] = f /\ \A i \in 1 .. n - 1 : stack'[i] = stack[i]
  <2> HIDE DEF n
  <2>1. n \in 1 .. n /\ \A i \in 1 .. n - 1 : i \in 1 .. n
    BY <1>1
  <2> QED BY <2>1, <1>1, <1>2
<1> QED BY <1>2, <1>3 DEF Pushed

\* The top frame is exchanged.
LEMMA SetTopReplaced ==
    ASSUME SInv, NEW f \in Frames, stack' = SetTop(f)
    PROVE  Replaced(f)
<1>0. stack \in Seq(Frames) /\ stack # << >>
  BY DEF SInv, TypeOK
<1> QED BY <1>0, SetTopProperties DEF Replaced

\* The stack stays as it is.
LEMMA UnchangedReplaced ==
    ASSUME SInv, stack' = stack
    PROVE  Replaced(Top)
<1>0. stack \in Seq(Frames)
  BY DEF SInv, TypeOK
<1> QED BY <1>0 DEF Replaced, Top

\* What "if (QK_sched_() != 0) QK_activate_()" does.
LEMMA ScheduleShape ==
    ASSUME SInv, NEW f \in Frames, NEW ready, NEW lock, Schedule(SetTop(f), ready, lock),
           ready \subseteq Prios, readySet' = ready, lockPrio' = lock,
           lock \in 0 .. MAX_ACTIVE, active' \in [Prios -> Objs \cup {NULL}]
    PROVE  Activates(f) /\ Continues(f) /\ Settled'
<1> DEFINE p == findMax(ready)
<1>1. /\ p \in ready \cup {0} /\ p \in 0 .. MAX_ACTIVE
      /\ \A q \in ready : q <= p
  BY FindMax
<1>2. MAX_ACTIVE \in Nat /\ \A q \in ready : q \in 1 .. MAX_ACTIVE
  BY PrioNumbers
<1>3. actPrio \in 0 .. MAX_ACTIVE
  BY DEF SInv, TypeOK
<1>4. IF p <= actPrio \/ p <= lock
      THEN stack' = SetTop(f) /\ actPrio' = actPrio
      ELSE /\ stack' = Append(SetTop(f), Frame(p, active'[p], actPrio))
           /\ actPrio' = p
  <2>1. QK_sched_(ready, lock) = IF p <= actPrio \/ p <= lock THEN 0 ELSE p
    BY DEF QK_sched_
  <2> HIDE DEF p
  <2>2. ~(p <= actPrio) => p # 0
    BY <1>1, <1>3
  <2>3. CASE p <= actPrio \/ p <= lock
    BY <2>1, <2>3 DEF Schedule
  <2>4. CASE ~(p <= actPrio \/ p <= lock)
    <3>1. QK_sched_(ready, lock) = p /\ p # 0
      BY <2>1, <2>2, <2>4
    <3> QED BY <3>1, <2>4 DEF Schedule
  <2> QED BY <2>3, <2>4
<1> HIDE DEF p
<1>5. CASE p <= actPrio \/ p <= lock
  <2>1. Replaced(f) /\ actPrio' = actPrio
    BY <1>4, <1>5, SetTopReplaced
  <2>2. \A q \in ready : q <= actPrio \/ q <= lock
    BY <1>1, <1>2, <1>3, <1>5
  <2> QED BY <2>1, <2>2 DEF Activates, Continues, Settled
<1>6. CASE ~(p <= actPrio \/ p <= lock)
  <2>1. p \in ready /\ p > actPrio /\ p > lock
    BY <1>1, <1>3, <1>6
  <2>2. p \in Prios /\ active'[p] \in Objs \cup {NULL}
    BY <2>1
  <2>3. Frame(p, active'[p], actPrio) \in Frames
    BY <2>2, <1>3, FrameProperties
  <2>4. Pushed(f, Frame(p, active'[p], actPrio))
    BY <2>3, <1>4, <1>6, AppendFrame
  <2>5. Preempts(f, p, active'[p])
    BY <2>1, <2>4, <1>4, <1>6 DEF Preempts
  <2>6. Settled'
    BY <1>1, <1>4, <1>6 DEF Settled
  <2> QED BY <2>1, <2>2, <2>5, <2>6 DEF Activates, Continues
<1> QED BY <1>5, <1>6

\* The last lock of the running frame is the newest of all, so lockPrio is
\* above what was in force before it.
LEMMA NewestLock ==
    ASSUME SInv, Top.locks # << >>, NEW m, m = Len(Top.locks),
           NEW st, st = Top.locks[m]
    PROVE  /\ Last(Top.locks) = st /\ st \in Statuses
           /\ Front(Top.locks) \in Seq(Statuses)
           /\ st.prev # NoChange => lockPrio > st.prev
<1>1. Top.locks \in Seq(Statuses) /\ m \in Nat /\ m >= 1
  BY StackFacts, LenProperties, EmptySeq DEF Frames
<1>2. st \in Statuses
  <2>1. m \in 1 .. m
    BY <1>1
  <2> QED BY <2>1, <1>1, ElementOfSeq
<1>3. Last(Top.locks) = st
  BY DEF Last
<1>4. Front(Top.locks) \in Seq(Statuses)
  <2>1. Front(Top.locks) = SubSeq(Top.locks, 1, m - 1)
    BY DEF Front
  <2>2. 1 \in 1 .. m + 1 /\ m - 1 \in 1 - 1 .. m
    BY <1>1
  <2> QED BY <2>1, <2>2, <1>1, SubSeqProperties
<1> DEFINE x == [frame |-> Len(stack), nr |-> m, stat |-> st, prio |-> Top.prio]
<1>9. x.stat = st
  OBVIOUS
<1>n. x \in Locks /\ \A y \in Locks : y = x \/ Older(y, x)
  <2> DEFINE n == Len(stack)
  <2>1. n \in Nat /\ n >= 1 /\ Top = stack[n] /\ stack \in Seq(Frames)
    BY StackFacts DEF SInv, TypeOK
  <2>2. \A i, j : Holds(stack, i, j) <=> i \in 1 .. n /\ j \in 1 .. Len(stack[i].locks)
    BY DEF Holds
  <2>3. m = Len(stack[n].locks) /\ x = LockAt(stack, n, m)
    BY <2>1 DEF LockAt
  <2>x. x.frame = n /\ x.nr = m
    OBVIOUS
  <2> HIDE DEF n, x
  <2>4. x \in Locks
    <3>1. Holds(stack, n, m)
      BY <2>1, <2>2, <2>3, <1>1
    <3> QED BY <3>1, <2>1, <2>3, LocksMembers DEF LockList
  <2>5. ASSUME NEW y \in Locks PROVE y = x \/ Older(y, x)
    <3>1. PICK i, j : Holds(stack, i, j) /\ y = LockAt(stack, i, j)
      BY <2>1, LocksMembers DEF LockList
    <3>2. i \in 1 .. n /\ j \in 1 .. Len(stack[i].locks) /\ y.frame = i /\ y.nr = j
      BY <3>1, <2>2 DEF LockAt
    <3>3. CASE i # n
      <4>1. i < n
        BY <3>2, <3>3, <2>1
      <4> QED BY <4>1, <3>2, <2>x DEF Older
    <3>4. CASE i = n /\ j # m
      <4>1. j < m
        BY <3>2, <3>4, <2>3, <1>1
      <4> QED BY <4>1, <3>2, <3>4, <2>x DEF Older
    <3>5. CASE i = n /\ j = m
      BY <3>1, <3>5, <2>3
    <3> QED BY <3>3, <3>4, <3>5
  <2> QED BY <2>4, <2>5
<1>5. ASSUME st.prev # NoChange PROVE lockPrio > st.prev
  <2> HIDE DEF x
  <2>1. lockPrio = x.stat.ceiling /\ x.stat.ceiling > x.stat.prev
    BY <1>5, <1>9, <1>n, NewestInForce
  <2> QED BY <2>1, <1>9
<1> QED BY <1>2, <1>3, <1>4, <1>5

\* A frame that gives back the last lock of the running frame; what that lock
\* changed is restored.
Releases(g) ==
    /\ Top.locks # << >> /\ g.locks = Front(Top.locks)
    /\ \/ /\ Last(Top.locks).prev = NoChange
          /\ stack' = SetTop(g) /\ UNCHANGED <<lockPrio, lockHolder, actPrio>>
       \/ /\ Last(Top.locks).prev # NoChange
          /\ lockPrio' = Last(Top.locks).prev
          /\ lockHolder' = Last(Top.locks).holder
          /\ Schedule(SetTop(g), readySet, Last(Top.locks).prev)

\* The frames and the locks after that.
LEMMA UnlockStructure ==
    ASSUME SInv, NEW g, Proper(g), Releases(g),
           active' = active, readySet' = readySet, isr = 0, ~pendSV
    PROVE  /\ Structure' /\ lockPrio' \in 0 .. MAX_ACTIVE /\ lockHolder' \in 0 .. MAX_ACTIVE
           /\ Activates(g) /\ Settled'
<1> DEFINE m == Len(Top.locks)
           st == Top.locks[m]
<1>1. Top.locks # << >> /\ g.locks = Front(Top.locks)
  BY DEF Releases
<1>2. Last(Top.locks) = st /\ st \in Statuses
  BY <1>1, NewestLock
<1>5. g \in Frames
  BY DEF Proper, Fits
<1>6. g.locks = Front(Top.locks) /\ g.prio = Top.prio /\ g.pin = Top.pin
  BY <1>1 DEF Proper, Fits
<1>7. Proper(g) /\ Sound(g)
  BY DEF Proper
<1> DEFINE x == [frame |-> Len(stack), nr |-> m, stat |-> st, prio |-> Top.prio]
<1>8. Continues(g) => Locks = Locks' \cup {x} /\ \A y \in Locks' : Older(y, x)
  BY <1>1, <1>5, <1>6, RemovedLock
<1>9. x.stat = st
  OBVIOUS
<1>q. /\ readySet \subseteq Prios /\ active \in [Prios -> Objs \cup {NULL}]
      /\ lockPrio \in 0 .. MAX_ACTIVE /\ lockHolder \in 0 .. MAX_ACTIVE
  BY DEF SInv, TypeOK
<1>10. CASE st.prev = NoChange
  <2>1. stack' = SetTop(g) /\ UNCHANGED <<lockPrio, lockHolder, actPrio>>
    BY <1>2, <1>10 DEF Releases
  <2>2. Replaced(g)
    BY <2>1, <1>5, SetTopReplaced
  <2>3. Continues(g) /\ Activates(g)
    BY <2>1, <2>2 DEF Continues, Activates
  <2>4. /\ stack' \in Seq(Frames) /\ stack' # << >> /\ actPrio' \in 0 .. MAX_ACTIVE
        /\ FramesSound' /\ MainLowest' /\ StackNested'
    BY <2>3, <1>7, ContinuesStack DEF Proper, Fits
  <2>5. stack'[1].at = "idle" <=> stack[1].at = "idle"
    BY <2>3, <1>7, IdleKept
  <2>6. LocksNested' /\ LockChain'
    <3> HIDE DEF x
    <3> QED BY <2>1, <2>3, <2>5, <1>8, <1>9, <1>10, UnlockIdleNested
  <2>7. Cleared'
    BY <2>1, <2>3, <2>6, <1>q, <1>5, <1>6, ContinuesCleared
  <2>8. Settled'
    BY <2>1 DEF Settled, SInv, Scheduling
  <2> QED BY <2>1, <2>3, <2>4, <2>6, <2>7, <2>8, <1>q DEF Structure
<1>11. CASE st.prev # NoChange
  <2>t. st.prev \in 0 .. MAX_ACTIVE /\ st.holder \in 0 .. MAX_ACTIVE
    BY <1>2, <1>11 DEF Statuses
  <2>1. /\ lockPrio' = st.prev /\ lockHolder' = st.holder
        /\ Schedule(SetTop(g), readySet, st.prev)
    BY <1>2, <1>11 DEF Releases
  <2>3. Continues(g) /\ Activates(g) /\ Settled'
    BY <2>1, <2>t, <1>5, <1>q, ScheduleShape
  <2>4. /\ stack' \in Seq(Frames) /\ stack' # << >> /\ actPrio' \in 0 .. MAX_ACTIVE
        /\ FramesSound' /\ MainLowest' /\ StackNested'
    BY <2>3, <1>7, ContinuesStack DEF Proper, Fits
  <2>5. stack'[1].at = "idle" <=> stack[1].at = "idle"
    BY <2>3, <1>7, IdleKept
  <2>6. LocksNested' /\ LockChain'
    <3> HIDE DEF x
    <3> QED BY <2>1, <2>3, <2>5, <1>8, <1>9, <1>11, UnlockNested
  <2>7. Cleared'
    BY <2>1, <2>t, <2>3, <2>6, <1>5, <1>6, ContinuesCleared
  <2> QED BY <2>1, <2>t, <2>3, <2>4, <2>6, <2>7 DEF Structure
<1> QED BY <1>10, <1>11

-----------------------------------------------------------------------------
(***************************************************************************)
(* Every step keeps the invariant.                                         *)
(***************************************************************************)
OtherTypes ==
    /\ active \in [Prios -> Objs \cup {NULL}]
    /\ nEvts \in [Objs -> 0 .. QLen]
    /\ hsm \in [Objs -> {"new", "init", "stable", "stopped"}]
    /\ subscrList \subseteq Prios /\ readySet \subseteq Prios
    /\ nextPrio \in 0 .. MAX_ACTIVE
    /\ isr \in Nat /\ pendSV \in BOOLEAN

LockTypes == lockPrio \in 0 .. MAX_ACTIVE /\ lockHolder \in 0 .. MAX_ACTIVE

\* The parts that the steps below keep make up the invariant.
LEMMA SInvParts == SInv => /\ OtherTypes /\ LockTypes /\ Structure /\ Scheduling
                           /\ NoLockAssertion
BY DEF SInv, TypeOK, OtherTypes, LockTypes, Structure

\* The same in the next state.
LEMMA SInvNext ==
    ASSUME OtherTypes', LockTypes', Structure', Scheduling', NoLockAssertion'
    PROVE  SInv'
<1>1. TypeOK'
  BY DEF OtherTypes, LockTypes, Structure, TypeOK
<1> QED BY <1>1 DEF SInv, Structure

\* No interrupt is pending while a thread runs.
LEMMA ThreadScheduling ==
    ASSUME Settled', isr' = isr, pendSV' = pendSV, ~pendSV
    PROVE  Scheduling'
BY Zenon DEF Settled, Scheduling

\* When a thread runs, the highest priority allowed to run is running.
LEMMA SettledBefore ==
    ASSUME SInv, ThreadRuns
    PROVE  Settled
BY Zenon DEF Settled, SInv, Scheduling, ThreadRuns

\* A step of the running frame that takes and releases no lock.
LEMMA ThreadStep ==
    ASSUME SInv, ThreadRuns, NEW f, Proper(f), f.locks = Top.locks, Activates(f),
           OtherTypes', Settled', asrt' \notin {"unlock700", "activate800"},
           UNCHANGED <<lockPrio, lockHolder, isr, pendSV>>
    PROVE  SInv'
<1>1. Continues(f)
  BY ActivatesContinues DEF OtherTypes
<1>2. Structure'
  BY <1>1, ContinuesStructure
<1>3. LockTypes'
  BY SInvParts DEF LockTypes
<1>4. Scheduling'
  BY ThreadScheduling DEF ThreadRuns
<1>5. NoLockAssertion'
  BY DEF NoLockAssertion
<1> QED BY <1>2, <1>3, <1>4, <1>5, SInvNext

\* A step of the running frame that changes nothing the scheduler looks at.
LEMMA QuietStep ==
    ASSUME SInv, ThreadRuns, NEW f, Proper(f), f.locks = Top.locks, stack' = SetTop(f),
           OtherTypes', asrt' \notin {"unlock700", "activate800"},
           UNCHANGED <<readySet, actPrio, lockPrio, lockHolder, isr, pendSV>>
    PROVE  SInv' /\ Replaced(f)
<1>1. Replaced(f)
  BY SetTopReplaced DEF Proper, Fits
<1>2. Activates(f)
  BY <1>1 DEF Activates
<1>3. Settled'
  BY SettledBefore DEF Settled
<1> QED BY <1>1, <1>2, <1>3, ThreadStep

\* An assertion that halts the system, or a step that leaves the frames.
LEMMA StillStep ==
    ASSUME SInv, ThreadRuns, OtherTypes', asrt' \notin {"unlock700", "activate800"},
           UNCHANGED <<stack, readySet, actPrio, lockPrio, lockHolder, isr, pendSV>>
    PROVE  SInv'
<1>1. Replaced(Top)
  BY UnchangedReplaced
<1>2. Activates(Top)
  BY <1>1 DEF Activates
<1>3. Proper(Top)
  BY StackFacts DEF Proper, Fits
<1>4. Settled'
  BY SettledBefore DEF Settled
<1> QED BY <1>2, <1>3, <1>4, ThreadStep

\* What the updates of the running frame leave of it.
LEMMA Spent ==
    ASSUME SInv, Top.at \in {"rtc", "init", "stop"}
    PROVE  /\ Proper(Spend(Top)) /\ Spend(Top).locks = Top.locks
           /\ Spend(Top).at = Top.at /\ Spend(Top).obj = Top.obj
           /\ Spend(Top).child = Top.child
<1>1. Top \in Frames /\ Sound(Top)
  BY StackFacts
<1>2. Spend(Top) \in Frames
  BY <1>1 DEF Spend, Frames
<1>3. /\ Spend(Top).locks = Top.locks /\ Spend(Top).at = Top.at
      /\ Spend(Top).prio = Top.prio /\ Spend(Top).pin = Top.pin
      /\ Spend(Top).obj = Top.obj /\ Spend(Top).child = Top.child
  BY <1>1 DEF Spend, Frames
<1>4. Sound(Spend(Top))
  BY <1>1, <1>3 DEF Sound
<1> QED BY <1>2, <1>3, <1>4 DEF Proper, Fits

\* A post from a thread, with the scheduling that it ends with.
LEMMA PostStep ==
    ASSUME SInv, ThreadRuns, NEW f, Proper(f), f.locks = Top.locks, NEW o \in Objs,
           nEvts[o] < QLen, PostFrom(SetTop(f), o),
           UNCHANGED <<qf, nextPrio, lockPrio, lockHolder, isr, pendSV>>,
           asrt' = asrt
    PROVE  SInv' /\ Activates(f)
<1>1. OtherTypes
  BY SInvParts
<1>2. nEvts' \in [Objs -> 0 .. QLen]
  <2>1. nEvts[o] \in 0 .. QLen /\ QLen \in Nat
    BY <1>1, QKAssumption DEF OtherTypes
  <2>2. nEvts[o] + 1 \in 0 .. QLen
    BY <2>1
  <2> QED BY <2>2, <1>1 DEF OtherTypes, PostFrom
<1>3. readySet' \subseteq Prios
  BY <1>1, QKAssumption DEF OtherTypes, PostFrom
<1>4. OtherTypes'
  BY <1>1, <1>2, <1>3, Zenon DEF OtherTypes, qf
<1>5. asrt' \notin {"unlock700", "activate800"}
  BY SInvParts DEF NoLockAssertion
<1>6. CASE nEvts[o] = 0
  <2>1. Schedule(SetTop(f), readySet', lockPrio)
    BY <1>6 DEF PostFrom, Resched
  <2>2. active' \in [Prios -> Objs \cup {NULL}] /\ lockPrio \in 0 .. MAX_ACTIVE
    BY <1>4, SInvParts DEF OtherTypes, LockTypes
  <2>3. Activates(f) /\ Settled'
    BY <2>1, <2>2, <1>3, ScheduleShape DEF Proper, Fits
  <2> QED BY <2>3, <1>4, <1>5, ThreadStep
<1>7. CASE nEvts[o] # 0
  <2>1. stack' = SetTop(f) /\ UNCHANGED <<readySet, actPrio>>
    BY <1>7 DEF PostFrom
  <2>2. SInv' /\ Replaced(f)
    BY <2>1, <1>4, <1>5, QuietStep
  <2> QED BY <2>1, <2>2 DEF Activates
<1> QED BY <1>6, <1>7

\* An event handler or an initial transition posts.
LEMMA postStep ==
    ASSUME SInv, NEW o \in Objs, post(o) \/ initPost(o)
    PROVE  SInv' /\ ThreadRuns /\ Proper(Spend(Top)) /\ Activates(Spend(Top))
<1>1. /\ ThreadRuns /\ Top.at \in {"rtc", "init"} /\ nEvts[o] < QLen
      /\ PostFrom(SetTop(Spend(Top)), o)
      /\ UNCHANGED <<qf, nextPrio, lockPrio, lockHolder, isr, pendSV>>
      /\ asrt' = asrt
  BY DEF post, initPost, CallOf, At, Postable
<1>2. Proper(Spend(Top)) /\ Spend(Top).locks = Top.locks
  BY <1>1, Spent
<1> QED BY <1>1, <1>2, PostStep

\* The frame while it multicasts.
Posted == [Top EXCEPT !.todo = @ \ {Max(Top.todo)}]

\* The frame of a multicast that has posted to one more subscriber.
LEMMA PostedProper ==
    ASSUME SInv, Top.at = "multicast"
    PROVE  /\ Proper(Posted) /\ Posted.locks = Top.locks
           /\ Posted.at = Top.at /\ Posted.obj = Top.obj
<1>1. Top \in Frames /\ Sound(Top)
  BY StackFacts
<1>2. Posted \in Frames
  BY <1>1 DEF Posted, Frames
<1>3. /\ Posted.locks = Top.locks /\ Posted.at = Top.at
      /\ Posted.prio = Top.prio /\ Posted.pin = Top.pin
      /\ Posted.obj = Top.obj /\ Posted.list = Top.list
  BY <1>1 DEF Posted, Frames
<1>4. Sound(Posted)
  BY <1>1, <1>3 DEF Sound
<1> QED BY <1>2, <1>3, <1>4 DEF Proper, Fits

\* publish_ posts to one subscriber.
LEMMA multicastStep ==
    ASSUME SInv, multicast
    PROVE  /\ SInv' /\ ThreadRuns /\ Proper(Posted)
           /\ \/ UNCHANGED <<active, hsm, nEvts, readySet, actPrio, stack>> /\ asrt' # "get110"
              \/ /\ asrt' = asrt /\ Activates(Posted)
                 /\ \E p \in Prios : /\ active[p] \in Objs
                                     /\ PostFrom(SetTop(Posted), active[p])
<1>1. /\ ThreadRuns /\ Top.at = "multicast" /\ Top.todo # {}
      /\ UNCHANGED <<qf, nextPrio, lockPrio, lockHolder, isr, pendSV>>
  BY DEF multicast, At
<1>2. Proper(Posted) /\ Posted.locks = Top.locks
  BY <1>1, PostedProper
<1> DEFINE p == Max(Top.todo)
           a == active[p]
<1>3. p \in Prios /\ a \in Objs \cup {NULL}
  <2>1. Top.todo \subseteq Prios
    BY StackFacts DEF Frames
  <2>2. Top.todo \subseteq 0 .. MAX_ACTIVE /\ MAX_ACTIVE \in Nat
    BY <2>1, PrioNumbers
  <2>3. p \in Prios
    BY <2>1, <2>2, <1>1, MaxProperties
  <2> QED BY <2>3, SInvParts DEF OtherTypes
<1>4. IF a = NULL THEN asrt' = "publish210" /\ UNCHANGED <<nEvts, readySet, actPrio, stack>>
      ELSE IF nEvts[a] = QLen
      THEN asrt' = "post110" /\ UNCHANGED <<nEvts, readySet, actPrio, stack>>
      ELSE asrt' = asrt /\ PostFrom(SetTop(Posted), a)
  BY Zenon DEF multicast, Posted
<1>5. CASE a = NULL \/ nEvts[a] = QLen
  <2>1. asrt' \in {"publish210", "post110"} /\ UNCHANGED <<nEvts, readySet, actPrio, stack>>
    BY <1>4, <1>5
  <2>2. OtherTypes'
    BY <1>1, <2>1, SInvParts, Zenon DEF OtherTypes, qf
  <2>3. asrt' \notin {"unlock700", "activate800"} /\ asrt' # "get110"
    BY <2>1
  <2>4. SInv'
    BY <1>1, <2>1, <2>2, <2>3, StillStep
  <2>5. UNCHANGED <<active, hsm, nEvts, readySet, actPrio, stack>>
    BY <1>1, <2>1 DEF qf
  <2> QED BY <1>1, <1>2, <2>3, <2>4, <2>5
<1>6. CASE ~(a = NULL \/ nEvts[a] = QLen)
  <2>1. asrt' = asrt /\ PostFrom(SetTop(Posted), a)
    BY <1>4, <1>6
  <2>2. a \in Objs
    BY <1>3, <1>6
  <2>3. nEvts[a] < QLen
    <3>1. nEvts[a] \in 0 .. QLen /\ QLen \in Nat
      BY <2>2, QKAssumption, SInvParts DEF OtherTypes
    <3> QED BY <3>1, <1>6
  <2>4. SInv' /\ Activates(Posted)
    BY <1>1, <1>2, <2>1, <2>2, <2>3, PostStep
  <2> QED BY <1>1, <1>2, <1>3, <2>1, <2>2, <2>4
<1> QED BY <1>5, <1>6

\* schedLock by the handler, and by publish_.
LEMMA LockStep ==
    ASSUME SInv, ThreadRuns, NEW c \in Prios, NEW f, Fits(f), f.locks = Top.locks,
           f.at \in {"rtc", "multicast"}, f.prio = 0 => f.at \notin {"get", "stop"},
           f.at = "multicast" => \A q \in f.list : q <= c,
           Lock(f, c),
           UNCHANGED <<qf, nEvts, readySet, actPrio, nextPrio, isr, pendSV, asrt>>
    PROVE  SInv' /\ \E g : /\ Replaced(g) /\ g.prio = Top.prio /\ g.obj = f.obj
                           /\ g.at = f.at
<1> DEFINE st == IF LockNeeded(c)
                 THEN [prev |-> lockPrio, holder |-> lockHolder, ceiling |-> c]
                 ELSE [prev |-> NoChange, holder |-> 0, ceiling |-> c]
           g == [f EXCEPT !.locks = Append(@, st)]
<1>3. st \in Statuses /\ st.ceiling = c
  <2>1. lockPrio \in 0 .. MAX_ACTIVE /\ lockHolder \in 0 .. MAX_ACTIVE /\ 0 \in 0 .. MAX_ACTIVE
    BY PrioNumbers, SInvParts DEF LockTypes
  <2> QED BY <2>1 DEF Statuses
<1>4. stack' = SetTop(g)
  BY DEF Lock
<1>5. \/ /\ lockPrio < c /\ st.prev = lockPrio /\ st.holder = lockHolder
         /\ lockPrio' = c /\ lockHolder' = actPrio
      \/ /\ lockPrio >= c /\ st.prev = NoChange
         /\ lockPrio' = lockPrio /\ lockHolder' = lockHolder
  <2>1. lockPrio \in 0 .. MAX_ACTIVE /\ c \in 1 .. MAX_ACTIVE
    BY PrioNumbers, SInvParts DEF LockTypes
  <2>2. CASE LockNeeded(c)
    BY <2>2 DEF Lock, LockNeeded, TakeLock
  <2>3. CASE ~LockNeeded(c)
    <3>1. lockPrio >= c
      BY <2>1, <2>3, PrioNumbers DEF LockNeeded
    <3> QED BY <3>1, <2>3 DEF Lock
  <2> QED BY <2>2, <2>3
<1> HIDE DEF st
<1>f. f \in Frames /\ f.locks \in Seq(Statuses) /\ f.prio = Top.prio
  BY DEF Fits, Frames
<1>a. /\ Append(f.locks, st) \in Seq(Statuses)
      /\ Append(f.locks, st)[Len(Append(f.locks, st))] = st
      /\ Append(f.locks, st) # << >>
  BY <1>f, <1>3, AppendProperties
<1>6. /\ g \in Frames /\ g.at = f.at /\ g.prio = f.prio /\ g.obj = f.obj
      /\ g.list = f.list /\ g.locks = Append(f.locks, st)
  BY <1>f, <1>a DEF Frames
<1>g. g = [f EXCEPT !.locks = Append(@, st)]
  OBVIOUS
<1> HIDE DEF g
<1>7. Sound(g)
  <2>1. g.at = "multicast" => /\ g.locks # << >>
                              /\ \A q \in g.list : q <= g.locks[Len(g.locks)].ceiling
    BY <1>3, <1>6, <1>a
  <2> QED BY <2>1, <1>6 DEF Sound
<1>8. Replaced(g)
  BY <1>4, <1>6, SetTopReplaced
<1>9. Structure' /\ LockTypes'
  <2>1. actPrio' = actPrio
    OBVIOUS
  <2> QED BY <2>1, <1>g, <1>3, <1>5, <1>7, <1>8, LockStructure DEF LockTypes
<1>10. OtherTypes'
  BY SInvParts, Zenon DEF OtherTypes, qf
<1>11. Settled'
  <2>1. lockPrio' >= lockPrio /\ lockPrio \in Nat /\ lockPrio' \in Nat
    <3>1. lockPrio \in 0 .. MAX_ACTIVE /\ c \in 1 .. MAX_ACTIVE /\ MAX_ACTIVE \in Nat
      BY PrioNumbers, SInvParts DEF LockTypes
    <3> QED BY <3>1, <1>5
  <2>2. Settled /\ readySet \subseteq Prios
    BY SettledBefore, SInvParts DEF OtherTypes
  <2>3. \A p \in readySet : p \in Nat
    BY <2>2, PrioNumbers
  <2> QED BY <2>1, <2>2, <2>3 DEF Settled
<1>12. Scheduling'
  BY <1>11, ThreadScheduling DEF ThreadRuns
<1>13. NoLockAssertion'
  BY SInvParts DEF NoLockAssertion
<1> QED BY <1>6, <1>8, <1>9, <1>10, <1>12, <1>13, <1>f, SInvNext

\* schedLock raises the ceiling.
LEMMA schedLockStep ==
    ASSUME SInv, NEW c \in Ceilings, schedLock(c)
    PROVE  /\ SInv' /\ ThreadRuns
           /\ \E g : Replaced(g) /\ g.prio = Top.prio /\ g.obj = Top.obj /\ g.at = "rtc"
<1>1. /\ ThreadRuns /\ Top.at = "rtc" /\ Lock(Spend(Top), c)
      /\ UNCHANGED <<qf, nEvts, readySet, actPrio, nextPrio, isr, pendSV, asrt>>
  BY DEF schedLock, CallOf, At
<1>2. /\ Fits(Spend(Top)) /\ Spend(Top).locks = Top.locks /\ Spend(Top).at = "rtc"
      /\ Spend(Top).obj = Top.obj
  BY <1>1, Spent DEF Proper, Fits
<1>3. c \in Prios
  BY QKAssumption
<1> QED BY <1>1, <1>2, <1>3, LockStep

\* publish_ locks the scheduler.
LEMMA publishLockStep ==
    ASSUME SInv, publishLock
    PROVE  /\ SInv' /\ ThreadRuns
           /\ \E g : Replaced(g) /\ g.prio = Top.prio /\ g.obj = Top.obj /\ g.at = "multicast"
<1> DEFINE f == [Top EXCEPT !.at = "multicast"]
           c == CeilingOf(Top.list)
<1>1. /\ ThreadRuns /\ Top.at = "copied" /\ Lock(f, c)
      /\ UNCHANGED <<qf, nEvts, readySet, actPrio, nextPrio, isr, pendSV, asrt>>
  BY DEF publishLock, At
<1>2. Top \in Frames /\ Sound(Top)
  BY StackFacts
<1>3. /\ f \in Frames /\ f.locks = Top.locks /\ f.at = "multicast" /\ f.obj = Top.obj
      /\ f.list = Top.list /\ f.prio = Top.prio /\ f.pin = Top.pin
  BY <1>2 DEF Frames, Places
<1>4. Fits(f)
  BY <1>1, <1>3 DEF Fits
<1>5. c \in Prios /\ \A q \in Top.list : q <= c
  <2>1. Top.list \subseteq Prios /\ Top.list # {}
    BY <1>1, <1>2 DEF Frames, Sound
  <2>2. Top.list \subseteq 0 .. MAX_ACTIVE /\ MAX_ACTIVE \in Nat
    BY <2>1, PrioNumbers
  <2>3. c \in Top.list /\ \A q \in Top.list : c >= q
    BY <2>1, <2>2, MaxProperties DEF CeilingOf
  <2>4. \A q \in Top.list : q \in Nat
    BY <2>1, PrioNumbers
  <2> HIDE DEF c
  <2> QED BY <2>1, <2>3, <2>4
<1> HIDE DEF f, c
<1> QED BY <1>1, <1>3, <1>4, <1>5, LockStep

\* A lock is given back.
LEMMA UnlockStep ==
    ASSUME SInv, ThreadRuns, NEW g, Proper(g), Releases(g), asrt' = asrt,
           UNCHANGED <<qf, nEvts, readySet, nextPrio, isr, pendSV>>
    PROVE  SInv' /\ Activates(g)
<1>1. active' = active /\ isr = 0 /\ ~pendSV /\ readySet' = readySet
  BY DEF ThreadRuns, qf
<1>2. Structure' /\ LockTypes' /\ Activates(g) /\ Settled'
  BY <1>1, UnlockStructure DEF LockTypes
<1>3. OtherTypes'
  BY SInvParts, Zenon DEF OtherTypes, qf
<1>4. Scheduling'
  BY <1>2, ThreadScheduling DEF ThreadRuns
<1>5. NoLockAssertion'
  BY SInvParts DEF NoLockAssertion
<1> QED BY <1>2, <1>3, <1>4, <1>5, SInvNext

\* schedUnlock by the handler, and by publish_, up to its critical section:
\* the lock that it has to give back is still in force when it is read.
LEMMA ReadLockStep ==
    ASSUME SInv, ThreadRuns, NEW f, Fits(f), f.locks = Top.locks, Top.locks # << >>,
           f.at \in {"rtc", "multicast"}, ReadLock(f),
           UNCHANGED <<qf, nEvts, readySet, actPrio, nextPrio, lockPrio, lockHolder,
                       isr, pendSV, asrt>>
    PROVE  /\ SInv'
           /\ \E g : /\ Proper(g) /\ Activates(g) /\ g.obj = f.obj
                     /\ g.at \in {"rtc", "unlock"}
<1> DEFINE m == Len(Top.locks)
           st == Top.locks[m]
<1>1. /\ Last(Top.locks) = st /\ st \in Statuses
      /\ Front(Top.locks) \in Seq(Statuses)
      /\ st.prev # NoChange => lockPrio > st.prev
  BY NewestLock
<1>2. f \in Frames /\ f.prio = Top.prio /\ f.pin = Top.pin /\ Top.at # "idle"
  BY DEF Fits
<1>3. CASE st.prev = NoChange
  <2> DEFINE g == [f EXCEPT !.at = "rtc", !.locks = Front(@)]
  <2>1. /\ g \in Frames /\ g.at = "rtc" /\ g.obj = f.obj /\ g.prio = f.prio
        /\ g.pin = f.pin /\ g.locks = Front(Top.locks)
    BY <1>1, <1>2 DEF Frames, Places
  <2>2. stack' = SetTop(g)
    BY <1>1, <1>3 DEF ReadLock
  <2> HIDE DEF g, m
  <2>3. Proper(g)
    BY <1>2, <2>1 DEF Proper, Fits, Sound
  <2>4. Releases(g)
    BY <1>1, <1>3, <2>1, <2>2 DEF Releases
  <2> QED BY <2>1, <2>3, <2>4, UnlockStep
<1>4. CASE st.prev # NoChange
  <2> DEFINE g == [f EXCEPT !.at = "unlock", !.seen = lockPrio]
  <2>1. lockPrio \in 0 .. MAX_ACTIVE
    BY SInvParts DEF LockTypes
  <2>2. /\ g \in Frames /\ g.at = "unlock" /\ g.obj = f.obj /\ g.prio = f.prio
        /\ g.pin = f.pin /\ g.locks = Top.locks /\ g.seen = lockPrio
    BY <1>2, <2>1 DEF Frames, Places
  <2>3. stack' = SetTop(g)
    BY <1>1, <1>4 DEF ReadLock
  <2> HIDE DEF g
  <2>4. Proper(g)
    BY <1>1, <1>2, <1>4, <2>2 DEF Proper, Fits, Sound
  <2>5. OtherTypes' /\ asrt' \notin {"unlock700", "activate800"}
    <3>1. OtherTypes'
      BY SInvParts, Zenon DEF OtherTypes, qf
    <3> QED BY <3>1, SInvParts DEF NoLockAssertion
  <2>6. SInv' /\ Replaced(g)
    BY <2>2, <2>3, <2>4, <2>5, QuietStep
  <2>7. Activates(g)
    BY <2>6 DEF Activates
  <2> QED BY <2>2, <2>4, <2>6, <2>7
<1> QED BY <1>3, <1>4

\* schedUnlock reads lockPrio, ...
LEMMA schedUnlockStep ==
    ASSUME SInv, schedUnlock
    PROVE  /\ SInv' /\ ThreadRuns /\ asrt' = asrt
           /\ \E g : /\ Proper(g) /\ Activates(g) /\ g.obj = Top.obj
                     /\ g.at \in {"rtc", "unlock"}
<1>1. /\ ThreadRuns /\ Top.at = "rtc" /\ Top.locks # << >> /\ ReadLock(Top)
      /\ UNCHANGED <<qf, nEvts, readySet, actPrio, nextPrio, lockPrio, lockHolder,
                     isr, pendSV, asrt>>
  BY DEF schedUnlock, At
<1>2. Fits(Top)
  BY StackFacts DEF Fits
<1> QED BY <1>1, <1>2, ReadLockStep

\* ... lowers the ceiling and activates what waited for it.
LEMMA restoreLockStep ==
    ASSUME SInv, restoreLock
    PROVE  /\ SInv' /\ ThreadRuns /\ asrt' = asrt
           /\ \E g : Proper(g) /\ Activates(g) /\ g.obj = Top.obj /\ g.at = "rtc"
<1> DEFINE m == Len(Top.locks)
           st == Top.locks[m]
           g == [Top EXCEPT !.at = "rtc", !.locks = Front(@), !.seen = 0]
<1>1. /\ ThreadRuns /\ Top.at = "unlock" /\ Unlock(Top)
      /\ UNCHANGED <<qf, nEvts, readySet, nextPrio, isr, pendSV>>
  BY DEF restoreLock, At
<1>2. Top \in Frames /\ Sound(Top)
  BY StackFacts
<1>3. Top.locks # << >> /\ st.prev # NoChange /\ Top.seen > st.prev
  BY <1>1, <1>2 DEF Sound
<1>4. Last(Top.locks) = st /\ Front(Top.locks) \in Seq(Statuses)
  BY <1>3, NewestLock
<1>5. /\ g \in Frames /\ g.at = "rtc" /\ g.obj = Top.obj /\ g.prio = Top.prio
      /\ g.pin = Top.pin /\ g.locks = Front(Top.locks)
  <2>1. 0 \in 0 .. MAX_ACTIVE
    BY PrioNumbers
  <2> QED BY <1>2, <1>4, <2>1 DEF Frames, Places
<1>6. /\ lockPrio' = st.prev /\ lockHolder' = st.holder /\ asrt' = asrt
      /\ Schedule(SetTop(g), readySet, st.prev)
  BY <1>1, <1>3, <1>4 DEF Unlock
<1> HIDE DEF g
<1>7. Proper(g)
  BY <1>1, <1>5 DEF Proper, Fits, Sound
<1>8. Releases(g)
  BY <1>3, <1>4, <1>5, <1>6 DEF Releases
<1> QED BY <1>1, <1>5, <1>6, <1>7, <1>8, UnlockStep

\* publish_ begins to unlock the scheduler.
LEMMA publishUnlockStep ==
    ASSUME SInv, publishUnlock
    PROVE  /\ SInv' /\ ThreadRuns /\ asrt' = asrt
           /\ \E g : /\ Proper(g) /\ Activates(g) /\ g.obj = Top.obj
                     /\ g.at \in {"rtc", "unlock"}
<1> DEFINE f == [Top EXCEPT !.list = {}]
<1>1. /\ ThreadRuns /\ Top.at = "multicast" /\ ReadLock(f)
      /\ UNCHANGED <<qf, nEvts, readySet, actPrio, nextPrio, lockPrio, lockHolder,
                     isr, pendSV, asrt>>
  BY DEF publishUnlock, At
<1>2. Top \in Frames /\ Sound(Top)
  BY StackFacts
<1>3. Top.locks # << >>
  BY <1>1, <1>2 DEF Sound
<1>4. /\ f \in Frames /\ f.locks = Top.locks /\ f.at = Top.at /\ f.obj = Top.obj
      /\ f.prio = Top.prio /\ f.pin = Top.pin
  BY <1>2 DEF Frames
<1> HIDE DEF f
<1>5. Fits(f)
  BY <1>4 DEF Fits
<1> QED BY <1>1, <1>3, <1>4, <1>5, ReadLockStep

\* publish_ without subscribers, or with the copy of their list.
LEMMA publish_Step ==
    ASSUME SInv, publish_
    PROVE  /\ SInv' /\ ThreadRuns
           /\ \E g : /\ Replaced(g) /\ g.prio = Top.prio /\ g.obj = Top.obj
                     /\ g.at \in {"rtc", "copied"}
<1> DEFINE f == IF subscrList = {} THEN Spend(Top)
                ELSE [Spend(Top) EXCEPT !.at = "copied",
                      !.list = subscrList, !.todo = subscrList]
<1>1. /\ ThreadRuns /\ Top.at = "rtc" /\ stack' = SetTop(f)
      /\ UNCHANGED <<qf, nEvts, readySet, actPrio, nextPrio, lockPrio, lockHolder,
                     isr, pendSV, asrt>>
  BY DEF publish_, CallOf, At
<1>2. /\ Proper(Spend(Top)) /\ Spend(Top).locks = Top.locks /\ Spend(Top).at = "rtc"
      /\ Spend(Top).obj = Top.obj
  BY <1>1, Spent
<1>3. subscrList \subseteq Prios
  BY SInvParts DEF OtherTypes
<1>4. /\ f \in Frames /\ f.locks = Top.locks /\ f.at \in {"rtc", "copied"} /\ f.obj = Top.obj
      /\ f.prio = Top.prio /\ f.pin = Top.pin /\ (f.at = "copied" => f.list # {})
  <2>1. CASE subscrList = {}
    BY <1>2, <2>1 DEF Proper, Fits
  <2>2. CASE subscrList # {}
    <3> DEFINE h == Spend(Top)
    <3>1. /\ h \in Frames /\ h.locks = Top.locks /\ h.obj = Top.obj
          /\ h.prio = Top.prio /\ h.pin = Top.pin
      BY <1>2 DEF Proper, Fits
    <3>2. f = [h EXCEPT !.at = "copied", !.list = subscrList, !.todo = subscrList]
      BY <2>2
    <3> HIDE DEF h, f
    <3> QED BY <3>1, <3>2, <2>2, <1>3 DEF Frames, Places
  <2> QED BY <2>1, <2>2
<1> HIDE DEF f
<1>5. Proper(f)
  BY <1>1, <1>4 DEF Proper, Fits, Sound
<1>6. OtherTypes'
  BY <1>1, SInvParts, Zenon DEF OtherTypes, qf
<1>7. asrt' \notin {"unlock700", "activate800"}
  BY <1>1, SInvParts DEF NoLockAssertion
<1>8. SInv' /\ Replaced(f)
  BY <1>1, <1>4, <1>5, <1>6, <1>7, QuietStep
<1> QED BY <1>1, <1>4, <1>8

\* An event handler subscribes or unsubscribes.
LEMMA subscribeStep ==
    ASSUME SInv, subscribe \/ unsubscribe
    PROVE  /\ SInv' /\ ThreadRuns /\ Top.at = "rtc"
           /\ \E g : Replaced(g) /\ g.prio = Top.prio /\ g.obj = Top.obj /\ g.at = "rtc"
<1>1. /\ ThreadRuns /\ Top.at = "rtc" /\ stack' = SetTop(Spend(Top)) /\ Top.prio > 0
      /\ subscrList' \subseteq subscrList \cup {Top.prio}
      /\ UNCHANGED <<active, hsm, nEvts, readySet, actPrio, nextPrio, lockPrio, lockHolder,
                     isr, pendSV, asrt>>
  BY DEF subscribe, unsubscribe, CallOf, At
<1>2. /\ Proper(Spend(Top)) /\ Spend(Top).locks = Top.locks /\ Spend(Top).at = "rtc"
      /\ Spend(Top).obj = Top.obj
  BY <1>1, Spent
<1>3. Top.prio \in Prios
  <2>1. Top.prio \in 0 .. MAX_ACTIVE
    BY StackFacts DEF Frames
  <2> QED BY <2>1, <1>1, PrioNumbers DEF Prios
<1>4. subscrList' \subseteq Prios
  BY <1>1, <1>3, SInvParts DEF OtherTypes
<1>5. OtherTypes'
  BY <1>1, <1>4, SInvParts, Zenon DEF OtherTypes
<1>6. asrt' \notin {"unlock700", "activate800"}
  BY <1>1, SInvParts DEF NoLockAssertion
<1>7. SInv' /\ Replaced(Spend(Top))
  BY <1>1, <1>2, <1>5, <1>6, QuietStep
<1> QED BY <1>1, <1>2, <1>7 DEF Proper, Fits

\* An initial transition subscribes.
LEMMA initSubscribeStep ==
    ASSUME SInv, initSubscribe
    PROVE  SInv' /\ ThreadRuns
<1>1. /\ ThreadRuns /\ Top.at = "init"
      /\ subscrList' = subscrList \cup {PrioOf[Top.child]}
      /\ UNCHANGED <<active, hsm, nEvts, readySet, actPrio, nextPrio, lockPrio,
                     lockHolder, stack, isr, pendSV, asrt>>
  BY DEF initSubscribe, At
<1>2. Top.child \in Objs
  BY <1>1, StackFacts DEF Sound
<1>3. subscrList' \subseteq Prios
  BY <1>1, <1>2, QKAssumption, SInvParts DEF OtherTypes
<1>4. OtherTypes'
  BY <1>1, <1>3, SInvParts, Zenon DEF OtherTypes
<1>5. asrt' \notin {"unlock700", "activate800"}
  BY <1>1, SInvParts DEF NoLockAssertion
<1> QED BY <1>1, <1>4, <1>5, StillStep

\* start() registers the object.
LEMMA startStep ==
    ASSUME SInv, NEW o \in Objs, start(o)
    PROVE  /\ SInv' /\ ThreadRuns
           /\ \E g : Replaced(g) /\ g.prio = Top.prio /\ g.obj = Top.obj /\ g.at = "init"
<1> DEFINE f == [Top EXCEPT !.at = "init", !.child = o,
                 !.fuel = IF Top.prio = 0 THEN @ ELSE @ - 1]
<1>1. /\ ThreadRuns /\ Top.at = "rtc" /\ stack' = SetTop(f)
      /\ nEvts' = [nEvts EXCEPT ![o] = 0]
      /\ active' = [active EXCEPT ![PrioOf[o]] = o]
      /\ hsm' = [hsm EXCEPT ![o] = "init"]
      /\ UNCHANGED <<subscrList, readySet, actPrio, nextPrio, lockPrio,
                     lockHolder, isr, pendSV, asrt>>
  BY DEF start, CallOf, At
<1>2. Top \in Frames
  BY StackFacts
<1>3. /\ f \in Frames /\ f.locks = Top.locks /\ f.at = "init" /\ f.obj = Top.obj
      /\ f.prio = Top.prio /\ f.pin = Top.pin /\ f.child = o
  <2> DEFINE u == IF Top.prio = 0 THEN Top.fuel ELSE Top.fuel - 1
  <2>1. u \in Int /\ f = [Top EXCEPT !.at = "init", !.child = o, !.fuel = u]
    BY <1>2 DEF Frames
  <2> HIDE DEF u, f
  <2> QED BY <2>1, <1>2 DEF Frames, Places
<1> HIDE DEF f
<1>4. Proper(f)
  BY <1>1, <1>3 DEF Proper, Fits, Sound
<1>5. OtherTypes'
  <2>0. OtherTypes
    BY SInvParts
  <2>1. active' \in [Prios -> Objs \cup {NULL}]
    BY <2>0, <1>1 DEF OtherTypes
  <2>2. nEvts' \in [Objs -> 0 .. QLen]
    <3>1. 0 \in 0 .. QLen
      BY QKAssumption
    <3> QED BY <3>1, <2>0, <1>1 DEF OtherTypes
  <2>3. hsm' \in [Objs -> {"new", "init", "stable", "stopped"}]
    BY <2>0, <1>1 DEF OtherTypes
  <2> QED BY <2>0, <2>1, <2>2, <2>3, <1>1, Zenon DEF OtherTypes
<1>6. asrt' \notin {"unlock700", "activate800"}
  BY <1>1, SInvParts DEF NoLockAssertion
<1>7. SInv' /\ Replaced(f)
  BY <1>1, <1>3, <1>4, <1>5, <1>6, QuietStep
<1> QED BY <1>1, <1>3, <1>7

\* start() ends with the scheduler.
LEMMA startSchedStep ==
    ASSUME SInv, startSched
    PROVE  /\ SInv' /\ ThreadRuns
           /\ \E g : Proper(g) /\ Activates(g) /\ g.obj = Top.obj /\ g.at = "rtc"
<1> DEFINE f == [Top EXCEPT !.at = "rtc", !.child = NULL]
<1>1. /\ ThreadRuns /\ Top.at = "init"
      /\ hsm' = [hsm EXCEPT ![Top.child] = "stable"]
      /\ UNCHANGED <<active, subscrList, nEvts, readySet, nextPrio, lockPrio,
                     lockHolder, isr, pendSV, asrt>>
      /\ Schedule(SetTop(f), readySet, lockPrio)
  BY DEF startSched, At, InitReturns
<1>2. Top \in Frames
  BY StackFacts
<1>3. /\ f \in Frames /\ f.locks = Top.locks /\ f.at = "rtc" /\ f.obj = Top.obj
      /\ f.prio = Top.prio /\ f.pin = Top.pin
  BY <1>2 DEF Frames, Places
<1> HIDE DEF f
<1>4. Proper(f)
  BY <1>1, <1>3 DEF Proper, Fits, Sound
<1>5. OtherTypes'
  <2>0. OtherTypes
    BY SInvParts
  <2>1. hsm' \in [Objs -> {"new", "init", "stable", "stopped"}]
    BY <2>0, <1>1 DEF OtherTypes
  <2> QED BY <2>0, <2>1, <1>1, Zenon DEF OtherTypes
<1>6. asrt' \notin {"unlock700", "activate800"}
  BY <1>1, SInvParts DEF NoLockAssertion
<1>7. Activates(f) /\ Settled'
  <2>1. /\ readySet \subseteq Prios /\ readySet' = readySet /\ lockPrio' = lockPrio
        /\ lockPrio \in 0 .. MAX_ACTIVE /\ active' \in [Prios -> Objs \cup {NULL}]
    BY <1>1, <1>5, SInvParts DEF OtherTypes, LockTypes
  <2> QED BY <2>1, <1>1, <1>3, ScheduleShape
<1>8. SInv'
  BY <1>1, <1>3, <1>4, <1>5, <1>6, <1>7, ThreadStep
<1> QED BY <1>1, <1>3, <1>4, <1>7, <1>8

\* stop() unregisters the object.
LEMMA stopStep ==
    ASSUME SInv, stop
    PROVE  /\ SInv' /\ ThreadRuns
           /\ \E g : Replaced(g) /\ g.prio = Top.prio /\ g.obj = Top.obj /\ g.at = "stop"
<1> DEFINE f == [Top EXCEPT !.at = "stop"]
<1>1. /\ ThreadRuns /\ Top.at = "rtc" /\ Top.prio > 0 /\ stack' = SetTop(f)
      /\ active' = [active EXCEPT ![Top.prio] = NULL]
      /\ hsm' = [hsm EXCEPT ![Top.obj] = "stopped"]
      /\ UNCHANGED <<subscrList, nEvts, readySet, actPrio, nextPrio, lockPrio,
                     lockHolder, isr, pendSV, asrt>>
  BY DEF stop, CallOf, At
<1>2. Top \in Frames
  BY StackFacts
<1>3. /\ f \in Frames /\ f.locks = Top.locks /\ f.at = "stop" /\ f.obj = Top.obj
      /\ f.prio = Top.prio /\ f.pin = Top.pin
  BY <1>2 DEF Frames, Places
<1> HIDE DEF f
<1>4. Proper(f)
  BY <1>1, <1>3 DEF Proper, Fits, Sound
<1>5. OtherTypes'
  <2>0. OtherTypes
    BY SInvParts
  <2>1. active' \in [Prios -> Objs \cup {NULL}]
    BY <2>0, <1>1 DEF OtherTypes
  <2>3. hsm' \in [Objs -> {"new", "init", "stable", "stopped"}]
    BY <2>0, <1>1 DEF OtherTypes
  <2> QED BY <2>0, <2>1, <2>3, <1>1, Zenon DEF OtherTypes
<1>6. asrt' \notin {"unlock700", "activate800"}
  BY <1>1, SInvParts DEF NoLockAssertion
<1>7. SInv' /\ Replaced(f)
  BY <1>1, <1>3, <1>4, <1>5, <1>6, QuietStep
<1> QED BY <1>1, <1>3, <1>7

\* stop() ends with the scheduler.
LEMMA stopSchedStep ==
    ASSUME SInv, stopSched
    PROVE  /\ SInv' /\ ThreadRuns
           /\ \E g : Proper(g) /\ Activates(g) /\ g.obj = Top.obj /\ g.at = "rtc"
<1> DEFINE f == [Spend(Top) EXCEPT !.at = "rtc"]
<1>1. /\ ThreadRuns /\ Top.at = "stop" /\ readySet' = readySet \ {Top.prio}
      /\ UNCHANGED <<qf, nEvts, nextPrio, lockPrio, lockHolder, isr, pendSV, asrt>>
      /\ Schedule(SetTop(f), readySet', lockPrio)
  BY DEF stopSched, At, NotReady
<1>3. /\ f \in Frames /\ f.locks = Top.locks /\ f.at = "rtc" /\ f.obj = Top.obj
      /\ f.prio = Top.prio /\ f.pin = Top.pin
  <2> DEFINE h == Spend(Top)
  <2>1. /\ h \in Frames /\ h.locks = Top.locks /\ h.obj = Top.obj
        /\ h.prio = Top.prio /\ h.pin = Top.pin
    BY <1>1, Spent DEF Proper, Fits
  <2>2. f = [h EXCEPT !.at = "rtc"]
    OBVIOUS
  <2> HIDE DEF h, f
  <2> QED BY <2>1, <2>2 DEF Frames, Places
<1> HIDE DEF f
<1>4. Proper(f)
  BY <1>1, <1>3 DEF Proper, Fits, Sound
<1>5. OtherTypes'
  <2>0. OtherTypes
    BY SInvParts
  <2>1. readySet' \subseteq Prios
    BY <2>0, <1>1 DEF OtherTypes
  <2> QED BY <2>0, <2>1, <1>1, Zenon DEF OtherTypes, qf
<1>6. asrt' \notin {"unlock700", "activate800"}
  BY <1>1, SInvParts DEF NoLockAssertion
<1>7. Activates(f) /\ Settled'
  <2>1. /\ readySet' \subseteq Prios /\ lockPrio' = lockPrio
        /\ lockPrio \in 0 .. MAX_ACTIVE /\ active' \in [Prios -> Objs \cup {NULL}]
    BY <1>1, <1>5, SInvParts DEF OtherTypes, LockTypes
  <2> QED BY <2>1, <1>1, <1>3, ScheduleShape
<1>8. SInv'
  BY <1>1, <1>3, <1>4, <1>5, <1>6, <1>7, ThreadStep
<1> QED BY <1>1, <1>3, <1>4, <1>7, <1>8

\* The activator takes an event, or asserts.
LEMMA get_Step ==
    ASSUME SInv, get_
    PROVE  /\ SInv' /\ ThreadRuns /\ Top.at = "get" /\ Top.prio > 0
           /\ \/ stack' = stack
              \/ \E g : Replaced(g) /\ g.prio = Top.prio /\ g.obj = Top.obj /\ g.at = "rtc"
<1> DEFINE f == [Top EXCEPT !.at = "rtc", !.fuel = Fuel]
<1>1. /\ ThreadRuns /\ Top.at = "get"
      /\ UNCHANGED <<qf, readySet, actPrio, nextPrio, lockPrio, lockHolder, isr, pendSV>>
      /\ \/ asrt' \in {"get110", "dispatch400"} /\ UNCHANGED <<nEvts, stack>>
         \/ /\ nEvts[Top.obj] # 0 /\ nEvts' = [nEvts EXCEPT ![Top.obj] = @ - 1]
            /\ stack' = SetTop(f) /\ asrt' = asrt
  BY DEF get_, At
<1>2. Top \in Frames /\ Sound(Top)
  BY StackFacts
<1>3. /\ f \in Frames /\ f.locks = Top.locks /\ f.at = "rtc" /\ f.obj = Top.obj
      /\ f.prio = Top.prio /\ f.pin = Top.pin
  <2>1. Fuel \in Int
    BY QKAssumption
  <2> QED BY <2>1, <1>2 DEF Frames, Places
<1>p. Top.prio > 0
  <2>1. Top.prio \in 0 .. MAX_ACTIVE /\ Top.prio # 0
    BY <1>1, <1>2 DEF Frames, Sound
  <2> QED BY <2>1
<1> HIDE DEF f
<1>4. Proper(f)
  BY <1>1, <1>3 DEF Proper, Fits, Sound
<1>5. OtherTypes'
  <2>0. OtherTypes
    BY SInvParts
  <2>1. nEvts' \in [Objs -> 0 .. QLen]
    <3>1. CASE nEvts[Top.obj] # 0 /\ nEvts' = [nEvts EXCEPT ![Top.obj] = @ - 1]
      <4>1. Top.obj \in Objs => nEvts[Top.obj] - 1 \in 0 .. QLen
        BY <2>0, <3>1, QKAssumption DEF OtherTypes
      <4> QED BY <2>0, <3>1, <4>1 DEF OtherTypes
    <3>2. CASE nEvts' = nEvts
      BY <2>0, <3>2 DEF OtherTypes
    <3> QED BY <3>1, <3>2, <1>1
  <2> QED BY <2>0, <2>1, <1>1, Zenon DEF OtherTypes, qf
<1>6. asrt' \notin {"unlock700", "activate800"}
  BY <1>1, SInvParts DEF NoLockAssertion
<1>7. CASE stack' = stack
  BY <1>1, <1>p, <1>5, <1>6, <1>7, StillStep
<1>8. CASE stack' = SetTop(f)
  <2>1. SInv' /\ Replaced(f)
    BY <1>1, <1>3, <1>4, <1>5, <1>6, <1>8, QuietStep
  <2> QED BY <2>1, <1>1, <1>3, <1>p
<1> QED BY <1>1, <1>7, <1>8

\* main() holds no lock when it becomes the idle loop.
LEMMA runStep ==
    ASSUME SInv, run
    PROVE  /\ SInv' /\ ThreadRuns
           /\ \E g : /\ g \in Frames /\ g.prio = Top.prio /\ Activates(g) /\ g.obj = Top.obj
                     /\ g.at = "idle"
<1> DEFINE f == [Top EXCEPT !.at = "idle", !.fuel = 0]
           n == Len(stack)
<1>1. /\ ThreadRuns /\ Top.at = "rtc" /\ Top.prio = 0 /\ Top.locks = << >> /\ lockPrio' = 0
      /\ UNCHANGED <<qf, nEvts, readySet, nextPrio, lockHolder, isr, pendSV, asrt>>
      /\ Schedule(SetTop(f), readySet, 0)
  BY DEF run, At
<1>2. Top \in Frames
  BY StackFacts
<1>3. /\ f \in Frames /\ f.locks = Top.locks /\ f.at = "idle" /\ f.obj = Top.obj
      /\ f.prio = Top.prio /\ f.pin = Top.pin
  <2> DEFINE u == 0
  <2>1. u \in Int /\ f = [Top EXCEPT !.at = "idle", !.fuel = u]
    OBVIOUS
  <2> HIDE DEF u, f
  <2> QED BY <2>1, <1>2 DEF Frames, Places
<1> HIDE DEF f
<1>4. Sound(f)
  BY <1>3 DEF Sound
<1>5. OtherTypes'
  BY <1>1, SInvParts, Zenon DEF OtherTypes, qf
<1>6. Activates(f) /\ Continues(f) /\ Settled'
  <2>1. /\ readySet \subseteq Prios /\ readySet' = readySet /\ 0 \in 0 .. MAX_ACTIVE
        /\ active' \in [Prios -> Objs \cup {NULL}]
    BY <1>1, <1>5, PrioNumbers, SInvParts DEF OtherTypes
  <2> QED BY <2>1, <1>1, <1>3, ScheduleShape
<1>7. /\ stack' \in Seq(Frames) /\ stack' # << >> /\ actPrio' \in 0 .. MAX_ACTIVE
      /\ FramesSound' /\ MainLowest' /\ StackNested'
  BY <1>3, <1>4, <1>6, ContinuesStack
<1>8. n \in Nat /\ n >= 1 /\ Top = stack[n] /\ stack \in Seq(Frames)
  BY StackFacts DEF SInv, TypeOK
<1>9. n = 1
  <2> SUFFICES ASSUME n # 1 PROVE FALSE
    OBVIOUS
  <2>1. \A i \in 2 .. n : stack[i].prio > stack[i-1].prio
    BY DEF SInv, StackNested
  <2>2. \A i \in 1 .. n : stack[i].prio \in 0 .. MAX_ACTIVE
    BY StackFacts DEF Frames
  <2> HIDE DEF n
  <2>3. n \in 2 .. n /\ n - 1 \in 1 .. n
    BY <1>8
  <2>4. stack[n].prio > stack[n-1].prio /\ stack[n-1].prio \in 0 .. MAX_ACTIVE
    BY <2>1, <2>2, <2>3
  <2> QED BY <2>4, <1>1, <1>8
<1>10. \A i, j : ~Holds(stack, i, j)
  <2> SUFFICES ASSUME NEW i, NEW j, Holds(stack, i, j) PROVE FALSE
    OBVIOUS
  <2>1. i \in 1 .. n /\ j \in 1 .. Len(stack[i].locks)
    BY DEF Holds
  <2> HIDE DEF n
  <2>2. i = n
    BY <2>1, <1>9
  <2>3. Len(stack[i].locks) = 0
    BY <2>2, <1>1, <1>8
  <2> QED BY <2>1, <2>3
<1>11. \A i, j : ~Holds(stack', i, j)
  <2>1. Len(f.locks) = 0
    BY <1>1, <1>3
  <2> QED BY <2>1, <1>3, <1>6, <1>10, ContinuesHolds
<1>12. Locks = {} /\ Locks' = {}
  BY <1>7, <1>8, <1>10, <1>11, LocksMembers, LocksMembersNext DEF LockList
<1>13. Held = {} /\ Held' = {}
  BY <1>12 DEF Held
<1>14. stack'[1].at = "idle"
  <2>1. stack'[n] = f
    BY <1>6 DEF Continues, Preempts, Replaced, Pushed
  <2> HIDE DEF n
  <2> QED BY <2>1, <1>3, <1>9
<1>15. LocksNested'
  <2>1. lockHolder = 0
    BY <1>13 DEF SInv, LocksNested, InForce
  <2> QED BY <2>1, <1>1, <1>13, <1>14 DEF LocksNested, InForce
<1>16. LockChain' /\ Cleared'
  BY <1>12, <1>13 DEF LockChain, Cleared
<1>17. LockTypes'
  BY <1>1, PrioNumbers, SInvParts DEF LockTypes
<1>18. Scheduling'
  BY <1>1, <1>6, ThreadScheduling DEF ThreadRuns
<1>19. NoLockAssertion'
  BY <1>1, SInvParts DEF NoLockAssertion
<1>20. SInv'
  BY <1>5, <1>7, <1>15, <1>16, <1>17, <1>18, <1>19, SInvNext DEF Structure
<1> QED BY <1>1, <1>3, <1>6, <1>20

\* The activator goes on to the next object, or returns.
Resumes == \/ Popped /\ actPrio' = Top.pin
           \/ \E p \in readySet' : Succeeds(p, active[p])

\* An RTC step ends, and the activator looks for the next one.
LEMMA rtcEndStep ==
    ASSUME SInv, rtcEnd
    PROVE  SInv' /\ ThreadRuns /\ Top.at = "rtc" /\ Top.prio > 0 /\ Resumes
<1> DEFINE n == Len(stack)
           p == findMax(readySet')
<1>1. /\ ThreadRuns /\ Top.at = "rtc" /\ Top.prio > 0 /\ Top.locks = << >>
      /\ readySet' \subseteq readySet
      /\ UNCHANGED <<qf, nEvts, nextPrio, lockPrio, lockHolder, isr, pendSV, asrt>>
  BY DEF rtcEnd, At, ReadyAfter
<1>2. IF p <= Top.pin \/ p <= lockPrio
      THEN stack' = Front(stack) /\ actPrio' = Top.pin
      ELSE stack' = SetTop(Frame(p, active[p], Top.pin)) /\ actPrio' = p
  BY DEF rtcEnd, StaysBelow
<1>3. OtherTypes'
  <2>0. OtherTypes
    BY SInvParts
  <2>1. readySet' \subseteq Prios
    BY <2>0, <1>1 DEF OtherTypes
  <2> QED BY <2>0, <2>1, <1>1, Zenon DEF OtherTypes, qf
<1>4. /\ p \in readySet' \cup {0} /\ p \in 0 .. MAX_ACTIVE
      /\ \A q \in readySet' : q <= p
  BY <1>3, FindMax DEF OtherTypes
<1>5. /\ Top.pin \in 0 .. MAX_ACTIVE /\ lockPrio \in 0 .. MAX_ACTIVE /\ MAX_ACTIVE \in Nat
      /\ \A q \in readySet' : q \in 1 .. MAX_ACTIVE /\ q \in Prios
  BY <1>3, StackFacts, PrioNumbers, SInvParts DEF Frames, OtherTypes, LockTypes
<1>6. n \in Nat /\ n >= 2 /\ stack \in Seq(Frames)
  BY <1>1, StackFacts DEF SInv, TypeOK
<1> HIDE DEF p
<1>7. Resumes /\ Settled'
  <2>1. CASE p <= Top.pin \/ p <= lockPrio
    <3>1. stack' = SubSeq(stack, 1, n - 1) /\ actPrio' = Top.pin
      BY <1>2, <2>1 DEF Front
    <3>2. 1 \in 1 .. n + 1 /\ n - 1 \in 1 - 1 .. n
      <4> HIDE DEF n
      <4> QED BY <1>6
    <3>3. /\ stack' \in Seq(Frames) /\ Len(stack') = n - 1
          /\ \A i \in 1 .. n - 1 : stack'[i] = stack[i]
      BY <3>1, <3>2, <1>6, SubSeqProperties
    <3>4. Popped
      BY <3>3 DEF Popped
    <3>5. \A q \in readySet' : q <= Top.pin \/ q <= lockPrio
      BY <1>4, <1>5, <2>1
    <3> QED BY <3>1, <3>4, <3>5, <1>1 DEF Resumes, Settled
  <2>2. CASE ~(p <= Top.pin \/ p <= lockPrio)
    <3>1. p \in readySet' /\ p > Top.pin /\ p > lockPrio
      BY <1>4, <1>5, <2>2
    <3>2. active[p] \in Objs \cup {NULL}
      BY <3>1, <1>5, SInvParts DEF OtherTypes
    <3>3. Frame(p, active[p], Top.pin) \in Frames
      BY <3>1, <3>2, <1>5, FrameProperties
    <3>4. Replaced(Frame(p, active[p], Top.pin)) /\ actPrio' = p
      BY <3>3, <1>2, <2>2, SetTopReplaced
    <3>5. Succeeds(p, active[p])
      BY <3>1, <3>4 DEF Succeeds
    <3>6. Settled'
      BY <3>4, <1>4 DEF Settled
    <3> QED BY <3>1, <3>5, <3>6 DEF Resumes
  <2> QED BY <2>1, <2>2
<1>8. Ends
  <2>1. \A q \in Prios : active[q] \in Objs \cup {NULL}
    BY SInvParts DEF OtherTypes
  <2> QED BY <2>1, <1>5, <1>7, Zenon DEF Ends, Resumes
<1>9. Structure'
  BY <1>1, <1>8, EndsStructure
<1>10. LockTypes'
  BY <1>1, SInvParts DEF LockTypes
<1>11. Scheduling'
  BY <1>1, <1>7, ThreadScheduling DEF ThreadRuns
<1>12. NoLockAssertion'
  BY <1>1, SInvParts DEF NoLockAssertion
<1>13. SInv'
  BY <1>3, <1>9, <1>10, <1>11, <1>12, SInvNext
<1> QED BY <1>1, <1>7, <1>13

\* Interrupts leave the frames and the locks alone.
LEMMA StillStructure ==
    ASSUME SInv, UNCHANGED <<stack, actPrio, lockPrio, lockHolder>>
    PROVE  Structure' /\ LockTypes'
<1>1. Replaced(Top) /\ Continues(Top)
  BY UnchangedReplaced DEF Continues
<1>2. Proper(Top)
  BY StackFacts DEF Proper, Fits
<1>3. Structure'
  BY <1>1, <1>2, ContinuesStructure
<1> QED BY <1>3, SInvParts DEF LockTypes

\* An ISR posts to the objects in objs.
LEMMA isrPostStep ==
    ASSUME SInv, NEW objs \in SUBSET Objs, isr > 0, PostAll(objs),
           \A o \in objs : nEvts[o] < QLen,
           UNCHANGED <<qf, actPrio, nextPrio, lockPrio, lockHolder, stack, isr,
                       pendSV, asrt>>
    PROVE  SInv'
<1>1. OtherTypes'
  <2>0. OtherTypes
    BY SInvParts
  <2>1. readySet' \subseteq Prios
    BY <2>0, QKAssumption DEF OtherTypes, PostAll
  <2>2. nEvts' \in [Objs -> 0 .. QLen]
    <3>1. \A o \in Objs : nEvts[o] \in 0 .. QLen /\ (o \in objs => nEvts[o] + 1 \in 0 .. QLen)
      BY <2>0, QKAssumption DEF OtherTypes
    <3> QED BY <3>1 DEF PostAll
  <2> QED BY <2>0, <2>1, <2>2, Zenon DEF OtherTypes, qf
<1>2. Structure' /\ LockTypes'
  BY StillStructure
<1>3. Scheduling'
  <2>1. readySet \subseteq readySet'
    BY DEF PostAll
  <2>2. isr' # 0
    BY SInvParts DEF OtherTypes
  <2>3. Scheduling
    BY SInvParts
  <2> QED BY <2>1, <2>2, <2>3, Zenon DEF Scheduling
<1>4. NoLockAssertion'
  BY SInvParts DEF NoLockAssertion
<1> QED BY <1>1, <1>2, <1>3, <1>4, SInvNext

\* An interrupt preempts what runs.
LEMMA isrEntryStep ==
    ASSUME SInv, isrEntry
    PROVE  SInv'
<1>1. /\ isr' = isr + 1
      /\ UNCHANGED <<qf, nEvts, readySet, actPrio, nextPrio, lockPrio, lockHolder,
                     stack, pendSV, asrt>>
  BY DEF isrEntry
<1>2. isr' \in Nat /\ isr' # 0
  BY <1>1, SInvParts DEF OtherTypes
<1>3. OtherTypes'
  BY <1>1, <1>2, SInvParts, Zenon DEF OtherTypes, qf
<1>4. Structure' /\ LockTypes'
  BY <1>1, StillStructure
<1>5. Scheduling'
  BY <1>1, <1>2, SInvParts, Zenon DEF Scheduling
<1>6. NoLockAssertion'
  BY <1>1, SInvParts DEF NoLockAssertion
<1> QED BY <1>3, <1>4, <1>5, <1>6, SInvNext

\* An interrupt posts to a set of objects that have room, or asserts.
LEMMA isrPublishStep ==
    ASSUME SInv, isrPublish \/ \E o \in Objs : isrPost(o)
    PROVE  /\ SInv'
           /\ \/ /\ UNCHANGED <<active, hsm, nEvts, readySet, actPrio, stack>>
                 /\ asrt' # "get110"
              \/ /\ UNCHANGED <<active, hsm, actPrio, stack, asrt>>
                 /\ \E objs \in SUBSET Objs :
                      /\ \A o \in objs : \E p \in Prios : active[p] = o
                      /\ PostAll(objs)
<1>0. OtherTypes /\ QLen \in Nat
  BY SInvParts, QKAssumption
<1>1. CASE \E o \in Objs : isrPost(o)
  <2>1. PICK o \in Objs : isrPost(o)
    BY <1>1
  <2>2. /\ isr > 0 /\ Postable(o) /\ PostAll({o})
        /\ UNCHANGED <<qf, actPrio, nextPrio, lockPrio, lockHolder, stack, isr,
                       pendSV, asrt>>
    BY <2>1 DEF isrPost
  <2>3. PrioOf[o] \in Prios /\ active[PrioOf[o]] = o /\ nEvts[o] < QLen
    BY <2>2, QKAssumption DEF Postable
  <2>4. SInv'
    BY <2>2, <2>3, isrPostStep
  <2> QED BY <2>2, <2>3, <2>4 DEF qf
<1>2. CASE isrPublish
  <2> DEFINE objs == {active[p] : p \in subscrList}
  <2>1. /\ isr > 0
        /\ UNCHANGED <<qf, actPrio, nextPrio, lockPrio, lockHolder, stack, isr, pendSV>>
        /\ IF NULL \in objs
           THEN asrt' = "publish210" /\ UNCHANGED <<nEvts, readySet>>
           ELSE IF \E o \in objs : nEvts[o] = QLen
           THEN asrt' = "post110" /\ UNCHANGED <<nEvts, readySet>>
           ELSE PostAll(objs) /\ UNCHANGED asrt
    BY <1>2 DEF isrPublish
  <2>2. CASE NULL \in objs \/ \E o \in objs : nEvts[o] = QLen
    <3>1. asrt' \in {"publish210", "post110"} /\ UNCHANGED <<nEvts, readySet>>
      BY <2>1, <2>2
    <3>2. OtherTypes'
      BY <3>1, <2>1, <1>0, Zenon DEF OtherTypes, qf
    <3>3. Structure' /\ LockTypes'
      BY <2>1, StillStructure
    <3>4. Scheduling'
      BY <3>1, <2>1, SInvParts, Zenon DEF Scheduling
    <3>5. NoLockAssertion' /\ asrt' # "get110"
      BY <3>1 DEF NoLockAssertion
    <3>6. SInv'
      BY <3>2, <3>3, <3>4, <3>5, SInvNext
    <3> QED BY <3>1, <3>5, <3>6, <2>1 DEF qf
  <2>3. CASE ~(NULL \in objs \/ \E o \in objs : nEvts[o] = QLen)
    <3>1. PostAll(objs) /\ asrt' = asrt
      BY <2>1, <2>3
    <3>2. \A o \in objs : \E p \in Prios : active[p] = o
      BY <1>0 DEF OtherTypes
    <3>3. objs \in SUBSET Objs
      BY <1>0, <2>3 DEF OtherTypes
    <3>4. \A o \in objs : nEvts[o] < QLen
      <4> HIDE DEF objs
      <4>1. \A o \in objs : nEvts[o] \in 0 .. QLen /\ nEvts[o] # QLen
        BY <1>0, <2>3, <3>3 DEF OtherTypes
      <4> QED BY <4>1, <1>0
    <3> HIDE DEF objs
    <3>5. SInv'
      BY <2>1, <3>1, <3>3, <3>4, isrPostStep
    <3> QED BY <2>1, <3>1, <3>2, <3>3, <3>5 DEF qf
  <2> QED BY <2>2, <2>3
<1> QED BY <1>1, <1>2

\* QK_ISR_EXIT pends PendSV for the highest eligible priority.
LEMMA isrExitStep ==
    ASSUME SInv, isrExit
    PROVE  SInv'
<1> DEFINE p == findMax(readySet)
<1>0. OtherTypes /\ LockTypes /\ actPrio \in 0 .. MAX_ACTIVE
  BY SInvParts DEF Structure
<1>1. /\ isr > 0 /\ isr' = isr - 1 /\ Pend(QK_sched_(readySet, lockPrio))
      /\ UNCHANGED <<qf, nEvts, readySet, actPrio, lockPrio, lockHolder, stack, asrt>>
  BY DEF isrExit
<1>2. /\ p \in readySet \cup {0} /\ p \in 0 .. MAX_ACTIVE
      /\ \A q \in readySet : q <= p
  BY <1>0, FindMax DEF OtherTypes
<1>3. QK_sched_(readySet, lockPrio) = IF p <= actPrio \/ p <= lockPrio THEN 0 ELSE p
  BY DEF QK_sched_
<1>4. MAX_ACTIVE \in Nat /\ \A q \in readySet : q \in 1 .. MAX_ACTIVE
  BY <1>0, PrioNumbers DEF OtherTypes
<1> HIDE DEF p
<1>5. isr' \in Nat
  BY <1>0, <1>1 DEF OtherTypes
<1>6. Structure' /\ LockTypes'
  BY <1>1, StillStructure
<1>7. NoLockAssertion'
  BY <1>1, SInvParts DEF NoLockAssertion
<1>8. CASE p <= actPrio \/ p <= lockPrio
  <2>1. UNCHANGED <<nextPrio, pendSV>>
    BY <1>1, <1>3, <1>8 DEF Pend
  <2>2. Settled
    BY <1>0, <1>2, <1>4, <1>8 DEF Settled, LockTypes
  <2>3. pendSV => nextPrio \in readySet /\ nextPrio > actPrio /\ nextPrio > lockPrio
    BY SInvParts DEF Scheduling
  <2>4. ~(nextPrio \in readySet /\ nextPrio > actPrio /\ nextPrio > lockPrio)
    <3> SUFFICES ASSUME nextPrio \in readySet, nextPrio > actPrio, nextPrio > lockPrio
                 PROVE  FALSE
      OBVIOUS
    <3>1. nextPrio <= p /\ nextPrio \in Nat /\ p \in Nat
      BY <1>2, <1>4
    <3>2. actPrio \in Nat /\ lockPrio \in Nat
      BY <1>0, <1>4 DEF LockTypes
    <3> QED BY <3>1, <3>2, <1>8
  <2>5. Scheduling'
    BY <2>1, <2>2, <2>3, <2>4, <1>1, Zenon DEF Scheduling, Settled
  <2>6. OtherTypes'
    BY <2>1, <1>0, <1>1, <1>5, Zenon DEF OtherTypes, qf
  <2> QED BY <2>5, <2>6, <1>6, <1>7, SInvNext
<1>9. CASE ~(p <= actPrio \/ p <= lockPrio)
  <2>1. p # 0 /\ p \in readySet /\ p > actPrio /\ p > lockPrio
    BY <1>0, <1>2, <1>4, <1>9 DEF LockTypes
  <2>2. QK_sched_(readySet, lockPrio) = p
    BY <1>3, <1>9
  <2>3. nextPrio' = p /\ pendSV' = TRUE
    BY <2>1, <2>2, <1>1 DEF Pend
  <2>4. Scheduling'
    BY <2>1, <2>3, <1>1, <1>2, Zenon DEF Scheduling
  <2>5. nextPrio' \in 0 .. MAX_ACTIVE /\ pendSV' \in BOOLEAN
    BY <2>3, <1>2
  <2>6. OtherTypes'
    BY <2>5, <1>0, <1>1, <1>5, Zenon DEF OtherTypes, qf
  <2> QED BY <2>4, <2>6, <1>6, <1>7, SInvNext
<1> QED BY <1>8, <1>9

\* PendSV activates the priority it was pended for.
LEMMA PendSV_HandlerStep ==
    ASSUME SInv, PendSV_Handler
    PROVE  /\ SInv' /\ asrt' = asrt /\ Activates(Top)
           /\ UNCHANGED <<active, hsm, nEvts, readySet>>
<1>0. OtherTypes /\ LockTypes /\ actPrio \in 0 .. MAX_ACTIVE
  BY SInvParts DEF Structure
<1>1. /\ isr = 0 /\ pendSV /\ pendSV' = FALSE
      /\ UNCHANGED <<qf, nEvts, readySet, lockPrio, lockHolder, isr>>
  BY DEF PendSV_Handler
<1>2. /\ nextPrio \in readySet /\ nextPrio > actPrio /\ nextPrio > lockPrio
      /\ \A p \in readySet : p <= nextPrio
  BY <1>1, SInvParts DEF Scheduling
<1>3. nextPrio \in Prios /\ nextPrio # 0
  <2>1. nextPrio \in Prios
    BY <1>0, <1>2 DEF OtherTypes
  <2> QED BY <2>1, PrioNumbers
<1>4. /\ nextPrio' = 0 /\ actPrio' = nextPrio /\ asrt' = asrt
      /\ stack' = Append(stack, Frame(nextPrio, active[nextPrio], actPrio))
  BY <1>3 DEF PendSV_Handler
<1>5. active[nextPrio] \in Objs \cup {NULL}
  BY <1>0, <1>3 DEF OtherTypes
<1>6. Frame(nextPrio, active[nextPrio], actPrio) \in Frames
  BY <1>0, <1>3, <1>5, FrameProperties
<1>7. Pushed(Top, Frame(nextPrio, active[nextPrio], actPrio))
  <2>1. Top \in Frames
    BY StackFacts
  <2>2. SetTop(Top) = stack
    <3>1. stack \in Seq(Frames)
      BY DEF SInv, TypeOK
    <3> QED BY <3>1 DEF SetTop, Top
  <2> QED BY <2>1, <2>2, <1>4, <1>6, AppendFrame
<1>8. Preempts(Top, nextPrio, active[nextPrio])
  BY <1>1, <1>2, <1>4, <1>7 DEF Preempts
<1>9. Activates(Top) /\ Continues(Top)
  <2>1. active' = active /\ nextPrio \in readySet'
    BY <1>1, <1>2 DEF qf
  <2> QED BY <2>1, <1>3, <1>5, <1>8 DEF Activates, Continues
<1>10. Proper(Top)
  BY StackFacts DEF Proper, Fits
<1>11. Structure'
  BY <1>1, <1>9, <1>10, ContinuesStructure
<1>12. LockTypes'
  BY <1>0, <1>1 DEF LockTypes
<1>13. OtherTypes'
  <2>1. 0 \in 0 .. MAX_ACTIVE
    BY PrioNumbers
  <2>2. nextPrio' \in 0 .. MAX_ACTIVE /\ pendSV' \in BOOLEAN
    BY <2>1, <1>1, <1>4, Zenon
  <2> QED BY <2>2, <1>0, <1>1, Zenon DEF OtherTypes, qf
<1>14. Scheduling'
  BY <1>1, <1>2, <1>4, Zenon DEF Scheduling
<1>15. NoLockAssertion'
  BY <1>4, SInvParts DEF NoLockAssertion
<1>16. SInv'
  BY <1>11, <1>12, <1>13, <1>14, <1>15, SInvNext
<1> QED BY <1>1, <1>4, <1>9, <1>16 DEF qf

\* QF::init establishes the invariant.
LEMMA InitSInv == Init => SInv
<1> SUFFICES ASSUME Init PROVE SInv
  OBVIOUS
<1> DEFINE f == [Frame(0, NULL, 0) EXCEPT !.at = "rtc", !.fuel = Fuel]
<1>1. stack = <<f>> /\ lockPrio = MAX_ACTIVE /\ lockHolder = 0 /\ actPrio = 0
  BY DEF Init
<1>2. /\ f \in Frames /\ f.at = "rtc" /\ f.prio = 0 /\ f.locks = << >>
  <2>1. Fuel \in Int /\ 0 \in 0 .. MAX_ACTIVE
    BY QKAssumption
  <2>2. << >> \in Seq(Statuses)
    OBVIOUS
  <2> DEFINE h == Frame(0, NULL, 0)
  <2>3. h \in Frames /\ h.prio = 0 /\ h.locks = << >>
    BY <2>1, <2>2 DEF Frame, Frames, Places
  <2>4. f = [h EXCEPT !.at = "rtc", !.fuel = Fuel]
    OBVIOUS
  <2> HIDE DEF f, h
  <2> QED BY <2>1, <2>3, <2>4 DEF Frames, Places
<1> HIDE DEF f
<1>3. Sound(f)
  BY <1>2 DEF Sound
<1>4. stack \in Seq(Frames) /\ stack # << >> /\ Len(stack) = 1 /\ stack[1] = f
  BY <1>1, <1>2
<1>5. OtherTypes
  <2>1. active \in [Prios -> Objs \cup {NULL}]
    BY DEF Init
  <2>2. nEvts \in [Objs -> 0 .. QLen]
    BY QKAssumption DEF Init
  <2>3. hsm \in [Objs -> {"new", "init", "stable", "stopped"}]
    BY DEF Init
  <2>4. nextPrio \in 0 .. MAX_ACTIVE /\ isr \in Nat
    BY QKAssumption DEF Init
  <2>5. pendSV \in BOOLEAN
    BY DEF Init
  <2> QED BY <2>1, <2>2, <2>3, <2>4, <2>5 DEF Init, OtherTypes
<1>6. LockTypes /\ actPrio \in 0 .. MAX_ACTIVE
  BY <1>1, QKAssumption DEF LockTypes
<1>7. Locks = {} /\ Held = {}
  <2>1. \A i, j : ~Holds(stack, i, j)
    <3> SUFFICES ASSUME NEW i, NEW j, Holds(stack, i, j) PROVE FALSE
      OBVIOUS
    <3>1. i \in 1 .. 1 /\ j \in 1 .. Len(stack[i].locks)
      BY <1>4 DEF Holds
    <3>2. Len(stack[i].locks) = 0
      BY <3>1, <1>2, <1>4
    <3> QED BY <3>1, <3>2
  <2>2. Locks = {}
    BY <2>1, <1>4, LocksMembers DEF LockList
  <2> QED BY <2>2 DEF Held
<1>8. LocksNested
  BY <1>1, <1>2, <1>4, <1>7 DEF LocksNested, InForce
<1>9. LockChain /\ Cleared
  BY <1>7 DEF LockChain, Cleared
<1>10. FramesSound
  <2>1. DOMAIN stack = 1 .. 1
    BY <1>4, LenProperties
  <2> QED BY <2>1, <1>3, <1>4 DEF FramesSound
<1>11. MainLowest /\ StackNested
  BY <1>1, <1>2, <1>4 DEF MainLowest, StackNested, Top
<1>12. Scheduling /\ NoLockAssertion
  BY DEF Init, Scheduling, NoLockAssertion
<1>13. TypeOK
  BY <1>4, <1>5, <1>6 DEF TypeOK, OtherTypes, LockTypes
<1> QED BY <1>8, <1>9, <1>10, <1>11, <1>12, <1>13 DEF SInv

\* Nothing happens.
LEMMA StutterSInv == SInv /\ UNCHANGED vars => SInv'
<1> SUFFICES ASSUME SInv, UNCHANGED vars PROVE SInv'
  OBVIOUS
<1>1. Structure' /\ LockTypes'
  BY StillStructure DEF vars
<1>2. OtherTypes'
  BY SInvParts, Zenon DEF OtherTypes, vars
<1>3. Scheduling' /\ NoLockAssertion'
  BY SInvParts, Zenon DEF Scheduling, NoLockAssertion, vars
<1> QED BY <1>1, <1>2, <1>3, SInvNext

\* Every step keeps the structural invariant.
LEMMA NextSInv == SInv /\ [Next]_vars => SInv'
<1> SUFFICES ASSUME SInv, [Next]_vars PROVE SInv'
  OBVIOUS
<1>1. CASE UNCHANGED vars
  BY <1>1, StutterSInv
<1>2. CASE \E a \in Objs : post(a) \/ start(a) \/ initPost(a)
  BY <1>2, postStep, startStep
<1>3. CASE \E c \in Ceilings : schedLock(c)
  BY <1>3, schedLockStep
<1>4. CASE run \/ get_ \/ rtcEnd \/ schedUnlock \/ restoreLock
  BY <1>4, runStep, get_Step, rtcEndStep, schedUnlockStep, restoreLockStep
<1>5. CASE publish_ \/ publishLock \/ multicast \/ publishUnlock
  BY <1>5, publish_Step, publishLockStep, multicastStep, publishUnlockStep
<1>6. CASE subscribe \/ unsubscribe \/ initSubscribe \/ startSched
  BY <1>6, subscribeStep, initSubscribeStep, startSchedStep
<1>7. CASE stop \/ stopSched
  BY <1>7, stopStep, stopSchedStep
<1>8. CASE isrEntry \/ isrPublish \/ \E a \in Objs : isrPost(a)
  BY <1>8, isrEntryStep, isrPublishStep
<1>9. CASE isrExit \/ PendSV_Handler
  BY <1>9, isrExitStep, PendSV_HandlerStep
<1> QED BY <1>1, <1>2, <1>3, <1>4, <1>5, <1>6, <1>7, <1>8, <1>9 DEF Next, Thread

\* The structural invariant holds.
LEMMA SInvHolds == Spec => []SInv
BY InitSInv, NextSInv, PTL DEF Spec

-----------------------------------------------------------------------------
(***************************************************************************)
(* The theorems that need nothing of the priorities.                       *)
(***************************************************************************)
\* Preemption nests: every frame of the shared stack runs above the one it
\* preempted and will restore its priority (QK_activate_).
THEOREM Nesting == Spec => []StackNested
<1>1. SInv => StackNested
  BY DEF SInv
<1> QED BY <1>1, SInvHolds, PTL

\* The scheduler lock in force is the newest one that is held, at any depth of
\* preemption, and none after the last schedUnlock().
THEOREM LockNesting == Spec => []LocksNested
<1>1. SInv => LocksNested
  BY DEF SInv
<1> QED BY <1>1, SInvHolds, PTL

\* It implies that ceilings are respected.
LEMMA ClearedCeilings == SInv => CeilingRespected
<1> SUFFICES ASSUME SInv, NEW i \in DOMAIN stack, NEW j \in DOMAIN stack[i].locks,
                    NEW k \in i + 1 .. Len(stack)
             PROVE  stack[k].prio > stack[i].locks[j].ceiling
  BY DEF CeilingRespected
<1>1. stack \in Seq(Frames) /\ i \in 1 .. Len(stack)
  BY StackFacts DEF SInv, TypeOK
<1>2. stack[i].locks \in Seq(Statuses)
  <2>1. stack[i] \in Frames
    BY <1>1, StackFacts
  <2> QED BY <2>1 DEF Frames
<1>3. Holds(stack, i, j)
  BY <1>1, <1>2, LenProperties DEF Holds
<1>4. LockAt(stack, i, j) \in Locks
  BY <1>1, <1>3, LocksMembers DEF LockList
<1>5. LockAt(stack, i, j).frame = i /\ LockAt(stack, i, j).stat = stack[i].locks[j]
  BY DEF LockAt
<1> QED BY <1>4, <1>5 DEF SInv, Cleared

\* What schedLock() promises: while a frame holds a lock, only objects above
\* its ceiling run.
THEOREM CeilingHolds == Spec => []CeilingRespected
BY ClearedCeilings, SInvHolds, PTL

\* A multicast is not interrupted by a subscriber of its list: none of them
\* runs above the publisher between its first and its last post (publish_).
THEOREM MulticastAtomic == Spec => []MulticastUninterrupted
<1>1. SInv => MulticastUninterrupted
  <2> SUFFICES ASSUME SInv, NEW i \in DOMAIN stack, stack[i].at = "multicast",
                      NEW k \in i + 1 .. Len(stack), stack[k].prio \in stack[i].list
               PROVE  FALSE
    BY DEF MulticastUninterrupted
  <2>1. stack[i] \in Frames /\ Sound(stack[i]) /\ i \in 1 .. Len(stack)
    BY StackFacts
  <2>2. stack[i].locks \in Seq(Statuses) /\ stack[i].list \subseteq Prios
    BY <2>1 DEF Frames
  <2> DEFINE m == Len(stack[i].locks)
             c == stack[i].locks[m].ceiling
  <2>3. stack[i].locks # << >> /\ stack[k].prio <= c
    BY <2>1 DEF Sound
  <2>4. m \in DOMAIN stack[i].locks
    BY <2>2, <2>3, LenProperties, EmptySeq
  <2>5. stack[k].prio > c
    BY <2>4, ClearedCeilings DEF CeilingRespected
  <2>6. c \in Nat /\ stack[k].prio \in Nat
    <3>1. stack[i].locks[m] \in Statuses
      BY <2>2, <2>4, ElementOfSeq, LenProperties
    <3>2. c \in Prios /\ stack[k].prio \in Prios
      BY <3>1, <2>2 DEF Statuses
    <3> HIDE DEF c
    <3> QED BY <3>2, PrioNumbers
  <2> HIDE DEF c
  <2> QED BY <2>3, <2>5, <2>6
<1> QED BY <1>1, SInvHolds, PTL

\* The highest eligible priority runs: no post, unlock, return of the
\* activator or nested interrupt forgets to schedule one.
THEOREM HighestPriorityRuns == Spec => []HighestRuns
<1>1. SInv => HighestRuns
  <2> SUFFICES ASSUME SInv, ThreadRuns
               PROVE  findMax(readySet) <= Max({actPrio, lockPrio})
    BY DEF HighestRuns
  <2>1. Settled /\ OtherTypes /\ LockTypes /\ actPrio \in 0 .. MAX_ACTIVE
    BY SettledBefore, SInvParts DEF Structure
  <2> DEFINE S == {actPrio, lockPrio}
             p == findMax(readySet)
  <2>2. Max(S) \in S /\ \A y \in S : Max(S) >= y
    <3>1. S \subseteq 0 .. MAX_ACTIVE /\ S # {} /\ MAX_ACTIVE \in Nat
      BY <2>1, PrioNumbers DEF LockTypes
    <3> QED BY <3>1, MaxProperties
  <2>3. p \in readySet \cup {0} /\ p \in 0 .. MAX_ACTIVE
    BY <2>1, FindMax DEF OtherTypes
  <2>4. p <= actPrio \/ p <= lockPrio
    <3> HIDE DEF p
    <3> QED BY <2>1, <2>3 DEF Settled
  <2>5. Max(S) >= actPrio /\ Max(S) >= lockPrio /\ Max(S) \in 0 .. MAX_ACTIVE
    BY <2>1, <2>2 DEF LockTypes
  <2> HIDE DEF p, S
  <2>6. p <= Max(S)
    BY <2>1, <2>3, <2>4, <2>5, PrioNumbers DEF LockTypes
  <2> QED BY <2>6 DEF p, S
<1> QED BY <1>1, SInvHolds, PTL

-----------------------------------------------------------------------------
(***************************************************************************)
(* Wake-ups.  The rest needs that no two objects use the same priority     *)
(* ("QF requires priority to be unique": also over time, see the README).  *)
(***************************************************************************)
OwnPriorities == \A o, x \in Objs : PrioOf[o] = PrioOf[x] => o = x

\* An object is registered at its own priority.
Registered == \A p \in Prios :
    active[p] # NULL => PrioOf[active[p]] = p /\ hsm[active[p]] # "new"

\* A frame above main() runs the object of its priority; before its first
\* critical section the object has an event, while it stops it has been
\* removed.
OwnIn(act, ev, st, f) == f.prio > 0 =>
    /\ f.obj \in Objs /\ PrioOf[f.obj] = f.prio /\ st[f.obj] # "new"
    /\ f.at = "get" => act[f.prio] = f.obj /\ ev[f.obj] > 0
    /\ f.at = "stop" => act[f.prio] = NULL

FramesOwn == \A i \in 1 .. Len(stack) : OwnIn(active, nEvts, hsm, stack[i])

\* Why a priority can be ready: its object has events, or a frame runs it, or
\* a frame is stopping it.
HasEvents(p) == active[p] # NULL /\ nEvts[active[p]] > 0
RunsIn(act, f, p) == /\ f.prio = p /\ f.at # "get"
                     /\ act[p] = f.obj \/ f.at = "stop"

ReadyJustified == \A p \in readySet :
    HasEvents(p) \/ \E i \in 1 .. Len(stack) : RunsIn(active, stack[i], p)

EInv == /\ Registered /\ FramesOwn /\ ReadyJustified /\ NoLostWakeup
        /\ asrt # "get110"

\* The priorities of the frames increase towards the top.
LEMMA Increasing ==
    ASSUME SInv, NEW j \in 1 .. Len(stack), NEW i \in 1 .. j - 1
    PROVE  stack[i].prio < stack[j].prio
<1> DEFINE n == Len(stack)
           S == {k \in 1 .. j - 1 : stack[k].prio >= stack[j].prio}
<1>1. n \in Nat /\ \A k \in 1 .. n : stack[k].prio \in 0 .. MAX_ACTIVE
  BY StackFacts DEF Frames
<1>2. \A k \in 2 .. n : stack[k].prio > stack[k-1].prio
  BY DEF SInv, StackNested
<1>j. j \in 1 .. n
  OBVIOUS
<1> HIDE DEF n
<1>3. S = {}
  <2> SUFFICES ASSUME S # {} PROVE FALSE
    OBVIOUS
  <2>1. S \subseteq 0 .. n
    BY <1>1, <1>j
  <2>2. PICK k \in S : \A l \in S : k >= l
    <3> HIDE DEF S
    <3> QED BY <2>1, <1>1, LargestExists
  <2>3. k \in 1 .. j - 1 /\ stack[k].prio >= stack[j].prio
    OBVIOUS
  <2>4. k + 1 \in 2 .. n /\ k + 1 \in 1 .. n /\ k \in 1 .. n
    BY <2>3, <1>1, <1>j
  <2>5. stack[k + 1].prio > stack[k].prio
    <3>1. (k + 1) - 1 = k
      BY <2>4
    <3> QED BY <2>4, <3>1, <1>2
  <2>6. stack[k + 1].prio > stack[j].prio
    <3>1. stack[k + 1].prio \in 0 .. MAX_ACTIVE /\ stack[k].prio \in 0 .. MAX_ACTIVE
          /\ stack[j].prio \in 0 .. MAX_ACTIVE
      BY <2>4, <1>1, <1>j
    <3> QED BY <3>1, <2>3, <2>5
  <2>7. CASE k = j - 1
    <3>1. k + 1 = j
      BY <2>7, <1>j
    <3>2. stack[j].prio \in 0 .. MAX_ACTIVE
      BY <1>1, <1>j
    <3> QED BY <3>1, <3>2, <2>6
  <2>8. CASE k # j - 1
    <3>1. k + 1 \in 1 .. j - 1
      BY <2>3, <2>8, <1>j
    <3>2. stack[k + 1].prio >= stack[j].prio
      <4>1. stack[k + 1].prio \in 0 .. MAX_ACTIVE /\ stack[j].prio \in 0 .. MAX_ACTIVE
        BY <2>4, <1>1, <1>j
      <4> QED BY <4>1, <2>6
    <3>3. k >= k + 1
      BY <2>2, <3>1, <3>2
    <3> QED BY <3>3, <2>4
  <2> QED BY <2>7, <2>8
<1>4. ~(stack[i].prio >= stack[j].prio)
  BY <1>3
<1>5. stack[i].prio \in 0 .. MAX_ACTIVE /\ stack[j].prio \in 0 .. MAX_ACTIVE
  <2>1. i \in 1 .. n
    BY <1>1, <1>j
  <2> QED BY <2>1, <1>1, <1>j
<1> QED BY <1>4, <1>5

\* The frames and the reasons after a step in which the running frame became f.
LEMMA ActivatesOwn ==
    ASSUME SInv, OtherTypes', NEW f, f.prio = Top.prio, Activates(f),
           \A i \in 1 .. Len(stack) - 1 : OwnIn(active', nEvts', hsm', stack[i]),
           OwnIn(active', nEvts', hsm', f), Registered',
           \A p \in readySet' :
              \/ HasEvents(p)' \/ RunsIn(active', f, p)
              \/ \E i \in 1 .. Len(stack) - 1 : RunsIn(active', stack[i], p)
    PROVE  FramesOwn' /\ ReadyJustified'
<1> DEFINE n == Len(stack)
<1>1. n \in Nat /\ n >= 1 /\ Top = stack[n] /\ actPrio = Top.prio /\ actPrio \in 0 .. MAX_ACTIVE
  BY StackFacts DEF SInv, TypeOK
<1>2. /\ stack'[n] = f /\ \A i \in 1 .. n - 1 : stack'[i] = stack[i]
      /\ Len(stack') \in {n, n + 1}
  BY DEF Activates, Preempts, Replaced, Pushed
<1>3. \A i \in 1 .. n - 1 : stack[i].prio < Top.prio
  <2>1. n \in 1 .. n
    BY <1>1
  <2> QED BY <2>1, <1>1, Increasing
<1>o. /\ \A i \in 1 .. n - 1 : OwnIn(active', nEvts', hsm', stack[i])
      /\ \A p \in readySet' :
              \/ HasEvents(p)' \/ RunsIn(active', f, p)
              \/ \E i \in 1 .. n - 1 : RunsIn(active', stack[i], p)
  OBVIOUS
<1>r. CASE Replaced(f) /\ actPrio' = actPrio
  <2>1. Len(stack') = n
    BY <1>r DEF Replaced
  <2> HIDE DEF n
  <2>2. \A i \in 1 .. n : OwnIn(active', nEvts', hsm', stack'[i])
    <3> SUFFICES ASSUME NEW i \in 1 .. n PROVE OwnIn(active', nEvts', hsm', stack'[i])
      OBVIOUS
    <3>1. i = n \/ i \in 1 .. n - 1
      BY <1>1
    <3> QED BY <3>1, <1>2, <1>o
  <2>3. FramesOwn'
    BY <2>1, <2>2 DEF FramesOwn, OwnIn
  <2>4. ASSUME NEW p \in readySet', ~HasEvents(p)'
        PROVE  \E i \in 1 .. n : RunsIn(active', stack'[i], p)
    <3>1. CASE RunsIn(active', f, p)
      <4>1. n \in 1 .. n
        BY <1>1
      <4> QED BY <3>1, <4>1, <1>2
    <3>2. CASE \E i \in 1 .. n - 1 : RunsIn(active', stack[i], p)
      <4>1. PICK i \in 1 .. n - 1 : RunsIn(active', stack[i], p)
        BY <3>2
      <4>2. i \in 1 .. n /\ stack'[i] = stack[i]
        BY <1>1, <1>2
      <4> QED BY <4>1, <4>2
    <3> QED BY <2>4, <3>1, <3>2, <1>o
  <2>5. ReadyJustified'
    BY <2>1, <2>4 DEF ReadyJustified, RunsIn, HasEvents
  <2> QED BY <2>3, <2>5
<1>p. CASE \E p \in readySet' : Preempts(f, p, active'[p])
  <2>0. PICK p \in readySet' : Preempts(f, p, active'[p])
    BY <1>p
  <2> DEFINE g == Frame(p, active'[p], actPrio)
  <2>1. Len(stack') = n + 1 /\ stack'[n + 1] = g /\ p > actPrio
    BY <2>0 DEF Preempts, Pushed
  <2>p. p \in Prios /\ active'[p] \in Objs \cup {NULL}
    BY <2>0 DEF OtherTypes
  <2>g. g.prio = p /\ g.obj = active'[p] /\ g.at = "get"
    BY DEF Frame
  <2> HIDE DEF n, g
  <2>2. HasEvents(p)'
    <3>1. ~RunsIn(active', f, p)
      <4> SUFFICES ASSUME p = Top.prio PROVE FALSE
        BY DEF RunsIn
      <4> QED BY <2>1, <1>1
    <3>2. \A i \in 1 .. n - 1 : ~RunsIn(active', stack[i], p)
      <4> SUFFICES ASSUME NEW i \in 1 .. n - 1, p = stack[i].prio PROVE FALSE
        BY DEF RunsIn
      <4>1. p < actPrio /\ p \in Nat
        BY <2>p, <1>1, <1>3, PrioNumbers
      <4> QED BY <4>1, <2>1, <1>1
    <3> QED BY <2>0, <3>1, <3>2, <1>o
  <2>3. OwnIn(active', nEvts', hsm', g)
    <3>1. active'[p] # NULL /\ nEvts'[active'[p]] > 0
      BY <2>2 DEF HasEvents
    <3>2. PrioOf[active'[p]] = p /\ hsm'[active'[p]] # "new"
      BY <2>p, <3>1 DEF Registered
    <3> QED BY <2>p, <2>g, <3>1, <3>2 DEF OwnIn
  <2>4. \A i \in 1 .. n + 1 : OwnIn(active', nEvts', hsm', stack'[i])
    <3> SUFFICES ASSUME NEW i \in 1 .. n + 1 PROVE OwnIn(active', nEvts', hsm', stack'[i])
      OBVIOUS
    <3>1. i = n + 1 \/ i = n \/ i \in 1 .. n - 1
      BY <1>1
    <3> QED BY <3>1, <2>1, <2>3, <1>2, <1>o
  <2>5. FramesOwn'
    BY <2>1, <2>4 DEF FramesOwn, OwnIn
  <2>6. ASSUME NEW q \in readySet', ~HasEvents(q)'
        PROVE  \E i \in 1 .. n + 1 : RunsIn(active', stack'[i], q)
    <3>1. CASE RunsIn(active', f, q)
      <4>1. n \in 1 .. n + 1
        BY <1>1
      <4> QED BY <3>1, <4>1, <1>2
    <3>2. CASE \E i \in 1 .. n - 1 : RunsIn(active', stack[i], q)
      <4>1. PICK i \in 1 .. n - 1 : RunsIn(active', stack[i], q)
        BY <3>2
      <4>2. i \in 1 .. n + 1 /\ stack'[i] = stack[i]
        BY <1>1, <1>2
      <4> QED BY <4>1, <4>2
    <3> QED BY <2>6, <3>1, <3>2, <1>o
  <2>7. ReadyJustified'
    BY <2>1, <2>6 DEF ReadyJustified, RunsIn, HasEvents
  <2> QED BY <2>5, <2>7
<1> QED BY <1>r, <1>p DEF Activates

\* f is at a similar place as the running frame.
Kindred(f) == /\ f.prio = Top.prio /\ f.obj = Top.obj
              /\ f.at = "get" <=> Top.at = "get"
              /\ f.at = "stop" <=> Top.at = "stop"

\* What is known of the frames below the top, and of the top.
LEMMA OwnFrames ==
    ASSUME SInv, EInv
    PROVE  /\ Len(stack) \in Nat
           /\ \A i \in 1 .. Len(stack) - 1 :
                /\ OwnIn(active, nEvts, hsm, stack[i]) /\ stack[i].prio < Top.prio
                /\ stack[i].prio \in 0 .. MAX_ACTIVE
           /\ OwnIn(active, nEvts, hsm, Top)
           /\ \A p \in readySet :
                \/ HasEvents(p) \/ RunsIn(active, Top, p)
                \/ \E i \in 1 .. Len(stack) - 1 : RunsIn(active, stack[i], p)
           /\ Top.prio \in 0 .. MAX_ACTIVE
<1> DEFINE n == Len(stack)
<1>1. n \in Nat /\ n >= 1 /\ Top = stack[n]
  BY StackFacts
<1>2. \A i \in 1 .. n : stack[i].prio \in 0 .. MAX_ACTIVE
  BY StackFacts DEF Frames
<1>3. \A i \in 1 .. n - 1 : stack[i].prio < Top.prio
  <2>1. n \in 1 .. n
    BY <1>1
  <2> QED BY <2>1, <1>1, Increasing
<1>4. \A i \in 1 .. n : OwnIn(active, nEvts, hsm, stack[i])
  BY DEF EInv, FramesOwn
<1>5. \A p \in readySet : HasEvents(p) \/ \E i \in 1 .. n : RunsIn(active, stack[i], p)
  BY DEF EInv, ReadyJustified
<1> HIDE DEF n
<1>6. n \in 1 .. n /\ \A i \in 1 .. n - 1 : i \in 1 .. n
  BY <1>1
<1>7. \A i \in 1 .. n : i = n \/ i \in 1 .. n - 1
  BY <1>1
<1>8. \A p \in readySet : \/ HasEvents(p) \/ RunsIn(active, Top, p)
                          \/ \E i \in 1 .. n - 1 : RunsIn(active, stack[i], p)
  <2> SUFFICES ASSUME NEW p \in readySet, ~HasEvents(p)
               PROVE  RunsIn(active, Top, p) \/ \E i \in 1 .. n - 1 : RunsIn(active, stack[i], p)
    OBVIOUS
  <2>1. PICK i \in 1 .. n : RunsIn(active, stack[i], p)
    BY <1>5
  <2> QED BY <2>1, <1>1, <1>7
<1>9. \A i \in 1 .. n - 1 : /\ OwnIn(active, nEvts, hsm, stack[i]) /\ stack[i].prio < Top.prio
                            /\ stack[i].prio \in 0 .. MAX_ACTIVE
  BY <1>2, <1>3, <1>4, <1>6
<1>10. OwnIn(active, nEvts, hsm, Top) /\ Top.prio \in 0 .. MAX_ACTIVE
  BY <1>1, <1>2, <1>4, <1>6
<1> QED BY <1>1, <1>8, <1>9, <1>10 DEF n

\* Posts to registered objects, or none, by the running frame or an interrupt.
LEMMA PostsEInv ==
    ASSUME SInv, EInv, OtherTypes', NEW f, Kindred(f), Activates(f),
           NEW objs \in SUBSET Objs, \A o \in objs : \E p \in Prios : active[p] = o,
           \A o \in Objs : nEvts'[o] = IF o \in objs THEN nEvts[o] + 1 ELSE nEvts[o],
           readySet \subseteq readySet',
           \A p \in readySet' : p \in readySet \/ \E o \in objs : p = PrioOf[o],
           \A o \in objs : nEvts[o] = 0 => PrioOf[o] \in readySet',
           UNCHANGED <<active, hsm>>, asrt' # "get110"
    PROVE  EInv'
<1> DEFINE n == Len(stack)
<1>0. OtherTypes
  BY SInvParts
<1>1. \A p \in Prios : active[p] # NULL => /\ PrioOf[active[p]] = p /\ active[p] \in Objs
                                           /\ hsm[active[p]] # "new"
  BY <1>0 DEF EInv, Registered, OtherTypes
<1>2. \A o \in Objs : nEvts[o] \in Nat /\ nEvts'[o] \in Nat /\ nEvts'[o] >= nEvts[o]
                      /\ (o \in objs => nEvts'[o] > 0)
  <2>1. \A o \in Objs : nEvts[o] \in Nat
    BY <1>0, QKAssumption DEF OtherTypes
  <2> QED BY <2>1
<1>3. \A o \in objs : active[PrioOf[o]] = o /\ PrioOf[o] \in Prios /\ o # NULL
  BY <1>1, QKAssumption
<1>4. Registered'
  BY DEF EInv, Registered
<1>5. ASSUME NEW g, OwnIn(active, nEvts, hsm, g)
      PROVE  OwnIn(active', nEvts', hsm', g)
  BY <1>2, <1>5 DEF OwnIn
<1>6. /\ \A i \in 1 .. n - 1 : OwnIn(active, nEvts, hsm, stack[i])
      /\ OwnIn(active, nEvts, hsm, Top)
      /\ \A p \in readySet :
                \/ HasEvents(p) \/ RunsIn(active, Top, p)
                \/ \E i \in 1 .. n - 1 : RunsIn(active, stack[i], p)
  BY OwnFrames
<1>7. OwnIn(active', nEvts', hsm', f)
  <2>1. OwnIn(active, nEvts, hsm, f)
    BY <1>6 DEF OwnIn, Kindred
  <2> QED BY <2>1, <1>5
<1>8. ASSUME NEW p \in readySet'
      PROVE  \/ HasEvents(p)' \/ RunsIn(active', f, p)
             \/ \E i \in 1 .. n - 1 : RunsIn(active', stack[i], p)
  <2>1. p \in Prios
    BY DEF OtherTypes
  <2>2. CASE \E o \in objs : p = PrioOf[o]
    BY <2>2, <1>2, <1>3 DEF HasEvents
  <2>3. CASE p \in readySet
    <3>1. CASE HasEvents(p)
      BY <3>1, <2>1, <1>1, <1>2 DEF HasEvents
    <3>2. CASE RunsIn(active, Top, p)
      BY <3>2 DEF RunsIn, Kindred
    <3>3. CASE \E i \in 1 .. n - 1 : RunsIn(active, stack[i], p)
      BY <3>3
    <3> QED BY <2>3, <3>1, <3>2, <3>3, <1>6
  <2> QED BY <2>2, <2>3
<1>9. FramesOwn' /\ ReadyJustified'
  <2>1. f.prio = Top.prio
    BY DEF Kindred
  <2>2. \A i \in 1 .. n - 1 : OwnIn(active', nEvts', hsm', stack[i])
    BY <1>5, <1>6
  <2> QED BY <2>1, <2>2, <1>4, <1>7, <1>8, ActivatesOwn
<1>10. NoLostWakeup'
  <2> SUFFICES ASSUME NEW p \in Prios, active[p] # NULL, nEvts'[active[p]] > 0
               PROVE  p \in readySet'
    BY DEF NoLostWakeup
  <2>1. active[p] \in Objs /\ PrioOf[active[p]] = p
    BY <1>1
  <2>2. CASE nEvts[active[p]] > 0
    BY <2>2 DEF EInv, NoLostWakeup
  <2>3. CASE ~(nEvts[active[p]] > 0)
    <3>1. nEvts[active[p]] = 0 /\ active[p] \in objs
      BY <2>1, <2>3, <1>2
    <3> QED BY <3>1, <2>1
  <2> QED BY <2>2, <2>3
<1> QED BY <1>4, <1>9, <1>10 DEF EInv

\* Steps that touch no queue.
LEMMA NeutralEInv ==
    ASSUME SInv, EInv, OtherTypes', NEW f, Kindred(f), Activates(f),
           UNCHANGED <<active, hsm, nEvts, readySet>>, asrt' # "get110"
    PROVE  EInv'
<1>1. {} \in SUBSET Objs
  OBVIOUS
<1> QED BY <1>1, PostsEInv

\* A step that leaves the stack alone activates nothing.
LEMMA TopActivates ==
    ASSUME SInv, stack' = stack, actPrio' = actPrio
    PROVE  Activates(Top) /\ Kindred(Top)
BY UnchangedReplaced DEF Activates, Kindred

\* A step that only exchanges the top frame activates nothing.
LEMMA ReplacedActivates ==
    ASSUME NEW g, Replaced(g), actPrio' = actPrio
    PROVE  Activates(g)
BY DEF Activates

\* A post keeps the accounts of events and ready bits.
LEMMA PostFromEInv ==
    ASSUME SInv, EInv, OtherTypes', NEW f, Kindred(f), Activates(f), NEW o \in Objs,
           NEW p \in Prios, active[p] = o, PostFrom(SetTop(f), o),
           UNCHANGED <<active, hsm>>, asrt' = asrt
    PROVE  EInv'
<1>1. {o} \in SUBSET Objs /\ \A x \in {o} : \E q \in Prios : active[q] = x
  OBVIOUS
<1>2. \A x \in Objs : nEvts'[x] = IF x \in {o} THEN nEvts[x] + 1 ELSE nEvts[x]
  BY SInvParts DEF PostFrom, OtherTypes
<1>3. /\ readySet \subseteq readySet'
      /\ \A q \in readySet' : q \in readySet \/ \E x \in {o} : q = PrioOf[x]
      /\ \A x \in {o} : nEvts[x] = 0 => PrioOf[x] \in readySet'
  BY DEF PostFrom
<1>4. asrt' # "get110"
  BY DEF EInv
<1> QED BY <1>1, <1>2, <1>3, <1>4, PostsEInv

\* The same for posts and publishes from ISRs.
LEMMA isrEInv ==
    ASSUME SInv, EInv, SInv', isrPublish \/ \E o \in Objs : isrPost(o)
    PROVE  EInv'
<1>0. OtherTypes'
  BY SInvParts, SInvNext DEF SInv, TypeOK, OtherTypes
<1>1. /\ asrt' # "get110" /\ UNCHANGED <<active, hsm, actPrio, stack>>
      /\ \/ UNCHANGED <<nEvts, readySet>>
         \/ \E objs \in SUBSET Objs :
              /\ \A o \in objs : \E p \in Prios : active[p] = o
              /\ PostAll(objs)
  BY isrPublishStep DEF EInv
<1>2. Activates(Top) /\ Kindred(Top)
  BY <1>1, TopActivates
<1>3. CASE UNCHANGED <<nEvts, readySet>>
  BY <1>0, <1>1, <1>2, <1>3, NeutralEInv
<1>4. CASE \E objs \in SUBSET Objs :
              /\ \A o \in objs : \E p \in Prios : active[p] = o
              /\ PostAll(objs)
  <2>1. PICK objs \in SUBSET Objs :
              /\ \A o \in objs : \E p \in Prios : active[p] = o
              /\ PostAll(objs)
    BY <1>4
  <2>2. \A o \in Objs : nEvts'[o] = IF o \in objs THEN nEvts[o] + 1 ELSE nEvts[o]
    BY <2>1 DEF PostAll
  <2>3. /\ readySet \subseteq readySet'
        /\ \A q \in readySet' : q \in readySet \/ \E x \in objs : q = PrioOf[x]
        /\ \A x \in objs : nEvts[x] = 0 => PrioOf[x] \in readySet'
    BY <2>1 DEF PostAll
  <2> QED BY <1>0, <1>1, <1>2, <2>1, <2>2, <2>3, PostsEInv
<1> QED BY <1>1, <1>3, <1>4

\* start() registers an object at its own priority.
LEMMA startEInv ==
    ASSUME OwnPriorities, SInv, EInv, SInv', NEW o \in Objs, start(o)
    PROVE  EInv'
<1> DEFINE n == Len(stack)
           r == PrioOf[o]
<1>0. OtherTypes /\ OtherTypes'
  BY SInvParts DEF SInv, TypeOK, OtherTypes
<1>1. /\ Top.at = "rtc" /\ hsm[o] = "new" /\ active[r] = NULL
      /\ nEvts' = [nEvts EXCEPT ![o] = 0]
      /\ active' = [active EXCEPT ![r] = o]
      /\ hsm' = [hsm EXCEPT ![o] = "init"]
      /\ UNCHANGED <<readySet, actPrio, asrt>>
  BY DEF start, At
<1>r. r \in Prios /\ o # NULL
  BY QKAssumption
<1> HIDE DEF r
<1>2. PICK f : Replaced(f) /\ f.prio = Top.prio /\ f.obj = Top.obj /\ f.at = "init"
  BY startStep
<1>3. Activates(f)
  BY <1>1, <1>2, ReplacedActivates
<1>4. \A p \in Prios : active'[p] = IF p = r THEN o ELSE active[p]
  BY <1>0, <1>1 DEF OtherTypes
<1>5. \A x \in Objs : /\ nEvts'[x] = IF x = o THEN 0 ELSE nEvts[x]
                      /\ hsm'[x] = IF x = o THEN "init" ELSE hsm[x]
  BY <1>0, <1>1 DEF OtherTypes
<1>6. \A p \in Prios : active[p] # NULL => /\ PrioOf[active[p]] = p /\ active[p] \in Objs
                                           /\ hsm[active[p]] # "new"
  BY <1>0 DEF EInv, Registered, OtherTypes
<1>7. Registered'
  BY <1>4, <1>5, <1>6, <1>r DEF Registered, r
<1>8. ASSUME NEW g, OwnIn(active, nEvts, hsm, g), g.prio \in 0 .. MAX_ACTIVE, g.prio > 0
      PROVE  g.obj \in Objs /\ g.obj # o /\ g.prio # r /\ g.prio \in Prios
  <2>1. g.obj \in Objs /\ g.obj # o /\ PrioOf[g.obj] = g.prio
    BY <1>1, <1>8 DEF OwnIn
  <2> QED BY <2>1, QKAssumption DEF OwnPriorities, r
<1>9. ASSUME NEW g, OwnIn(active, nEvts, hsm, g), g.prio \in 0 .. MAX_ACTIVE
      PROVE  OwnIn(active', nEvts', hsm', g)
  <2> SUFFICES ASSUME g.prio > 0 PROVE OwnIn(active', nEvts', hsm', g)
    BY DEF OwnIn
  <2>1. g.obj \in Objs /\ g.obj # o /\ g.prio # r /\ g.prio \in Prios
    BY <1>8, <1>9
  <2> QED BY <2>1, <1>4, <1>5, <1>9 DEF OwnIn
<1>10. /\ \A i \in 1 .. n - 1 : /\ OwnIn(active, nEvts, hsm, stack[i])
                                /\ stack[i].prio \in 0 .. MAX_ACTIVE
       /\ OwnIn(active, nEvts, hsm, Top) /\ Top.prio \in 0 .. MAX_ACTIVE
       /\ \A p \in readySet :
                \/ HasEvents(p) \/ RunsIn(active, Top, p)
                \/ \E i \in 1 .. n - 1 : RunsIn(active, stack[i], p)
  BY OwnFrames
<1>11. OwnIn(active', nEvts', hsm', f)
  <2>1. OwnIn(active, nEvts, hsm, f)
    BY <1>1, <1>2, <1>10 DEF OwnIn
  <2> QED BY <2>1, <1>2, <1>9, <1>10
<1>12. ASSUME NEW g, OwnIn(active, nEvts, hsm, g), g.prio \in 0 .. MAX_ACTIVE,
              NEW p \in Prios, RunsIn(active, g, p)
       PROVE  p # r /\ RunsIn(active', g, p)
  <2>1. g.prio = p /\ p > 0
    BY <1>12, PrioNumbers DEF RunsIn
  <2>2. p # r
    BY <2>1, <1>8, <1>12
  <2> QED BY <2>1, <2>2, <1>4, <1>12 DEF RunsIn
<1>13. ASSUME NEW p \in readySet'
       PROVE  \/ HasEvents(p)' \/ RunsIn(active', f, p)
              \/ \E i \in 1 .. n - 1 : RunsIn(active', stack[i], p)
  <2>1. p \in Prios /\ p \in readySet
    BY <1>0, <1>1 DEF OtherTypes
  <2>2. CASE HasEvents(p)
    <3>1. active[p] # NULL /\ nEvts[active[p]] > 0 /\ p # r
      BY <2>2, <1>1 DEF HasEvents
    <3>2. active[p] \in Objs /\ active[p] # o
      BY <2>1, <3>1, <1>1, <1>6
    <3> QED BY <2>1, <3>1, <3>2, <1>4, <1>5 DEF HasEvents
  <2>3. CASE RunsIn(active, Top, p)
    <3>1. RunsIn(active', Top, p)
      BY <2>1, <2>3, <1>10, <1>12
    <3> QED BY <3>1, <1>1, <1>2 DEF RunsIn
  <2>4. CASE \E i \in 1 .. n - 1 : RunsIn(active, stack[i], p)
    BY <2>1, <2>4, <1>10, <1>12
  <2> QED BY <2>1, <2>2, <2>3, <2>4, <1>10
<1>14. FramesOwn' /\ ReadyJustified'
  <2>1. \A i \in 1 .. n - 1 : OwnIn(active', nEvts', hsm', stack[i])
    BY <1>9, <1>10
  <2> QED BY <2>1, <1>0, <1>2, <1>3, <1>7, <1>11, <1>13, ActivatesOwn
<1>15. NoLostWakeup'
  <2> SUFFICES ASSUME NEW p \in Prios, active'[p] # NULL, nEvts'[active'[p]] > 0
               PROVE  p \in readySet'
    BY DEF NoLostWakeup
  <2>1. p # r
    <3> SUFFICES ASSUME p = r PROVE FALSE
      OBVIOUS
    <3>1. nEvts'[active'[p]] = 0
      BY <1>4, <1>5
    <3> QED BY <3>1
  <2>2. active'[p] = active[p] /\ active[p] \in Objs /\ active[p] # o
    BY <2>1, <1>1, <1>4, <1>6
  <2>3. nEvts[active[p]] > 0
    BY <2>2, <1>5
  <2> QED BY <2>2, <2>3, <1>1 DEF EInv, NoLostWakeup
<1>16. asrt' # "get110"
  BY <1>1 DEF EInv
<1> QED BY <1>7, <1>14, <1>15, <1>16 DEF EInv

\* The end of start() changes no account.
LEMMA startSchedEInv ==
    ASSUME SInv, EInv, SInv', startSched
    PROVE  EInv'
<1> DEFINE n == Len(stack)
<1>0. OtherTypes /\ OtherTypes'
  BY SInvParts DEF SInv, TypeOK, OtherTypes
<1>1. /\ Top.at = "init" /\ hsm' = [hsm EXCEPT ![Top.child] = "stable"]
      /\ UNCHANGED <<active, nEvts, readySet, asrt>>
  BY DEF startSched, At, InitReturns
<1>2. PICK f : Proper(f) /\ Activates(f) /\ f.obj = Top.obj /\ f.at = "rtc"
  BY startSchedStep
<1>3. f.prio = Top.prio
  BY <1>2 DEF Proper, Fits
<1>4. \A x \in Objs : hsm[x] # "new" => hsm'[x] # "new"
  BY <1>0, <1>1 DEF OtherTypes
<1>5. Registered'
  BY <1>0, <1>1, <1>4 DEF EInv, Registered, OtherTypes
<1>6. ASSUME NEW g, OwnIn(active, nEvts, hsm, g)
      PROVE  OwnIn(active', nEvts', hsm', g)
  BY <1>1, <1>4, <1>6 DEF OwnIn
<1>7. /\ \A i \in 1 .. n - 1 : OwnIn(active, nEvts, hsm, stack[i])
      /\ OwnIn(active, nEvts, hsm, Top)
      /\ \A p \in readySet :
                \/ HasEvents(p) \/ RunsIn(active, Top, p)
                \/ \E i \in 1 .. n - 1 : RunsIn(active, stack[i], p)
  BY OwnFrames
<1>8. OwnIn(active', nEvts', hsm', f)
  <2>1. OwnIn(active, nEvts, hsm, f)
    BY <1>1, <1>2, <1>3, <1>7 DEF OwnIn
  <2> QED BY <2>1, <1>6
<1>9. ASSUME NEW p \in readySet'
      PROVE  \/ HasEvents(p)' \/ RunsIn(active', f, p)
             \/ \E i \in 1 .. n - 1 : RunsIn(active', stack[i], p)
  <2>1. CASE HasEvents(p)
    BY <2>1, <1>1 DEF HasEvents
  <2>2. CASE RunsIn(active, Top, p)
    BY <2>2, <1>1, <1>2, <1>3 DEF RunsIn
  <2>3. CASE \E i \in 1 .. n - 1 : RunsIn(active, stack[i], p)
    BY <2>3, <1>1
  <2> QED BY <1>1, <1>7, <1>9, <2>1, <2>2, <2>3
<1>10. FramesOwn' /\ ReadyJustified'
  <2>1. \A i \in 1 .. n - 1 : OwnIn(active', nEvts', hsm', stack[i])
    BY <1>6, <1>7
  <2> QED BY <2>1, <1>0, <1>2, <1>3, <1>5, <1>8, <1>9, ActivatesOwn
<1>11. NoLostWakeup' /\ asrt' # "get110"
  BY <1>1 DEF EInv, NoLostWakeup
<1> QED BY <1>5, <1>10, <1>11 DEF EInv

\* stop() unregisters the object; its ready bit is still there.
LEMMA stopEInv ==
    ASSUME SInv, EInv, SInv', stop
    PROVE  EInv'
<1> DEFINE n == Len(stack)
           r == Top.prio
<1>0. OtherTypes /\ OtherTypes'
  BY SInvParts DEF SInv, TypeOK, OtherTypes
<1>1. /\ Top.at = "rtc" /\ r > 0 /\ active[actPrio] = Top.obj
      /\ active' = [active EXCEPT ![r] = NULL]
      /\ hsm' = [hsm EXCEPT ![Top.obj] = "stopped"]
      /\ UNCHANGED <<nEvts, readySet, actPrio, asrt>>
  BY DEF stop, CallOf, At
<1> HIDE DEF r
<1>2. PICK f : Replaced(f) /\ f.prio = r /\ f.obj = Top.obj /\ f.at = "stop"
  BY stopStep DEF r
<1>3. Activates(f)
  BY <1>1, <1>2, ReplacedActivates
<1>4. \A p \in Prios : active'[p] = IF p = r THEN NULL ELSE active[p]
  BY <1>0, <1>1 DEF OtherTypes
<1>5. \A x \in Objs : hsm[x] # "new" => hsm'[x] # "new"
  BY <1>0, <1>1 DEF OtherTypes
<1>6. Registered'
  BY <1>0, <1>4, <1>5 DEF EInv, Registered, OtherTypes
<1>7. /\ \A i \in 1 .. n - 1 : /\ OwnIn(active, nEvts, hsm, stack[i])
                               /\ stack[i].prio \in 0 .. MAX_ACTIVE /\ stack[i].prio < r
      /\ OwnIn(active, nEvts, hsm, Top) /\ r \in 0 .. MAX_ACTIVE
      /\ \A p \in readySet :
                \/ HasEvents(p) \/ RunsIn(active, Top, p)
                \/ \E i \in 1 .. n - 1 : RunsIn(active, stack[i], p)
  BY OwnFrames DEF r
<1>8. ASSUME NEW i \in 1 .. n - 1
      PROVE  OwnIn(active', nEvts', hsm', stack[i])
  <2>1. stack[i].prio # r /\ (stack[i].prio > 0 => stack[i].prio \in Prios)
    BY <1>7, PrioNumbers DEF Prios
  <2> QED BY <2>1, <1>1, <1>4, <1>5, <1>7 DEF OwnIn
<1>9. OwnIn(active', nEvts', hsm', f)
  <2>1. r \in Prios
    BY <1>1, <1>7, PrioNumbers DEF Prios
  <2>2. active'[r] = NULL
    BY <2>1, <1>4
  <2>3. Top.obj \in Objs /\ PrioOf[Top.obj] = r /\ hsm'[Top.obj] # "new"
    BY <1>1, <1>5, <1>7 DEF OwnIn, r
  <2> QED BY <2>2, <2>3, <1>2 DEF OwnIn
<1>10. ASSUME NEW p \in readySet'
       PROVE  \/ HasEvents(p)' \/ RunsIn(active', f, p)
              \/ \E i \in 1 .. n - 1 : RunsIn(active', stack[i], p)
  <2>1. p \in Prios /\ p \in readySet
    BY <1>0, <1>1 DEF OtherTypes
  <2>2. CASE p = r
    BY <2>2, <1>2 DEF RunsIn
  <2>3. CASE p # r
    <3>1. active'[p] = active[p]
      BY <2>1, <2>3, <1>4
    <3>2. ~RunsIn(active, Top, p)
      BY <2>3 DEF RunsIn, r
    <3>3. CASE HasEvents(p)
      BY <3>1, <3>3, <1>1 DEF HasEvents
    <3>4. CASE \E i \in 1 .. n - 1 : RunsIn(active, stack[i], p)
      BY <3>1, <3>4 DEF RunsIn
    <3> QED BY <2>1, <3>2, <3>3, <3>4, <1>7
  <2> QED BY <2>2, <2>3
<1>11. FramesOwn' /\ ReadyJustified'
  BY <1>0, <1>2, <1>3, <1>6, <1>8, <1>9, <1>10, ActivatesOwn DEF r
<1>12. NoLostWakeup'
  BY <1>1, <1>4 DEF EInv, NoLostWakeup
<1>13. asrt' # "get110"
  BY <1>1 DEF EInv
<1> QED BY <1>6, <1>11, <1>12, <1>13 DEF EInv

\* The end of stop() removes the ready bit.
LEMMA stopSchedEInv ==
    ASSUME SInv, EInv, SInv', stopSched
    PROVE  EInv'
<1> DEFINE n == Len(stack)
           r == Top.prio
<1>0. OtherTypes /\ OtherTypes'
  BY SInvParts DEF SInv, TypeOK, OtherTypes
<1>1. /\ Top.at = "stop" /\ readySet' = readySet \ {r}
      /\ UNCHANGED <<active, hsm, nEvts, asrt>>
  BY DEF stopSched, At, NotReady, qf
<1> HIDE DEF r
<1>2. PICK f : Proper(f) /\ Activates(f) /\ f.obj = Top.obj /\ f.at = "rtc"
  BY stopSchedStep
<1>3. f.prio = r
  BY <1>2 DEF Proper, Fits, r
<1>4. Registered'
  BY <1>1 DEF EInv, Registered
<1>5. /\ \A i \in 1 .. n - 1 : OwnIn(active, nEvts, hsm, stack[i])
      /\ OwnIn(active, nEvts, hsm, Top) /\ r \in 0 .. MAX_ACTIVE
      /\ \A p \in readySet :
                \/ HasEvents(p) \/ RunsIn(active, Top, p)
                \/ \E i \in 1 .. n - 1 : RunsIn(active, stack[i], p)
  BY OwnFrames DEF r
<1>6. r > 0 /\ active[r] = NULL
  <2>1. r # 0
    BY <1>1, StackFacts DEF Sound, r
  <2>2. r > 0
    BY <2>1, <1>5
  <2> QED BY <2>2, <1>1, <1>5 DEF OwnIn, r
<1>7. OwnIn(active', nEvts', hsm', f)
  BY <1>1, <1>2, <1>3, <1>5 DEF OwnIn, r
<1>8. ASSUME NEW p \in readySet'
      PROVE  \/ HasEvents(p)' \/ RunsIn(active', f, p)
             \/ \E i \in 1 .. n - 1 : RunsIn(active', stack[i], p)
  <2>1. p \in readySet /\ p # r
    BY <1>1
  <2>2. ~RunsIn(active, Top, p)
    BY <2>1 DEF RunsIn, r
  <2>3. CASE HasEvents(p)
    BY <2>3, <1>1 DEF HasEvents
  <2>4. CASE \E i \in 1 .. n - 1 : RunsIn(active, stack[i], p)
    BY <2>4, <1>1
  <2> QED BY <2>1, <2>2, <2>3, <2>4, <1>5
<1>9. FramesOwn' /\ ReadyJustified'
  <2>1. \A i \in 1 .. n - 1 : OwnIn(active', nEvts', hsm', stack[i])
    BY <1>1, <1>5
  <2>2. f.prio = Top.prio
    BY <1>3 DEF r
  <2> QED BY <2>1, <2>2, <1>0, <1>2, <1>4, <1>7, <1>8, ActivatesOwn
<1>10. NoLostWakeup'
  BY <1>1, <1>6 DEF EInv, NoLostWakeup
<1>11. asrt' # "get110"
  BY <1>1 DEF EInv
<1> QED BY <1>4, <1>9, <1>10, <1>11 DEF EInv

\* A step that begins has an event.
LEMMA get_EInv ==
    ASSUME SInv, EInv, SInv', get_
    PROVE  EInv'
<1> DEFINE n == Len(stack)
           r == Top.prio
           o == Top.obj
           f == [Top EXCEPT !.at = "rtc", !.fuel = Fuel]
<1>0. OtherTypes /\ OtherTypes'
  BY SInvParts DEF SInv, TypeOK, OtherTypes
<1>1. Top.at = "get" /\ r > 0 /\ Top \in Frames
  BY get_Step, StackFacts
<1>2. /\ \A i \in 1 .. n - 1 : /\ OwnIn(active, nEvts, hsm, stack[i])
                               /\ stack[i].prio \in 0 .. MAX_ACTIVE /\ stack[i].prio < r
      /\ OwnIn(active, nEvts, hsm, Top) /\ r \in 0 .. MAX_ACTIVE
      /\ \A p \in readySet :
                \/ HasEvents(p) \/ RunsIn(active, Top, p)
                \/ \E i \in 1 .. n - 1 : RunsIn(active, stack[i], p)
  BY OwnFrames
<1>3. o \in Objs /\ PrioOf[o] = r /\ active[r] = o /\ nEvts[o] > 0 /\ hsm[o] # "new"
  BY <1>1, <1>2 DEF OwnIn
<1>4. nEvts[o] \in Nat /\ nEvts[o] # 0
  BY <1>0, <1>3, QKAssumption DEF OtherTypes
<1>5. /\ UNCHANGED <<active, hsm, readySet, actPrio>>
      /\ \/ asrt' = "dispatch400" /\ UNCHANGED <<nEvts, stack>>
         \/ nEvts' = [nEvts EXCEPT ![o] = @ - 1] /\ stack' = SetTop(f) /\ asrt' = asrt
  BY <1>4 DEF get_, qf
<1>6. CASE asrt' = "dispatch400" /\ UNCHANGED <<nEvts, stack>>
  <2>1. Activates(Top) /\ Kindred(Top)
    BY <1>5, <1>6, TopActivates
  <2>2. asrt' # "get110"
    BY <1>6
  <2> QED BY <2>1, <2>2, <1>0, <1>5, <1>6, NeutralEInv
<1>7. CASE nEvts' = [nEvts EXCEPT ![o] = @ - 1] /\ stack' = SetTop(f) /\ asrt' = asrt
  <2>f. f \in Frames /\ f.at = "rtc" /\ f.obj = o /\ f.prio = r
    <3>1. Fuel \in Int
      BY QKAssumption
    <3> QED BY <3>1, <1>1 DEF Frames, Places
  <2> HIDE DEF f, o, r
  <2>1. Replaced(f)
    BY <2>f, <1>7, SetTopReplaced
  <2>2. Activates(f)
    BY <2>1, <1>5, ReplacedActivates
  <2>3. \A x \in Objs : nEvts[x] \in Nat /\ nEvts'[x] = IF x = o THEN nEvts[x] - 1 ELSE nEvts[x]
    BY <1>0, <1>7, QKAssumption DEF OtherTypes
  <2>4. Registered'
    BY <1>5 DEF EInv, Registered
  <2>5. ASSUME NEW i \in 1 .. n - 1
        PROVE  OwnIn(active', nEvts', hsm', stack[i])
    <3>1. stack[i].prio # r
      BY <1>2
    <3>2. stack[i].prio > 0 => stack[i].obj # o
      BY <3>1, <1>2, <1>3 DEF OwnIn
    <3> QED BY <3>2, <2>3, <1>2, <1>5 DEF OwnIn
  <2>6. OwnIn(active', nEvts', hsm', f)
    BY <2>f, <1>3, <1>5 DEF OwnIn
  <2>7. ASSUME NEW p \in readySet'
        PROVE  \/ HasEvents(p)' \/ RunsIn(active', f, p)
               \/ \E i \in 1 .. n - 1 : RunsIn(active', stack[i], p)
    <3>1. p \in Prios /\ p \in readySet
      BY <1>0, <1>5 DEF OtherTypes
    <3>2. CASE p = r
      BY <3>2, <2>f, <1>3, <1>5 DEF RunsIn
    <3>3. CASE p # r
      <4>1. ~RunsIn(active, Top, p)
        BY <3>3 DEF RunsIn, r
      <4>2. CASE HasEvents(p)
        <5>1. active[p] # o /\ active[p] \in Objs
          BY <3>1, <3>3, <4>2, <1>0, <1>3 DEF EInv, Registered, HasEvents, OtherTypes
        <5> QED BY <5>1, <4>2, <2>3, <1>5 DEF HasEvents
      <4>3. CASE \E i \in 1 .. n - 1 : RunsIn(active, stack[i], p)
        BY <4>3, <1>5
      <4> QED BY <3>1, <4>1, <4>2, <4>3, <1>2
    <3> QED BY <3>2, <3>3
  <2>8. FramesOwn' /\ ReadyJustified'
    <3>1. f.prio = Top.prio
      BY <2>f DEF r
    <3> QED BY <3>1, <1>0, <2>2, <2>4, <2>5, <2>6, <2>7, ActivatesOwn
  <2>9. NoLostWakeup'
    <3> SUFFICES ASSUME NEW p \in Prios, active[p] # NULL, nEvts'[active[p]] > 0
                 PROVE  p \in readySet
      BY <1>5 DEF NoLostWakeup
    <3>1. active[p] \in Objs
      BY <1>0 DEF OtherTypes
    <3>2. nEvts[active[p]] > 0
      BY <3>1, <2>3
    <3> QED BY <3>2 DEF EInv, NoLostWakeup
  <2>10. asrt' # "get110"
    BY <1>7 DEF EInv
  <2> QED BY <2>4, <2>8, <2>9, <2>10 DEF EInv
<1> QED BY <1>5, <1>6, <1>7

\* The ready bit is removed when the last event has been processed, and only then.
LEMMA rtcEndEInv ==
    ASSUME OwnPriorities, SInv, EInv, SInv', rtcEnd
    PROVE  EInv'
<1> DEFINE n == Len(stack)
           r == Top.prio
           o == Top.obj
<1>0. OtherTypes /\ OtherTypes'
  BY SInvParts DEF SInv, TypeOK, OtherTypes
<1>1. Top.at = "rtc" /\ r > 0 /\ Resumes
  BY rtcEndStep
<1>2. /\ UNCHANGED <<active, hsm, nEvts, asrt>>
      /\ readySet' = IF nEvts[o] = 0 THEN readySet \ {r} ELSE readySet
  BY DEF rtcEnd, qf, ReadyAfter
<1>3. /\ \A i \in 1 .. n - 1 : /\ OwnIn(active, nEvts, hsm, stack[i])
                               /\ stack[i].prio \in 0 .. MAX_ACTIVE
      /\ OwnIn(active, nEvts, hsm, Top)
      /\ \A p \in readySet :
                \/ HasEvents(p) \/ RunsIn(active, Top, p)
                \/ \E i \in 1 .. n - 1 : RunsIn(active, stack[i], p)
  BY OwnFrames
<1>4. o \in Objs /\ PrioOf[o] = r /\ o # NULL
  BY <1>1, <1>3, QKAssumption DEF OwnIn
<1>n. n \in Nat /\ n >= 2 /\ Top = stack[n]
  BY <1>1, StackFacts
<1>p. \A i \in 1 .. n - 1 : stack[i].prio <= Top.pin
  <2>1. Top.pin = stack[n - 1].prio
    <3>1. \A i \in 2 .. n : stack[i].pin = stack[i-1].prio
      BY DEF SInv, StackNested
    <3> HIDE DEF n
    <3>2. n \in 2 .. n
      BY <1>n
    <3> QED BY <3>1, <3>2, <1>n
  <2>2. n - 1 \in 1 .. Len(stack)
    BY <1>n
  <2>3. \A i \in 1 .. (n - 1) - 1 : stack[i].prio < stack[n - 1].prio
    BY <2>2, Increasing
  <2> HIDE DEF n
  <2> SUFFICES ASSUME NEW i \in 1 .. n - 1 PROVE stack[i].prio <= stack[n - 1].prio
    BY <2>1
  <2>4. i = n - 1 \/ i \in 1 .. (n - 1) - 1
    BY <1>n
  <2>5. stack[i].prio \in 0 .. MAX_ACTIVE /\ stack[n - 1].prio \in 0 .. MAX_ACTIVE
    <3>1. n - 1 \in 1 .. n - 1
      BY <1>n
    <3> QED BY <3>1, <1>3
  <2> QED BY <2>3, <2>4, <2>5
<1>5. ASSUME NEW p \in readySet'
      PROVE  HasEvents(p) \/ \E i \in 1 .. n - 1 : RunsIn(active, stack[i], p)
  <2>1. p \in readySet
    BY <1>2
  <2>2. CASE RunsIn(active, Top, p)
    <3>1. p = r /\ active[p] = o
      BY <2>2, <1>1 DEF RunsIn
    <3>2. nEvts[o] # 0
      BY <3>1, <1>2
    <3>3. nEvts[o] > 0
      BY <3>2, <1>0, <1>4, QKAssumption DEF OtherTypes
    <3> QED BY <3>1, <3>3, <1>4 DEF HasEvents
  <2> QED BY <2>1, <2>2, <1>3
<1> HIDE DEF o, r
<1>6. \A i \in 1 .. n - 1 : stack'[i] = stack[i]
  BY <1>1 DEF Resumes, Succeeds, Replaced, Popped
<1>7. Registered'
  BY <1>2 DEF EInv, Registered
<1>8. FramesOwn' /\ n - 1 <= Len(stack')
  <2>1. CASE Popped
    <3>1. Len(stack') = n - 1
      BY <2>1 DEF Popped
    <3> HIDE DEF n
    <3>2. \A i \in 1 .. n - 1 : OwnIn(active', nEvts', hsm', stack'[i])
      BY <1>2, <1>3, <1>6
    <3> QED BY <3>1, <3>2, <1>n DEF FramesOwn, OwnIn
  <2>2. CASE \E p \in readySet' : Succeeds(p, active[p])
    <3>0. PICK p \in readySet' : Succeeds(p, active[p])
      BY <2>2
    <3> DEFINE g == Frame(p, active[p], Top.pin)
    <3>1. Len(stack') = n /\ stack'[n] = g /\ p > Top.pin
      BY <3>0 DEF Succeeds, Replaced
    <3>2. p \in Prios /\ active[p] \in Objs \cup {NULL} /\ Top.pin \in 0 .. MAX_ACTIVE
      BY <1>0, <3>0, StackFacts DEF OtherTypes, Frames
    <3>g. g.prio = p /\ g.obj = active[p] /\ g.at = "get"
      BY DEF Frame
    <3> HIDE DEF n, g
    <3>3. HasEvents(p)
      <4>1. \A i \in 1 .. n - 1 : ~RunsIn(active, stack[i], p)
        <5> SUFFICES ASSUME NEW i \in 1 .. n - 1, stack[i].prio = p PROVE FALSE
          BY DEF RunsIn
        <5>1. p <= Top.pin /\ p \in Nat
          BY <3>2, <1>p, PrioNumbers
        <5> QED BY <5>1, <3>1, <3>2
      <4> QED BY <4>1, <3>0, <1>5
    <3>4. OwnIn(active', nEvts', hsm', g)
      <4>1. active[p] # NULL /\ nEvts[active[p]] > 0
        BY <3>3 DEF HasEvents
      <4>2. PrioOf[active[p]] = p /\ hsm[active[p]] # "new"
        BY <4>1, <3>2 DEF EInv, Registered
      <4> QED BY <4>1, <4>2, <3>2, <3>g, <1>2 DEF OwnIn
    <3>5. \A i \in 1 .. n : OwnIn(active', nEvts', hsm', stack'[i])
      <4> SUFFICES ASSUME NEW i \in 1 .. n PROVE OwnIn(active', nEvts', hsm', stack'[i])
        OBVIOUS
      <4>1. i = n \/ i \in 1 .. n - 1
        BY <1>n
      <4>2. CASE i = n
        BY <4>2, <3>1, <3>4
      <4>3. CASE i \in 1 .. n - 1
        BY <4>3, <1>2, <1>3, <1>6
      <4> QED BY <4>1, <4>2, <4>3
    <3> QED BY <3>1, <3>5, <1>n DEF FramesOwn, OwnIn
  <2> QED BY <2>1, <2>2, <1>1 DEF Resumes
<1>9. ReadyJustified'
  <2> SUFFICES ASSUME NEW p \in readySet', ~HasEvents(p)'
               PROVE  \E i \in 1 .. Len(stack') : RunsIn(active', stack'[i], p)
    BY DEF ReadyJustified, HasEvents, RunsIn
  <2>1. ~HasEvents(p)
    BY <1>2 DEF HasEvents
  <2>2. PICK i \in 1 .. n - 1 : RunsIn(active, stack[i], p)
    BY <2>1, <1>5
  <2>3. i \in 1 .. Len(stack')
    <3> DEFINE m == Len(stack')
    <3>1. m \in Nat /\ n - 1 <= m
      BY <1>8, LenProperties DEF SInv, TypeOK
    <3> HIDE DEF m, n
    <3> QED BY <3>1, <1>n DEF m
  <2> QED BY <2>2, <2>3, <1>2, <1>6
<1>10. NoLostWakeup'
  <2> SUFFICES ASSUME NEW p \in Prios, active[p] # NULL, nEvts[active[p]] > 0
               PROVE  p \in readySet'
    BY <1>2 DEF NoLostWakeup
  <2>1. p \in readySet
    BY DEF EInv, NoLostWakeup
  <2>2. active[p] \in Objs /\ PrioOf[active[p]] = p
    BY <1>0 DEF OtherTypes, EInv, Registered
  <2>3. CASE p = r
    <3>1. active[p] = o
      BY <2>2, <2>3, <1>4 DEF OwnPriorities
    <3>2. nEvts[o] # 0
      BY <3>1
    <3> QED BY <3>2, <2>1, <1>2
  <2>4. CASE p # r
    BY <2>1, <2>4, <1>2
  <2> QED BY <2>3, <2>4
<1>11. asrt' # "get110"
  BY <1>2 DEF EInv
<1> QED BY <1>7, <1>8, <1>9, <1>10, <1>11 DEF EInv

\* The other services of the running frame change no queue.
LEMMA ServicesEInv ==
    ASSUME SInv, EInv, SInv',
           \/ \E c \in Ceilings : schedLock(c)
           \/ publishLock \/ schedUnlock \/ restoreLock \/ publishUnlock
           \/ publish_ \/ subscribe \/ unsubscribe \/ run
    PROVE  EInv'
<1>0. OtherTypes'
  BY DEF SInv, TypeOK, OtherTypes
<1>1. /\ UNCHANGED <<active, hsm, nEvts, readySet>>
      /\ Top.at \in {"rtc", "copied", "multicast", "unlock"}
  BY DEF schedLock, publishLock, schedUnlock, restoreLock, publishUnlock, publish_,
         subscribe, unsubscribe, run, CallOf, At, qf
<1>2. asrt' = asrt
  <2>1. CASE schedUnlock
    BY <2>1, schedUnlockStep
  <2>2. CASE publishUnlock
    BY <2>2, publishUnlockStep
  <2>4. CASE restoreLock
    BY <2>4, restoreLockStep
  <2>3. CASE \/ \E c \in Ceilings : schedLock(c)
             \/ publishLock \/ publish_ \/ subscribe \/ unsubscribe \/ run
    BY <2>3 DEF schedLock, publishLock, publish_, subscribe, unsubscribe, run
  <2> QED BY <2>1, <2>2, <2>3, <2>4
<1>3. \E f : /\ Activates(f) /\ f.prio = Top.prio /\ f.obj = Top.obj
             /\ f.at \in {"rtc", "copied", "multicast", "unlock", "idle"}
  <2>1. CASE \E c \in Ceilings : schedLock(c)
    <3>1. PICK c \in Ceilings : schedLock(c)
      BY <2>1
    <3>2. actPrio' = actPrio
      BY <3>1 DEF schedLock
    <3> QED BY <3>1, <3>2, schedLockStep, ReplacedActivates
  <2>2. CASE publishLock
    <3>1. actPrio' = actPrio
      BY <2>2 DEF publishLock
    <3> QED BY <2>2, <3>1, publishLockStep, ReplacedActivates
  <2>3. CASE publish_
    <3>1. actPrio' = actPrio
      BY <2>3 DEF publish_
    <3>2. PICK g : /\ Replaced(g) /\ g.prio = Top.prio /\ g.obj = Top.obj
                   /\ g.at \in {"rtc", "copied"}
      BY <2>3, publish_Step
    <3> QED BY <3>1, <3>2, ReplacedActivates
  <2>4. CASE subscribe \/ unsubscribe
    <3>1. actPrio' = actPrio
      BY <2>4 DEF subscribe, unsubscribe
    <3> QED BY <2>4, <3>1, subscribeStep, ReplacedActivates
  <2>5. CASE schedUnlock
    BY <2>5, schedUnlockStep DEF Proper, Fits
  <2>6. CASE publishUnlock
    BY <2>6, publishUnlockStep DEF Proper, Fits
  <2>7. CASE run
    BY <2>7, runStep
  <2>8. CASE restoreLock
    BY <2>8, restoreLockStep DEF Proper, Fits
  <2> QED BY <2>1, <2>2, <2>3, <2>4, <2>5, <2>6, <2>7, <2>8
<1>4. PICK f : /\ Activates(f) /\ f.prio = Top.prio /\ f.obj = Top.obj
               /\ f.at \in {"rtc", "copied", "multicast", "unlock", "idle"}
  BY <1>3
<1>5. Kindred(f)
  BY <1>1, <1>4 DEF Kindred
<1>6. asrt' # "get110"
  BY <1>2 DEF EInv
<1> QED BY <1>0, <1>1, <1>4, <1>5, <1>6, NeutralEInv

\* The same for an event handler or an initial transition that posts.
LEMMA postEInv ==
    ASSUME SInv, EInv, SInv', NEW o \in Objs, post(o) \/ initPost(o)
    PROVE  EInv'
<1>0. OtherTypes'
  BY DEF SInv, TypeOK, OtherTypes
<1>1. /\ Top.at \in {"rtc", "init"} /\ active[PrioOf[o]] = o
      /\ PostFrom(SetTop(Spend(Top)), o)
      /\ UNCHANGED <<active, hsm>> /\ asrt' = asrt
  BY DEF post, initPost, CallOf, At, Postable, qf
<1>2. PrioOf[o] \in Prios
  BY QKAssumption
<1>3. Activates(Spend(Top)) /\ Kindred(Spend(Top))
  BY <1>1, postStep, Spent DEF Kindred, Proper, Fits
<1> QED BY <1>0, <1>1, <1>2, <1>3, PostFromEInv

\* The same for publish_.
LEMMA multicastEInv ==
    ASSUME SInv, EInv, SInv', multicast
    PROVE  EInv'
<1>0. OtherTypes'
  BY DEF SInv, TypeOK, OtherTypes
<1>1. UNCHANGED <<active, hsm>> /\ Top.at = "multicast"
  BY DEF multicast, At, qf
<1>2. CASE UNCHANGED <<active, hsm, nEvts, readySet, actPrio, stack>> /\ asrt' # "get110"
  <2>1. Activates(Top) /\ Kindred(Top)
    BY <1>2, TopActivates
  <2> QED BY <2>1, <1>0, <1>2, NeutralEInv
<1>3. CASE /\ asrt' = asrt /\ Activates(Posted)
           /\ \E p \in Prios : active[p] \in Objs /\ PostFrom(SetTop(Posted), active[p])
  <2>1. PICK p \in Prios : active[p] \in Objs /\ PostFrom(SetTop(Posted), active[p])
    BY <1>3
  <2>2. Kindred(Posted)
    BY <1>1, PostedProper DEF Kindred, Proper, Fits
  <2> QED BY <2>1, <2>2, <1>0, <1>1, <1>3, PostFromEInv
<1> QED BY <1>2, <1>3, multicastStep

\* Steps that leave the frames and the queues.
LEMMA StillEInv ==
    ASSUME SInv, EInv, SInv', isrEntry \/ isrExit \/ initSubscribe \/ UNCHANGED vars
    PROVE  EInv'
<1>0. OtherTypes'
  BY DEF SInv, TypeOK, OtherTypes
<1>1. UNCHANGED <<active, hsm, nEvts, readySet, actPrio, stack, asrt>>
  BY DEF isrEntry, isrExit, initSubscribe, vars, qf
<1>2. Activates(Top) /\ Kindred(Top)
  BY <1>1, TopActivates
<1>3. asrt' # "get110"
  BY <1>1 DEF EInv
<1> QED BY <1>0, <1>1, <1>2, <1>3, NeutralEInv

\* The activator that an interrupt caused changes no queue.
LEMMA PendSV_HandlerEInv ==
    ASSUME SInv, EInv, SInv', PendSV_Handler
    PROVE  EInv'
<1>0. OtherTypes'
  BY DEF SInv, TypeOK, OtherTypes
<1>1. Kindred(Top)
  BY DEF Kindred
<1>2. asrt' # "get110"
  BY PendSV_HandlerStep DEF EInv
<1> QED BY <1>0, <1>1, <1>2, PendSV_HandlerStep, NeutralEInv

\* No events and no ready bits at first.
LEMMA InitEInv == Init => EInv
<1> SUFFICES ASSUME Init PROVE EInv
  OBVIOUS
<1>1. /\ active = [p \in Prios |-> NULL] /\ readySet = {} /\ asrt = "none"
      /\ Len(stack) = 1 /\ stack[1].prio = 0
  BY DEF Init, Frame
<1>2. Registered /\ NoLostWakeup /\ ReadyJustified
  BY <1>1 DEF Registered, NoLostWakeup, ReadyJustified
<1>3. FramesOwn
  BY <1>1 DEF FramesOwn, OwnIn
<1> QED BY <1>1, <1>2, <1>3 DEF EInv

\* Every step keeps the accounts.
LEMMA NextEInv ==
    ASSUME OwnPriorities, SInv, EInv, SInv', [Next]_vars
    PROVE  EInv'
<1>1. CASE isrEntry \/ isrExit \/ initSubscribe \/ UNCHANGED vars
  BY <1>1, StillEInv
<1>2. CASE \E o \in Objs : post(o) \/ start(o) \/ initPost(o)
  BY <1>2, postEInv, startEInv
<1>3. CASE \/ \E c \in Ceilings : schedLock(c)
           \/ publishLock \/ schedUnlock \/ restoreLock \/ publishUnlock
           \/ publish_ \/ subscribe \/ unsubscribe \/ run
  BY <1>3, ServicesEInv
<1>4. CASE get_ \/ rtcEnd \/ multicast
  BY <1>4, get_EInv, rtcEndEInv, multicastEInv
<1>5. CASE startSched \/ stop \/ stopSched
  BY <1>5, startSchedEInv, stopEInv, stopSchedEInv
<1>6. CASE isrPublish \/ \E o \in Objs : isrPost(o)
  BY <1>6, isrEInv
<1>7. CASE PendSV_Handler
  BY <1>7, PendSV_HandlerEInv
<1> QED BY <1>1, <1>2, <1>3, <1>4, <1>5, <1>6, <1>7 DEF Next, Thread

\* Both invariants hold.
LEMMA EInvHolds ==
    ASSUME OwnPriorities
    PROVE  Spec => [](SInv /\ EInv)
<1>1. SInv /\ EInv /\ [Next]_vars => (SInv /\ EInv)'
  BY NextSInv, NextEInv
<1> QED BY <1>1, InitSInv, InitEInv, PTL DEF Spec

-----------------------------------------------------------------------------
(***************************************************************************)
(* The theorems about wake-ups.                                            *)
(***************************************************************************)
\* The priority of an object with events is in the ready set of QK, however
\* posts, interrupts, preemption, starting and stopping interleave.
THEOREM WakeupsKept ==
    ASSUME OwnPriorities
    PROVE  Spec => []NoLostWakeup
<1>1. SInv /\ EInv => NoLostWakeup
  BY DEF EInv
<1> QED BY <1>1, EInvHolds, PTL

\* schedUnlock() finds its lock, QK_activate_() has a priority and get_() an
\* event: the kernel's own assertions never fire.
THEOREM KernelNeverAsserts ==
    ASSUME OwnPriorities
    PROVE  Spec => []NoKernelAssertion
<1>1. SInv /\ EInv => NoKernelAssertion
  BY DEF SInv, EInv, NoLockAssertion, NoKernelAssertion
<1> QED BY <1>1, EInvHolds, PTL

=============================================================================
