--------------------------- MODULE QTimeEvtProofs ---------------------------
(***************************************************************************)
(* For any number of time events, ticks and queue lengths: the lists of    *)
(* time events stay well formed, also under the lost updates of            *)
(* wasDisarmed(), events expire on time and once, and no tick is stranded  *)
(* in the ticker.                                                          *)
(*                                                                         *)
(* The invariant arranges the linked time events in two sets: the ones     *)
(* that the scan of tickX_ has passed and the ones it has ahead.  Every    *)
(* statement that changes a link is one of five changes of that shape.     *)
(***************************************************************************)
EXTENDS QTimeEvt, FiniteSetTheorems, WellFoundedInduction, TLAPS

\* A non-empty set of naturals has a smallest element.
LEMMA SmallestExists ==
    ASSUME NEW S, S \subseteq Nat, S # {}
    PROVE  \E x \in S : \A y \in S : x <= y
<1>1. PICK x \in S : \A y \in S : ~(<<y, x>> \in OpToRel(<, Nat))
  BY WFMin, NatLessThanWellFounded
<1>2. \A y \in S : ~(y < x)
  BY <1>1 DEF OpToRel
<1> QED BY <1>2

\* The elements that have a link.

Elems == TimeEvts \cup {Head}

\* The links nx from Head run through s[1], ..., s[n], those from fr through
\* g[1], ..., g[l], and no event is there twice.
Lists(nx, fr, m, s, l, g) ==
    /\ s[0] = Head /\ \A i \in 1 .. m : s[i] \in TimeEvts
    /\ \A i, j \in 0 .. m : s[i] = s[j] => i = j
    /\ \A i, j \in 1 .. l : g[i] = g[j] => i = j
    /\ \A i \in 1 .. m, j \in 1 .. l : s[i] # g[j]
    /\ \A i \in 0 .. m : nx[s[i]] = IF i = m THEN NULL ELSE s[i + 1]
    /\ fr = IF l = 0 THEN NULL ELSE g[1]
    /\ \A i \in 1 .. l : nx[g[i]] = IF i = l THEN NULL ELSE g[i + 1]

\* The scan stands at pv, the k-th event of the main list; it has seen the
\* events of S and has those of A ahead.
Stands(pv, S, A, m, s, l, g, k) ==
    /\ pv = s[k]
    /\ S = {s[i] : i \in 1 .. k}
    /\ A = {s[i] : i \in k + 1 .. m} \cup {g[i] : i \in 1 .. l}

\* The two lists and where the scan stands in them, the order left out.
Shape(nx, fr, pv, S, A) ==
    \E m, l \in Nat :
        \E s \in [0 .. m -> Elems], g \in [1 .. l -> TimeEvts], k \in 0 .. m :
            Lists(nx, fr, m, s, l, g) /\ Stands(pv, S, A, m, s, l, g, k)

-----------------------------------------------------------------------------
(***************************************************************************)
(* The inductive invariant.                                                *)
(***************************************************************************)
\* Listed events have the flag; without wasDisarmed() no others have it.
Flags(S, A) == /\ \A t \in S \cup A : linked[t]
               /\ "wasDisarmed" \notin Ops =>
                     \A t \in TimeEvts : /\ linked[t] => t \in S \cup A
                                         /\ m_ctr[t] > 0 => linked[t]

\* The counters of the events ahead are one tick behind during a tick.
Ahead == IF tick = "idle" THEN 0 ELSE 1

\* An armed event that is listed has the ticks left that its due time asks
\* for, and the ones ahead have not expired in this tick.
Timed(S, A) ==
    /\ \A t \in S : m_ctr[t] > 0 => m_ctr[t] = due[t] - age[t]
    /\ \A t \in A : /\ m_ctr[t] > 0 => m_ctr[t] = due[t] - age[t] + Ahead
                    /\ fired[t] = 0

\* Types.
LinkTypes == /\ m_next \in [Elems -> TimeEvts \cup {NULL}]
             /\ fresh \in TimeEvts \cup {NULL}
             /\ prev \in Elems
             /\ tick \in {"idle", "scan", "post"}

TimeTypes == /\ m_ctr \in [TimeEvts -> Nat]
             /\ m_interval \in [TimeEvts -> 0 .. MaxTicks]
             /\ due \in [TimeEvts -> 0 .. MaxTicks]
             /\ age \in [TimeEvts -> Nat]
             /\ fire \in [due : Nat, age : Nat]
             /\ fired \in [TimeEvts -> Nat]
             /\ m_tail \in Nat

FlagTypes ==
    /\ linked \in [TimeEvts -> BOOLEAN]
    /\ disarmed \in [TimeEvts -> BOOLEAN]
    /\ byte \in [TimeEvts -> {NULL} \cup [linked : BOOLEAN, disarmed : BOOLEAN]]

TypeInv == LinkTypes /\ TimeTypes /\ FlagTypes

\* A time event that wasDisarmed() is asked about is used by its task only.
Owned == "wasDisarmed" \in Ops => "shared" \notin Ops

\* The flags that wasDisarmed() read and will write back: not the unlinked
\* state of an event that is linked by now.
Bytes == \A t \in TimeEvts :
    /\ byte[t] # NULL => (linked[t] => byte[t].linked)
    /\ "wasDisarmed" \notin Ops => byte[t] = NULL

\* Between two ticks.
Rest == /\ tick = "idle" => prev = Head /\ \A t \in TimeEvts : fired[t] = 0
        /\ TickInIsr \/ \A t \in TimeEvts : fired[t] = 0

\* The lists, the flags and the times.
ListInv == \E S, A \in SUBSET TimeEvts :
              /\ Shape(m_next, fresh, prev, S, A)
              /\ Flags(S, A)
              /\ TickInIsr => Timed(S, A)

IInv == /\ TypeInv /\ Bytes /\ Rest /\ ListInv
        /\ OncePerTick /\ (TickInIsr => OnTime) /\ NoTickStranded

-----------------------------------------------------------------------------
\* The head and the null pointer are not time events.
LEMMA Pointers == Head \notin TimeEvts /\ NULL \notin TimeEvts /\ Head # NULL
BY TimeAssumption

\* An element follows another one in the list, or the list ends.
LEMMA ShapeNext ==
    ASSUME NEW nx, NEW fr, NEW pv, NEW S, NEW A, Shape(nx, fr, pv, S, A)
    PROVE  /\ nx[pv] # NULL => nx[pv] \in A /\ nx[pv] \in TimeEvts
           /\ nx[pv] = NULL /\ fr = NULL => A = {}
           /\ S \cap A = {}
           /\ S \subseteq TimeEvts /\ A \subseteq TimeEvts
           /\ pv \in Elems
<1>1. PICK m, l \in Nat :
         \E s \in [0 .. m -> Elems], g \in [1 .. l -> TimeEvts], k \in 0 .. m :
            Lists(nx, fr, m, s, l, g) /\ Stands(pv, S, A, m, s, l, g, k)
  BY DEF Shape
<1>2. PICK s \in [0 .. m -> Elems], g \in [1 .. l -> TimeEvts], k \in 0 .. m :
         Lists(nx, fr, m, s, l, g) /\ Stands(pv, S, A, m, s, l, g, k)
  BY <1>1
<1>a. /\ pv = s[k]
      /\ S = {s[i] : i \in 1 .. k}
      /\ A = {s[i] : i \in k + 1 .. m} \cup {g[i] : i \in 1 .. l}
  BY <1>2 DEF Stands
<1>3. nx[pv] = IF k = m THEN NULL ELSE s[k + 1]
  BY <1>2, <1>a DEF Lists
<1>4. nx[pv] # NULL => nx[pv] \in A /\ nx[pv] \in TimeEvts
  <2> SUFFICES ASSUME nx[pv] # NULL PROVE nx[pv] \in A /\ nx[pv] \in TimeEvts
    OBVIOUS
  <2>1. k + 1 \in k + 1 .. m /\ k + 1 \in 1 .. m /\ nx[pv] = s[k + 1]
    BY <1>3
  <2> QED BY <1>2, <1>a, <2>1 DEF Lists
<1>5. nx[pv] = NULL /\ fr = NULL => A = {}
  <2> SUFFICES ASSUME nx[pv] = NULL, fr = NULL PROVE A = {}
    OBVIOUS
  <2>1. k = m
    <3> SUFFICES ASSUME k # m PROVE FALSE
      OBVIOUS
    <3>1. k + 1 \in 1 .. m /\ s[k + 1] = NULL
      BY <1>3
    <3> QED BY <1>2, <1>a, <3>1, Pointers DEF Lists
  <2>2. l = 0
    <3> SUFFICES ASSUME l # 0 PROVE FALSE
      OBVIOUS
    <3>1. 1 \in 1 .. l /\ g[1] = NULL
      BY <1>2, <1>a DEF Lists
    <3> QED BY <3>1, Pointers
  <2> QED BY <1>2, <1>a, <2>1, <2>2
<1>6. S \cap A = {}
  <2> SUFFICES ASSUME NEW x \in S, x \in A PROVE FALSE
    OBVIOUS
  <2>1. PICK i \in 1 .. k : x = s[i]
    BY <1>2, <1>a
  <2>2. CASE \E j \in k + 1 .. m : x = s[j]
    BY <1>2, <1>a, <2>1, <2>2 DEF Lists
  <2>3. CASE \E j \in 1 .. l : x = g[j]
    BY <1>2, <1>a, <2>1, <2>3 DEF Lists
  <2> QED BY <1>2, <1>a, <2>2, <2>3
<1>7. S \subseteq TimeEvts
  BY <1>2, <1>a DEF Lists
<1>8. A \subseteq TimeEvts
  BY <1>2, <1>a DEF Lists
<1> QED BY <1>2, <1>a, <1>4, <1>5, <1>6, <1>7, <1>8

\* The freshly armed list is appended to the main list.
LEMMA ShapeAppend ==
    ASSUME NEW nx \in [Elems -> TimeEvts \cup {NULL}], NEW fr, NEW pv,
           NEW S, NEW A,
           Shape(nx, fr, pv, S, A), nx[pv] = NULL, fr # NULL
    PROVE  Shape([nx EXCEPT ![pv] = fr], NULL, pv, S, A)
<1>1. PICK m, l \in Nat :
         \E s \in [0 .. m -> Elems], g \in [1 .. l -> TimeEvts], k \in 0 .. m :
            Lists(nx, fr, m, s, l, g) /\ Stands(pv, S, A, m, s, l, g, k)
  BY DEF Shape
<1>2. PICK s \in [0 .. m -> Elems], g \in [1 .. l -> TimeEvts], k \in 0 .. m :
         Lists(nx, fr, m, s, l, g) /\ Stands(pv, S, A, m, s, l, g, k)
  BY <1>1
<1>a. /\ pv = s[k]
      /\ S = {s[i] : i \in 1 .. k}
      /\ A = {s[i] : i \in k + 1 .. m} \cup {g[i] : i \in 1 .. l}
  BY <1>2 DEF Stands
<1>3. k = m /\ l > 0
  <2>1. k = m
    <3> SUFFICES ASSUME k # m PROVE FALSE
      OBVIOUS
    <3>1. k + 1 \in 1 .. m /\ s[k + 1] = NULL
      BY <1>2, <1>a DEF Lists
    <3> QED BY <1>2, <1>a, <3>1, Pointers DEF Lists
  <2>2. l # 0
    BY <1>2, <1>a DEF Lists
  <2> QED BY <2>1, <2>2
<1> DEFINE nx2 == [nx EXCEPT ![pv] = fr]
           m2 == m + l
           s2 == [i \in 0 .. m2 |-> IF i <= m THEN s[i] ELSE g[i - m]]
           g2 == [i \in 1 .. 0 |-> g[i]]
<1>4. s2 \in [0 .. m2 -> Elems] /\ g2 \in [1 .. 0 -> TimeEvts] /\ m2 \in Nat
  BY <1>2, <1>a, <1>3 DEF Elems
<1>5. /\ \A i \in 0 .. m : s2[i] = s[i]
      /\ \A i \in m + 1 .. m2 : s2[i] = g[i - m] /\ i - m \in 1 .. l
  OBVIOUS
<1>6. Lists(nx2, NULL, m2, s2, 0, g2)
  <2>1. s2[0] = Head /\ \A i \in 1 .. m2 : s2[i] \in TimeEvts
    <3>1. s2[0] = Head
      BY <1>2, <1>a, <1>5 DEF Lists
    <3>2. ASSUME NEW i \in 1 .. m2 PROVE s2[i] \in TimeEvts
      <4>1. CASE i <= m
        BY <1>2, <1>a, <1>5, <4>1 DEF Lists
      <4>2. CASE i > m
        BY <1>5, <4>2
      <4> QED BY <4>1, <4>2
    <3> HIDE DEF s2
    <3> QED BY <3>1, <3>2
  <2>2. ASSUME NEW i \in 0 .. m2, NEW j \in 0 .. m2, s2[i] = s2[j] PROVE i = j
    <3> HIDE DEF s2
    <3>1. CASE i <= m /\ j <= m
      <4>1. s[i] = s[j] /\ i \in 0 .. m /\ j \in 0 .. m
        BY <1>5, <2>2, <3>1
      <4> QED BY <1>2, <4>1 DEF Lists
    <3>2. CASE i > m /\ j > m
      <4>1. g[i - m] = g[j - m] /\ i - m \in 1 .. l /\ j - m \in 1 .. l
        BY <1>5, <2>2, <3>2
      <4>2. i - m = j - m
        BY <1>2, <1>a, <4>1 DEF Lists
      <4> QED BY <4>2
    <3>3. CASE i <= m /\ j > m
      <4>1. s[i] = g[j - m] /\ j - m \in 1 .. l
        BY <1>5, <2>2, <3>3
      <4>2. i # 0
        BY <1>2, <1>a, <4>1, Pointers DEF Lists
      <4> QED BY <1>2, <1>a, <4>1, <4>2, <3>3 DEF Lists
    <3>4. CASE i > m /\ j <= m
      <4>1. s[j] = g[i - m] /\ i - m \in 1 .. l
        BY <1>5, <2>2, <3>4
      <4>2. j # 0
        BY <1>2, <1>a, <4>1, Pointers DEF Lists
      <4> QED BY <1>2, <1>a, <4>1, <4>2, <3>4 DEF Lists
    <3> QED BY <3>1, <3>2, <3>3, <3>4
  <2>3. ASSUME NEW i \in 0 .. m2
        PROVE  nx2[s2[i]] = IF i = m2 THEN NULL ELSE s2[i + 1]
    <3>1. s2[i] \in Elems /\ s2[m] = pv /\ m \in 0 .. m2
      BY <1>2, <1>a, <1>3, <1>4, <1>5
    <3>2. CASE i = m
      <4>1. nx2[s2[i]] = fr
        BY <3>1, <3>2
      <4>2. fr = g[1] /\ i # m2 /\ i + 1 \in m + 1 .. m2
        BY <1>2, <1>a, <1>3, <3>2 DEF Lists
      <4>3. s2[i + 1] = g[1]
        <5> HIDE DEF s2
        <5> QED BY <1>5, <3>2, <4>2
      <4> QED BY <4>1, <4>2, <4>3
    <3>3. CASE i # m
      <4>1. s2[i] # pv
        <5> HIDE DEF s2
        <5> QED BY <2>2, <3>1, <3>3
      <4>2. nx2[s2[i]] = nx[s2[i]]
        BY <4>1, <3>1
      <4> HIDE DEF nx2, s2
      <4>3. CASE i < m
        BY <1>2, <1>a, <1>5, <4>2, <4>3 DEF Lists
      <4>4. CASE i > m
        <5>1. i - m \in 1 .. l /\ s2[i] = g[i - m]
          BY <1>5, <4>4
        <5>2. nx[s2[i]] = IF i - m = l THEN NULL ELSE g[i - m + 1]
          BY <1>2, <1>a, <5>1 DEF Lists
        <5>3. i # m2 => s2[i + 1] = g[i - m + 1]
          BY <1>5, <4>4
        <5>4. i = m2 <=> i - m = l
          OBVIOUS
        <5> HIDE DEF m2
        <5> QED BY <4>2, <5>2, <5>3, <5>4
      <4> QED BY <3>3, <4>3, <4>4
    <3> QED BY <3>2, <3>3
  <2> HIDE DEF s2, nx2, g2, m2
  <2> QED BY <2>1, <2>2, <2>3 DEF Lists
<1>7. pv = s2[k] /\ k \in 0 .. m2
  BY <1>2, <1>a, <1>3
<1>8. S = {s2[i] : i \in 1 .. k}
  <2>1. \A i \in 1 .. k : s2[i] = s[i]
    OBVIOUS
  <2> HIDE DEF s2
  <2> QED BY <1>2, <1>a, <2>1
<1>9. A = {s2[i] : i \in k + 1 .. m2} \cup {g2[i] : i \in 1 .. 0}
  <2>1. A = {g[i] : i \in 1 .. l}
    BY <1>2, <1>a, <1>3
  <2>2. ASSUME NEW i \in 1 .. l PROVE s2[i + m] = g[i] /\ i + m \in k + 1 .. m2
    BY <1>3
  <2>3. ASSUME NEW i \in k + 1 .. m2 PROVE s2[i] = g[i - m] /\ i - m \in 1 .. l
    BY <1>3
  <2> HIDE DEF s2, m2
  <2> QED BY <2>1, <2>2, <2>3
<1> HIDE DEF s2, g2, m2, nx2
<1>10. Stands(pv, S, A, m2, s2, 0, g2, k)
  BY <1>7, <1>8, <1>9 DEF Stands
<1>11. Shape(nx2, NULL, pv, S, A)
  BY <1>4, <1>6, <1>7, <1>10 DEF Shape
<1> QED BY <1>11 DEF nx2

\* The event after pv is taken out of the list.
LEMMA ShapeRemove ==
    ASSUME NEW nx \in [Elems -> TimeEvts \cup {NULL}], NEW fr, NEW pv,
           NEW S, NEW A,
           Shape(nx, fr, pv, S, A), nx[pv] # NULL
    PROVE  Shape([nx EXCEPT ![pv] = nx[nx[pv]]], fr, pv, S, A \ {nx[pv]})
<1>1. PICK m, l \in Nat :
         \E s \in [0 .. m -> Elems], g \in [1 .. l -> TimeEvts], k \in 0 .. m :
            Lists(nx, fr, m, s, l, g) /\ Stands(pv, S, A, m, s, l, g, k)
  BY DEF Shape
<1>2. PICK s \in [0 .. m -> Elems], g \in [1 .. l -> TimeEvts], k \in 0 .. m :
         Lists(nx, fr, m, s, l, g) /\ Stands(pv, S, A, m, s, l, g, k)
  BY <1>1
<1>a. /\ pv = s[k]
      /\ S = {s[i] : i \in 1 .. k}
      /\ A = {s[i] : i \in k + 1 .. m} \cup {g[i] : i \in 1 .. l}
  BY <1>2 DEF Stands
<1>3. k < m /\ nx[pv] = s[k + 1]
  BY <1>2, <1>a DEF Lists
<1> DEFINE x == nx[pv]
           nx2 == [nx EXCEPT ![pv] = nx[x]]
           m2 == m - 1
           s2 == [i \in 0 .. m2 |-> IF i <= k THEN s[i] ELSE s[i + 1]]
<1>4. s2 \in [0 .. m2 -> Elems] /\ m2 \in Nat /\ k \in 0 .. m2
  BY <1>3
<1>5. /\ \A i \in 0 .. k : s2[i] = s[i] /\ i \in 0 .. m /\ i \in 0 .. m2
      /\ \A i \in k + 1 .. m2 : s2[i] = s[i + 1] /\ i + 1 \in 1 .. m
  BY <1>3
<1>6. Lists(nx2, fr, m2, s2, l, g)
  <2>1. s2[0] = Head
    BY <1>2, <1>5 DEF Lists
  <2>2. ASSUME NEW i \in 1 .. m2 PROVE s2[i] \in TimeEvts
    <3> HIDE DEF s2
    <3>1. CASE i <= k
      BY <1>2, <1>5, <3>1 DEF Lists
    <3>2. CASE i > k
      BY <1>2, <1>5, <3>2 DEF Lists
    <3> QED BY <3>1, <3>2
  <2>3. ASSUME NEW i \in 0 .. m2, NEW j \in 0 .. m2, s2[i] = s2[j] PROVE i = j
    <3> DEFINE u == IF i <= k THEN i ELSE i + 1
               v == IF j <= k THEN j ELSE j + 1
    <3>1. s2[i] = s[u] /\ s2[j] = s[v] /\ u \in 0 .. m /\ v \in 0 .. m
      OBVIOUS
    <3>2. u = v
      <4> HIDE DEF u, v, s2
      <4> QED BY <1>2, <2>3, <3>1 DEF Lists
    <3> QED BY <3>2
  <2>4. ASSUME NEW i \in 1 .. m2, NEW j \in 1 .. l PROVE s2[i] # g[j]
    <3> DEFINE u == IF i <= k THEN i ELSE i + 1
    <3>1. s2[i] = s[u] /\ u \in 1 .. m
      OBVIOUS
    <3> HIDE DEF u, s2
    <3> QED BY <1>2, <3>1 DEF Lists
  <2>5. ASSUME NEW i \in 0 .. m2
        PROVE  nx2[s2[i]] = IF i = m2 THEN NULL ELSE s2[i + 1]
    <3>1. s2[i] \in Elems /\ s2[k] = pv
      BY <1>a, <1>4, <1>5
    <3>2. CASE i = k
      <4>1. nx2[s2[i]] = nx[s[k + 1]]
        BY <1>3, <3>1, <3>2
      <4>2. nx[s[k + 1]] = IF k + 1 = m THEN NULL ELSE s[k + 2]
        BY <1>2, <1>3 DEF Lists
      <4>3. i # m2 => s2[i + 1] = s[k + 2]
        BY <3>2
      <4> HIDE DEF s2, nx2
      <4> QED BY <3>2, <4>1, <4>2, <4>3
    <3>3. CASE i # k
      <4>1. s2[i] # pv
        <5> HIDE DEF s2
        <5> QED BY <1>4, <2>3, <3>1, <3>3
      <4>2. nx2[s2[i]] = nx[s2[i]]
        BY <3>1, <4>1
      <4>3. CASE i < k
        <5>1. s2[i] = s[i] /\ s2[i + 1] = s[i + 1] /\ i # m /\ i # m2
          BY <1>4, <4>3
        <5>2. nx[s[i]] = IF i = m THEN NULL ELSE s[i + 1]
          BY <1>2, <4>3 DEF Lists
        <5> HIDE DEF s2, nx2, m2
        <5> QED BY <4>2, <5>1, <5>2
      <4>4. CASE i > k
        <5>1. s2[i] = s[i + 1] /\ i + 1 \in 0 .. m
          BY <4>4
        <5>2. i # m2 => s2[i + 1] = s[i + 1 + 1] /\ i + 1 # m
          BY <4>4
        <5>3. nx[s[i + 1]] = IF i + 1 = m THEN NULL ELSE s[i + 1 + 1]
          BY <1>2, <5>1 DEF Lists
        <5>4. i = m2 <=> i + 1 = m
          OBVIOUS
        <5> HIDE DEF s2, nx2, m2
        <5> QED BY <4>2, <5>1, <5>2, <5>3, <5>4
      <4> QED BY <3>3, <4>3, <4>4
    <3> QED BY <3>2, <3>3
  <2>6. ASSUME NEW i \in 1 .. l
        PROVE  nx2[g[i]] = IF i = l THEN NULL ELSE g[i + 1]
    <3>1. g[i] # pv
      <4>1. CASE k = 0
        BY <1>2, <1>a, <4>1, Pointers DEF Lists
      <4>2. CASE k # 0
        BY <1>2, <1>a, <4>2 DEF Lists
      <4> QED BY <4>1, <4>2
    <3>2. nx2[g[i]] = nx[g[i]]
      BY <3>1 DEF Elems
    <3> HIDE DEF nx2
    <3> QED BY <1>2, <3>2 DEF Lists
  <2>7. /\ \A i, j \in 1 .. l : g[i] = g[j] => i = j
        /\ fr = IF l = 0 THEN NULL ELSE g[1]
    BY <1>2 DEF Lists
  <2> HIDE DEF s2, nx2, m2
  <2> QED BY <2>1, <2>2, <2>3, <2>4, <2>5, <2>6, <2>7 DEF Lists
<1>7. Stands(pv, S, A \ {x}, m2, s2, l, g, k)
  <2>1. pv = s2[k]
    BY <1>a, <1>5
  <2>2. S = {s2[i] : i \in 1 .. k}
    <3> HIDE DEF s2
    <3> QED BY <1>a, <1>5
  <2>3. A \ {x} = {s2[i] : i \in k + 1 .. m2} \cup {g[i] : i \in 1 .. l}
    <3>1. ASSUME NEW y \in A, y # x
          PROVE  y \in {s2[i] : i \in k + 1 .. m2} \cup {g[i] : i \in 1 .. l}
      <4>1. CASE \E i \in 1 .. l : y = g[i]
        BY <4>1
      <4>2. CASE \E i \in k + 1 .. m : y = s[i]
        <5>1. PICK i \in k + 1 .. m : y = s[i]
          BY <4>2
        <5>2. i # k + 1
          BY <1>3, <3>1, <5>1
        <5>3. i - 1 \in k + 1 .. m2 /\ s2[i - 1] = s[i]
          BY <5>2
        <5> HIDE DEF s2, m2
        <5> QED BY <5>1, <5>3
      <4> QED BY <1>a, <3>1, <4>1, <4>2
    <3>2. ASSUME NEW i \in k + 1 .. m2 PROVE s2[i] \in A \ {x}
      <4>1. s2[i] = s[i + 1] /\ i + 1 \in k + 1 .. m /\ i + 1 # k + 1
        OBVIOUS
      <4>2. s[i + 1] # s[k + 1]
        BY <1>2, <1>3, <4>1 DEF Lists
      <4> HIDE DEF s2
      <4> QED BY <1>3, <1>a, <4>1, <4>2
    <3>3. ASSUME NEW i \in 1 .. l PROVE g[i] \in A \ {x}
      BY <1>2, <1>3, <1>a DEF Lists
    <3> HIDE DEF s2, m2, x
    <3> QED BY <3>1, <3>2, <3>3
  <2> HIDE DEF s2, m2, x
  <2> QED BY <2>1, <2>2, <2>3 DEF Stands
<1> HIDE DEF s2, m2, nx2, x
<1>8. Shape(nx2, fr, pv, S, A \ {x})
  BY <1>4, <1>6, <1>7 DEF Shape
<1> QED BY <1>8 DEF nx2, x

\* The scan goes on to the next event.
LEMMA ShapeAdvance ==
    ASSUME NEW nx, NEW fr, NEW pv, NEW S, NEW A,
           Shape(nx, fr, pv, S, A), nx[pv] # NULL
    PROVE  Shape(nx, fr, nx[pv], S \cup {nx[pv]}, A \ {nx[pv]})
<1>1. PICK m, l \in Nat :
         \E s \in [0 .. m -> Elems], g \in [1 .. l -> TimeEvts], k \in 0 .. m :
            Lists(nx, fr, m, s, l, g) /\ Stands(pv, S, A, m, s, l, g, k)
  BY DEF Shape
<1>2. PICK s \in [0 .. m -> Elems], g \in [1 .. l -> TimeEvts], k \in 0 .. m :
         Lists(nx, fr, m, s, l, g) /\ Stands(pv, S, A, m, s, l, g, k)
  BY <1>1
<1>a. /\ pv = s[k]
      /\ S = {s[i] : i \in 1 .. k}
      /\ A = {s[i] : i \in k + 1 .. m} \cup {g[i] : i \in 1 .. l}
  BY <1>2 DEF Stands
<1>3. k < m /\ nx[pv] = s[k + 1] /\ k + 1 \in 0 .. m
  BY <1>2, <1>a DEF Lists
<1>4. S \cup {nx[pv]} = {s[i] : i \in 1 .. k + 1}
  BY <1>3, <1>a
<1>5. A \ {nx[pv]} = {s[i] : i \in k + 1 + 1 .. m} \cup {g[i] : i \in 1 .. l}
  <2>1. ASSUME NEW y \in A, y # nx[pv]
        PROVE  y \in {s[i] : i \in k + 1 + 1 .. m} \cup {g[i] : i \in 1 .. l}
    <3>1. CASE \E i \in 1 .. l : y = g[i]
      BY <3>1
    <3>2. CASE \E i \in k + 1 .. m : y = s[i]
      <4>1. PICK i \in k + 1 .. m : y = s[i]
        BY <3>2
      <4>2. i # k + 1
        BY <1>3, <2>1, <4>1
      <4>3. i \in k + 1 + 1 .. m
        BY <4>2
      <4> QED BY <4>1, <4>3
    <3> QED BY <1>a, <2>1, <3>1, <3>2
  <2>2. ASSUME NEW i \in k + 1 + 1 .. m PROVE s[i] \in A \ {nx[pv]}
    <3>1. i \in k + 1 .. m /\ i # k + 1
      OBVIOUS
    <3>2. s[i] # s[k + 1]
      BY <1>2, <1>3, <3>1 DEF Lists
    <3> QED BY <1>3, <1>a, <3>1, <3>2
  <2>3. ASSUME NEW i \in 1 .. l PROVE g[i] \in A \ {nx[pv]}
    BY <1>2, <1>3, <1>a DEF Lists
  <2> QED BY <2>1, <2>2, <2>3
<1>6. Stands(nx[pv], S \cup {nx[pv]}, A \ {nx[pv]}, m, s, l, g, k + 1)
  BY <1>3, <1>4, <1>5 DEF Stands
<1> QED BY <1>2, <1>3, <1>6 DEF Shape

\* The next scan begins at the head.
LEMMA ShapeRewind ==
    ASSUME NEW nx, NEW fr, NEW pv, NEW S, NEW A, Shape(nx, fr, pv, S, A)
    PROVE  Shape(nx, fr, Head, {}, S \cup A)
<1>1. PICK m, l \in Nat :
         \E s \in [0 .. m -> Elems], g \in [1 .. l -> TimeEvts], k \in 0 .. m :
            Lists(nx, fr, m, s, l, g) /\ Stands(pv, S, A, m, s, l, g, k)
  BY DEF Shape
<1>2. PICK s \in [0 .. m -> Elems], g \in [1 .. l -> TimeEvts], k \in 0 .. m :
         Lists(nx, fr, m, s, l, g) /\ Stands(pv, S, A, m, s, l, g, k)
  BY <1>1
<1>a. /\ pv = s[k]
      /\ S = {s[i] : i \in 1 .. k}
      /\ A = {s[i] : i \in k + 1 .. m} \cup {g[i] : i \in 1 .. l}
  BY <1>2 DEF Stands
<1>3. Head = s[0] /\ 0 \in 0 .. m
  BY <1>2 DEF Lists
<1>4. {} = {s[i] : i \in 1 .. 0}
  OBVIOUS
<1>5. S \cup A = {s[i] : i \in 0 + 1 .. m} \cup {g[i] : i \in 1 .. l}
  <2>1. \A i \in 1 .. m : i \in 1 .. k \/ i \in k + 1 .. m
    OBVIOUS
  <2>2. \A i \in k + 1 .. m : i \in 0 + 1 .. m
    OBVIOUS
  <2> QED BY <1>a, <2>1, <2>2
<1>6. Stands(Head, {}, S \cup A, m, s, l, g, 0)
  BY <1>3, <1>4, <1>5 DEF Stands
<1> QED BY <1>2, <1>3, <1>6 DEF Shape

\* An event that is in neither list is put in front of the freshly armed one.
LEMMA ShapePush ==
    ASSUME NEW nx \in [Elems -> TimeEvts \cup {NULL}], NEW fr, NEW pv,
           NEW S, NEW A, NEW t \in TimeEvts,
           Shape(nx, fr, pv, S, A), t \notin S \cup A
    PROVE  Shape([nx EXCEPT ![t] = fr], t, pv, S, A \cup {t})
<1>1. PICK m, l \in Nat :
         \E s \in [0 .. m -> Elems], g \in [1 .. l -> TimeEvts], k \in 0 .. m :
            Lists(nx, fr, m, s, l, g) /\ Stands(pv, S, A, m, s, l, g, k)
  BY DEF Shape
<1>2. PICK s \in [0 .. m -> Elems], g \in [1 .. l -> TimeEvts], k \in 0 .. m :
         Lists(nx, fr, m, s, l, g) /\ Stands(pv, S, A, m, s, l, g, k)
  BY <1>1
<1>a. /\ pv = s[k]
      /\ S = {s[i] : i \in 1 .. k}
      /\ A = {s[i] : i \in k + 1 .. m} \cup {g[i] : i \in 1 .. l}
  BY <1>2 DEF Stands
<1> DEFINE nx2 == [nx EXCEPT ![t] = fr]
           l2 == l + 1
           g2 == [i \in 1 .. l2 |-> IF i = 1 THEN t ELSE g[i - 1]]
<1>3. \A i \in 0 .. m : s[i] # t
  <2> SUFFICES ASSUME NEW i \in 0 .. m PROVE s[i] # t
    OBVIOUS
  <2>1. CASE i = 0
    BY <1>2, <2>1, Pointers DEF Lists
  <2>2. CASE i \in 1 .. k
    BY <1>a, <2>2
  <2>3. CASE i \in k + 1 .. m
    BY <1>a, <2>3
  <2> QED BY <2>1, <2>2, <2>3
<1>4. \A i \in 1 .. l : g[i] # t
  BY <1>a
<1>5. /\ g2 \in [1 .. l2 -> TimeEvts] /\ l2 \in Nat
      /\ g2[1] = t /\ 1 \in 1 .. l2 /\ l2 # 0
      /\ \A i \in 2 .. l2 : g2[i] = g[i - 1] /\ i - 1 \in 1 .. l
  OBVIOUS
<1>6. Lists(nx2, t, m, s, l2, g2)
  <2>1. /\ s[0] = Head /\ \A i \in 1 .. m : s[i] \in TimeEvts
        /\ \A i, j \in 0 .. m : s[i] = s[j] => i = j
    BY <1>2 DEF Lists
  <2>2. ASSUME NEW i \in 1 .. l2, NEW j \in 1 .. l2, g2[i] = g2[j] PROVE i = j
    <3> HIDE DEF g2
    <3>1. CASE i = 1 \/ j = 1
      BY <1>4, <1>5, <2>2, <3>1
    <3>2. CASE i # 1 /\ j # 1
      <4>1. g[i - 1] = g[j - 1] /\ i - 1 \in 1 .. l /\ j - 1 \in 1 .. l
        BY <1>5, <2>2, <3>2
      <4>2. i - 1 = j - 1
        BY <1>2, <4>1 DEF Lists
      <4> QED BY <4>2
    <3> QED BY <3>1, <3>2
  <2>3. ASSUME NEW i \in 1 .. m, NEW j \in 1 .. l2 PROVE s[i] # g2[j]
    <3> HIDE DEF g2
    <3>1. CASE j = 1
      BY <1>3, <1>5, <3>1
    <3>2. CASE j # 1
      <4>1. g2[j] = g[j - 1] /\ j - 1 \in 1 .. l
        BY <1>5, <3>2
      <4> QED BY <1>2, <4>1 DEF Lists
    <3> QED BY <3>1, <3>2
  <2>4. ASSUME NEW i \in 0 .. m
        PROVE  nx2[s[i]] = IF i = m THEN NULL ELSE s[i + 1]
    <3>1. nx2[s[i]] = nx[s[i]]
      BY <1>3
    <3> HIDE DEF nx2
    <3> QED BY <1>2, <3>1 DEF Lists
  <2>5. ASSUME NEW i \in 1 .. l2
        PROVE  nx2[g2[i]] = IF i = l2 THEN NULL ELSE g2[i + 1]
    <3>1. CASE i = 1
      <4>1. nx2[g2[i]] = fr
        BY <3>1 DEF Elems
      <4>2. fr = IF l = 0 THEN NULL ELSE g[1]
        BY <1>2 DEF Lists
      <4>3. i # l2 => g2[i + 1] = g[1]
        BY <3>1
      <4>4. i = l2 <=> l = 0
        BY <3>1
      <4> HIDE DEF g2, nx2, l2
      <4> QED BY <4>1, <4>2, <4>3, <4>4
    <3>2. CASE i # 1
      <4>1. g2[i] = g[i - 1] /\ i - 1 \in 1 .. l
        BY <3>2
      <4>2. nx2[g2[i]] = nx[g[i - 1]]
        BY <1>4, <4>1 DEF Elems
      <4>3. nx[g[i - 1]] = IF i - 1 = l THEN NULL ELSE g[i - 1 + 1]
        BY <1>2, <4>1 DEF Lists
      <4>4. i # l2 => g2[i + 1] = g[i - 1 + 1]
        BY <3>2
      <4>5. i = l2 <=> i - 1 = l
        OBVIOUS
      <4> HIDE DEF g2, nx2, l2
      <4> QED BY <4>2, <4>3, <4>4, <4>5
    <3> QED BY <3>1, <3>2
  <2>6. t = IF l2 = 0 THEN NULL ELSE g2[1]
    BY <1>5
  <2> HIDE DEF g2, nx2, l2
  <2> QED BY <2>1, <2>2, <2>3, <2>4, <2>5, <2>6 DEF Lists
<1>7. Stands(pv, S, A \cup {t}, m, s, l2, g2, k)
  <2>1. {g2[i] : i \in 1 .. l2} = {g[i] : i \in 1 .. l} \cup {t}
    <3>1. ASSUME NEW i \in 1 .. l2 PROVE g2[i] \in {g[j] : j \in 1 .. l} \cup {t}
      BY <1>5
    <3>2. ASSUME NEW i \in 1 .. l PROVE g[i] \in {g2[j] : j \in 1 .. l2}
      <4>1. i + 1 \in 1 .. l2 /\ g2[i + 1] = g[i]
        OBVIOUS
      <4> HIDE DEF g2, l2
      <4> QED BY <4>1
    <3>3. t \in {g2[j] : j \in 1 .. l2}
      <4> HIDE DEF g2, l2
      <4> QED BY <1>5
    <3> HIDE DEF g2, l2
    <3> QED BY <3>1, <3>2, <3>3
  <2>2. A \cup {t} = {s[i] : i \in k + 1 .. m} \cup {g2[i] : i \in 1 .. l2}
    <3> HIDE DEF g2, l2
    <3> QED BY <1>a, <2>1
  <2> HIDE DEF g2, l2
  <2> QED BY <1>a, <2>2 DEF Stands
<1> HIDE DEF g2, l2, nx2
<1>8. Shape(nx2, t, pv, S, A \cup {t})
  BY <1>2, <1>5, <1>6, <1>7 DEF Shape
<1> QED BY <1>8 DEF nx2

-----------------------------------------------------------------------------
\* What tickX_ finds after the freshly armed list has been appended.
LEMMA Scanned ==
    ASSUME TypeInv, NEW S, NEW A, Shape(m_next, fresh, prev, S, A)
    PROVE  /\ Links \in [Elems -> TimeEvts \cup {NULL}]
           /\ Shape(Links, IF AppendFresh THEN NULL ELSE fresh, prev, S, A)
           /\ tevt # NULL => tevt \in A /\ tevt \in TimeEvts
           /\ tevt = NULL => A = {}
           /\ S \cap A = {}
           /\ S \subseteq TimeEvts /\ A \subseteq TimeEvts
<1>1. CASE AppendFresh
  <2>1. Links = [m_next EXCEPT ![prev] = fresh]
    BY <1>1 DEF Links
  <2>2. Links \in [Elems -> TimeEvts \cup {NULL}]
    BY <2>1 DEF TypeInv, LinkTypes
  <2>3. Shape(Links, NULL, prev, S, A)
    BY <1>1, <2>1, ShapeAppend DEF AppendFresh, TypeInv, LinkTypes
  <2>4. Links[prev] = fresh /\ fresh # NULL
    BY <1>1, <2>1 DEF AppendFresh, TypeInv, LinkTypes
  <2> QED BY <1>1, <2>2, <2>3, <2>4, ShapeNext DEF tevt
<1>2. CASE ~AppendFresh
  <2>1. Links = m_next
    BY <1>2 DEF Links
  <2>2. tevt = NULL => fresh = NULL
    BY <1>2, <2>1 DEF AppendFresh, tevt
  <2> QED BY <1>2, <2>1, <2>2, ShapeNext DEF tevt, TypeInv, LinkTypes
<1> QED BY <1>1, <1>2

\* tickX_ keeps the types.
LEMMA TickTypes ==
    ASSUME TypeInv, NEW S, NEW A, Shape(m_next, fresh, prev, S, A), tickX_,
           UNCHANGED ticker
    PROVE  TypeInv'
<1>0. /\ Links \in [Elems -> TimeEvts \cup {NULL}]
      /\ tevt # NULL => tevt \in TimeEvts
      /\ LinkTypes /\ TimeTypes /\ FlagTypes
      /\ m_tail' = m_tail
  BY Scanned DEF TypeInv, ticker
<1>f. \A x, y \in Nat : [due |-> x, age |-> y] \in [due : Nat, age : Nat]
  OBVIOUS
<1>1. CASE scanRemove
  <2>1. LinkTypes'
    <3>1. Links[tevt] \in TimeEvts \cup {NULL}
      BY <1>0, <1>1 DEF scanRemove, Elems
    <3> QED BY <1>0, <1>1, <3>1 DEF scanRemove, Unlink, AfterRemoval, LinkTypes
  <2>2. TimeTypes'
    BY <1>0, <1>1 DEF scanRemove, TimeTypes
  <2>3. FlagTypes'
    <3>1. /\ linked' = [linked EXCEPT ![tevt] = FALSE]
          /\ UNCHANGED <<disarmed, byte>>
      BY <1>1 DEF scanRemove, Unlink
    <3> QED BY <1>0, <3>1 DEF FlagTypes
  <2> QED BY <2>1, <2>2, <2>3 DEF TypeInv
<1>2. CASE scanCount
  <2>1. LinkTypes'
    BY <1>0, <1>2 DEF scanCount, LinkTypes, Elems
  <2>2. TimeTypes'
    BY <1>0, <1>2 DEF scanCount, CountsOn, TimeTypes
  <2>3. FlagTypes'
    BY <1>0, <1>2 DEF scanCount, FlagTypes
  <2> QED BY <2>1, <2>2, <2>3 DEF TypeInv
<1>3. CASE scanPeriodic
  <2>1. LinkTypes'
    BY <1>0, <1>3 DEF scanPeriodic, AfterPeriodic, Expire, LinkTypes, Elems
  <2>2. TimeTypes'
    BY <1>0, <1>f, <1>3, TimeAssumption DEF scanPeriodic, Expire, TimeTypes
  <2>3. FlagTypes'
    BY <1>0, <1>3 DEF scanPeriodic, FlagTypes
  <2> QED BY <2>1, <2>2, <2>3 DEF TypeInv
<1>4. CASE scanOneShot
  <2>1. LinkTypes'
    <3>1. Links[tevt] \in TimeEvts \cup {NULL}
      BY <1>0, <1>4 DEF scanOneShot, Elems
    <3> QED BY <1>0, <1>4, <3>1 DEF scanOneShot, Unlink, Expire, LinkTypes
  <2>2. TimeTypes'
    BY <1>0, <1>f, <1>4, TimeAssumption DEF scanOneShot, Expire, Forget, TimeTypes
  <2>3. FlagTypes'
    <3>1. /\ linked' = [linked EXCEPT ![tevt] = FALSE]
          /\ UNCHANGED <<disarmed, byte>>
      BY <1>4 DEF scanOneShot, Unlink
    <3> QED BY <1>0, <3>1 DEF FlagTypes
  <2> QED BY <2>1, <2>2, <2>3 DEF TypeInv
<1>5. CASE tickPost
  <2>1. LinkTypes'
    BY <1>0, <1>5 DEF tickPost, timers, LinkTypes
  <2>2. TimeTypes'
    BY <1>0, <1>f, <1>5 DEF tickPost, timers, TimeTypes
  <2>3. FlagTypes'
    BY <1>0, <1>5 DEF tickPost, timers, FlagTypes
  <2> QED BY <2>1, <2>2, <2>3 DEF TypeInv
<1>6. CASE tickEnd
  <2>1. LinkTypes'
    BY <1>0, <1>6 DEF tickEnd, timers, LinkTypes, Elems
  <2>2. TimeTypes'
    BY <1>0, <1>6 DEF tickEnd, timers, TimeTypes
  <2>3. FlagTypes'
    BY <1>0, <1>6 DEF tickEnd, timers, FlagTypes
  <2> QED BY <2>1, <2>2, <2>3 DEF TypeInv
<1> QED BY <1>1, <1>2, <1>3, <1>4, <1>5, <1>6 DEF tickX_

\* The tasks keep the types.
LEMMA TaskTypes ==
    ASSUME TypeInv, TaskStep, UNCHANGED ticker
    PROVE  TypeInv'
<1>0. LinkTypes /\ TimeTypes /\ FlagTypes /\ m_tail' = m_tail
  BY DEF TypeInv, ticker
<1>1. PICK t \in TimeEvts :
        \/ \E nTicks \in 1 .. MaxTicks :
              \/ rearm(t, nTicks)
              \/ \E interval \in 0 .. MaxTicks : armX(t, nTicks, interval)
        \/ disarm(t)
        \/ wasDisarmedRead(t) \/ wasDisarmedWrite(t)
        \/ consume(t)
  BY DEF TaskStep
<1>2. ASSUME NEW nTicks \in 1 .. MaxTicks, rearm(t, nTicks) PROVE TypeInv'
  <2>1. LinkTypes'
    BY <1>0, <1>2 DEF rearm, Relink, LinkFresh, LinkTypes, Elems
  <2>2. TimeTypes'
    BY <1>0, <1>2, TimeAssumption DEF rearm, Load, TimeTypes
  <2>3. FlagTypes'
    BY <1>0, <1>2 DEF rearm, Relink, LinkFresh, FlagTypes
  <2> QED BY <2>1, <2>2, <2>3 DEF TypeInv
<1>3. ASSUME NEW nTicks \in 1 .. MaxTicks, NEW interval \in 0 .. MaxTicks,
             armX(t, nTicks, interval)
      PROVE TypeInv'
  <2>1. LinkTypes'
    BY <1>0, <1>3 DEF armX, LinkFresh, LinkTypes, Elems
  <2>2. TimeTypes'
    BY <1>0, <1>3, TimeAssumption DEF armX, Load, TimeTypes
  <2>3. FlagTypes'
    BY <1>0, <1>3 DEF armX, LinkFresh, FlagTypes
  <2> QED BY <2>1, <2>2, <2>3 DEF TypeInv
<1>4. CASE disarm(t)
  <2>1. LinkTypes'
    BY <1>0, <1>4 DEF disarm, LinkTypes
  <2>2. TimeTypes'
    BY <1>0, <1>4, TimeAssumption DEF disarm, Forget, TimeTypes
  <2>3. FlagTypes'
    BY <1>0, <1>4 DEF disarm, FlagTypes
  <2> QED BY <2>1, <2>2, <2>3 DEF TypeInv
<1>5. CASE wasDisarmedRead(t)
  <2>1. LinkTypes'
    BY <1>0, <1>5 DEF wasDisarmedRead, timers, LinkTypes
  <2>2. TimeTypes'
    BY <1>0, <1>5 DEF wasDisarmedRead, timers, TimeTypes
  <2>3. FlagTypes'
    BY <1>0, <1>5 DEF wasDisarmedRead, timers, FlagTypes
  <2> QED BY <2>1, <2>2, <2>3 DEF TypeInv
<1>6. CASE wasDisarmedWrite(t)
  <2>1. LinkTypes'
    BY <1>0, <1>6 DEF wasDisarmedWrite, LinkTypes
  <2>2. TimeTypes'
    BY <1>0, <1>6 DEF wasDisarmedWrite, TimeTypes
  <2>3. FlagTypes'
    BY <1>0, <1>6 DEF wasDisarmedWrite, WriteBack, FlagTypes
  <2> QED BY <2>1, <2>2, <2>3 DEF TypeInv
<1>7. CASE consume(t)
  <2>1. LinkTypes'
    BY <1>0, <1>7 DEF consume, timers, LinkTypes
  <2>2. TimeTypes'
    BY <1>0, <1>7 DEF consume, timers, TimeTypes
  <2>3. FlagTypes'
    BY <1>0, <1>7 DEF consume, timers, FlagTypes
  <2> QED BY <2>1, <2>2, <2>3 DEF TypeInv
<1> QED BY <1>1, <1>2, <1>3, <1>4, <1>5, <1>6, <1>7

\* The ticker and the begin of a tick keep the types.
LEMMA TickerTypes ==
    ASSUME TypeInv, tickerPost \/ tickerGet \/ tickerDispatch \/ tickStart
    PROVE  TypeInv'
<1> USE DEF TypeInv, LinkTypes, TimeTypes, FlagTypes
<1>1. CASE tickerPost
  BY <1>1 DEF tickerPost, timers, ticks
<1>2. CASE tickerGet
  BY <1>2 DEF tickerGet, timers, ticks
<1>3. CASE tickerDispatch
  BY <1>3 DEF tickerDispatch, timers, ticks
<1>4. CASE tickStart
  BY <1>4 DEF tickStart, timers
<1> QED BY <1>1, <1>2, <1>3, <1>4

-----------------------------------------------------------------------------
\* The byte that wasDisarmed() read is not behind refCtr_ in what matters.
LEMMA TickBytes ==
    ASSUME TypeInv, Bytes, tickX_
    PROVE  Bytes'
<1>1. CASE scanRemove
  <2>1. /\ linked' = [linked EXCEPT ![tevt] = FALSE]
        /\ UNCHANGED <<disarmed, byte>>
    BY <1>1 DEF scanRemove, Unlink
  <2> QED BY <2>1 DEF Bytes, TypeInv, FlagTypes
<1>2. CASE scanCount
  BY <1>2 DEF scanCount, Bytes
<1>3. CASE scanPeriodic
  BY <1>3 DEF scanPeriodic, Bytes
<1>4. CASE scanOneShot
  <2>1. /\ linked' = [linked EXCEPT ![tevt] = FALSE]
        /\ UNCHANGED <<disarmed, byte>>
    BY <1>4 DEF scanOneShot, Unlink
  <2> QED BY <2>1 DEF Bytes, TypeInv, FlagTypes
<1>5. CASE tickPost
  BY <1>5 DEF tickPost, timers, Bytes
<1>6. CASE tickEnd
  BY <1>6 DEF tickEnd, timers, Bytes
<1> QED BY <1>1, <1>2, <1>3, <1>4, <1>5, <1>6 DEF tickX_

\* The same for the tasks.
LEMMA TaskBytes ==
    ASSUME Owned, TypeInv, Bytes, TaskStep
    PROVE  Bytes'
<1>1. PICK t \in TimeEvts :
        \/ \E nTicks \in 1 .. MaxTicks :
              \/ rearm(t, nTicks)
              \/ \E interval \in 0 .. MaxTicks : armX(t, nTicks, interval)
        \/ disarm(t)
        \/ wasDisarmedRead(t) \/ wasDisarmedWrite(t)
        \/ consume(t)
  BY DEF TaskStep
<1>0. ASSUME byte[t] = NULL, UNCHANGED <<disarmed, byte>>,
             linked' = linked \/ linked' = [linked EXCEPT ![t] = TRUE]
      PROVE  Bytes'
  BY <1>0 DEF Bytes, TypeInv, FlagTypes
<1>2. ASSUME NEW nTicks \in 1 .. MaxTicks, rearm(t, nTicks) PROVE Bytes'
  <2>1. /\ byte[t] = NULL /\ UNCHANGED <<disarmed, byte>>
        /\ linked' = linked \/ linked' = [linked EXCEPT ![t] = TRUE]
    BY <1>2 DEF rearm, Relink, LinkFresh, TaskRuns, Owned, Bytes
  <2> QED BY <1>0, <2>1
<1>3. ASSUME NEW nTicks \in 1 .. MaxTicks, NEW interval \in 0 .. MaxTicks,
             armX(t, nTicks, interval)
      PROVE Bytes'
  <2>1. /\ byte[t] = NULL /\ UNCHANGED <<disarmed, byte>>
        /\ linked' = linked \/ linked' = [linked EXCEPT ![t] = TRUE]
    BY <1>3 DEF armX, LinkFresh, TaskRuns, Owned, Bytes
  <2> QED BY <1>0, <2>1
<1>4. CASE disarm(t)
  BY <1>4 DEF disarm, Bytes
<1>5. CASE wasDisarmedRead(t)
  <2>1. /\ UNCHANGED <<linked, disarmed>>
        /\ "wasDisarmed" \in Ops
        /\ byte' = [byte EXCEPT ![t] = [linked |-> linked[t],
                                        disarmed |-> disarmed[t]]]
    BY <1>5 DEF wasDisarmedRead, timers, TaskRuns
  <2>2. ASSUME NEW x \in TimeEvts, x # t PROVE byte'[x] = byte[x]
    BY <2>1, <2>2 DEF TypeInv, FlagTypes
  <2>3. /\ byte'[t].linked = linked[t]
        /\ byte'[t].disarmed = disarmed[t]
    BY <2>1 DEF TypeInv, FlagTypes
  <2> QED BY <2>1, <2>2, <2>3 DEF Bytes
<1>6. CASE wasDisarmedWrite(t)
  <2>1. /\ linked' = [linked EXCEPT ![t] = byte[t].linked]
        /\ disarmed' = [disarmed EXCEPT ![t] = TRUE]
        /\ byte' = [byte EXCEPT ![t] = NULL]
    BY <1>6 DEF wasDisarmedWrite, WriteBack
  <2> QED BY <2>1 DEF Bytes, TypeInv, FlagTypes
<1>7. CASE consume(t)
  BY <1>7 DEF consume, timers, Bytes
<1> QED BY <1>1, <1>2, <1>3, <1>4, <1>5, <1>6, <1>7

-----------------------------------------------------------------------------
\* The lists after a step of tickX_.
LEMMA TickLists ==
    ASSUME TypeInv, Rest, ListInv, tickX_
    PROVE  ListInv'
<1>1. PICK S, A \in SUBSET TimeEvts :
        /\ Shape(m_next, fresh, prev, S, A)
        /\ Flags(S, A)
        /\ TickInIsr => Timed(S, A)
  BY DEF ListInv
<1>2. /\ Links \in [Elems -> TimeEvts \cup {NULL}]
      /\ Shape(Links, IF AppendFresh THEN NULL ELSE fresh, prev, S, A)
      /\ tevt # NULL => tevt \in A /\ tevt \in TimeEvts
      /\ tevt = NULL => A = {}
      /\ S \cap A = {}
  BY <1>1, Scanned
<1>x. PICK x : x = tevt
  OBVIOUS
<1>3. x # NULL =>
        /\ Shape([Links EXCEPT ![prev] = Links[x]],
                 IF AppendFresh THEN NULL ELSE fresh, prev, S, A \ {x})
        /\ Shape(Links, IF AppendFresh THEN NULL ELSE fresh, x,
                 S \cup {x}, A \ {x})
  BY <1>2, <1>x, ShapeRemove, ShapeAdvance DEF tevt
<1>4. CASE scanRemove
  <2>1. /\ x # NULL /\ m_ctr[x] = 0 /\ tick = "scan" /\ tick' = "scan"
        /\ m_next' = [Links EXCEPT ![prev] = Links[x]]
        /\ linked' = [linked EXCEPT ![x] = FALSE]
        /\ fresh' = IF AppendFresh THEN NULL ELSE fresh
        /\ UNCHANGED <<prev, m_ctr, due, age, fired>>
    BY <1>x, <1>4 DEF scanRemove, Unlink, AfterRemoval
  <2>2. Shape(m_next', fresh', prev', S, A \ {x})
    BY <1>3, <2>1
  <2>3. Flags(S, A \ {x})'
    BY <1>1, <1>2, <1>x, <2>1 DEF Flags, TypeInv, FlagTypes
  <2>4. TickInIsr => Timed(S, A \ {x})'
    BY <1>1, <2>1 DEF Timed, Ahead
  <2> QED BY <1>1, <2>2, <2>3, <2>4 DEF ListInv
<1>5. CASE scanCount
  <2>1. /\ x # NULL /\ m_ctr[x] > 1 /\ tick = "scan" /\ tick' = "scan"
        /\ m_ctr' = [m_ctr EXCEPT ![x] = @ - 1]
        /\ m_next' = Links
        /\ fresh' = IF AppendFresh THEN NULL ELSE fresh
        /\ prev' = x
        /\ UNCHANGED <<linked, due, age, fired>>
    BY <1>x, <1>5 DEF scanCount, CountsOn
  <2>2. Shape(m_next', fresh', prev', S \cup {x}, A \ {x})
    BY <1>3, <2>1
  <2>3. Flags(S \cup {x}, A \ {x})'
    BY <1>1, <1>2, <1>x, <2>1 DEF Flags, TypeInv, TimeTypes
  <2>4. TickInIsr => Timed(S \cup {x}, A \ {x})'
    BY <1>1, <1>2, <1>x, <2>1 DEF Timed, Ahead, TypeInv, TimeTypes
  <2> QED BY <1>1, <1>2, <1>x, <2>1, <2>2, <2>3, <2>4 DEF ListInv
<1>6. CASE scanPeriodic
  <2>1. /\ x # NULL /\ m_ctr[x] = 1 /\ m_interval[x] # 0
        /\ tick = "scan" /\ tick' = "post"
        /\ m_ctr' = [m_ctr EXCEPT ![x] = m_interval[x]]
        /\ m_next' = Links
        /\ fresh' = IF AppendFresh THEN NULL ELSE fresh
        /\ prev' = x
        /\ due' = [due EXCEPT ![x] = m_interval[x]]
        /\ age' = [age EXCEPT ![x] = 0]
        /\ \A t \in TimeEvts : t # x => fired'[t] = fired[t]
        /\ UNCHANGED linked
    BY <1>x, <1>6 DEF scanPeriodic, AfterPeriodic, Expire, TypeInv, TimeTypes
  <2>2. Shape(m_next', fresh', prev', S \cup {x}, A \ {x})
    BY <1>3, <2>1
  <2>3. Flags(S \cup {x}, A \ {x})'
    BY <1>1, <1>2, <1>x, <2>1 DEF Flags, TypeInv, TimeTypes
  <2>4. TickInIsr => Timed(S \cup {x}, A \ {x})'
    BY <1>1, <1>2, <1>x, <2>1 DEF Timed, Ahead, TypeInv, TimeTypes
  <2> QED BY <1>1, <1>2, <1>x, <2>1, <2>2, <2>3, <2>4 DEF ListInv
<1>7. CASE scanOneShot
  <2>1. /\ x # NULL /\ m_ctr[x] = 1 /\ tick = "scan" /\ tick' = "post"
        /\ m_ctr' = [m_ctr EXCEPT ![x] = 0]
        /\ m_next' = [Links EXCEPT ![prev] = Links[x]]
        /\ linked' = [linked EXCEPT ![x] = FALSE]
        /\ fresh' = IF AppendFresh THEN NULL ELSE fresh
        /\ prev' = prev
        /\ due' = [due EXCEPT ![x] = 0]
        /\ age' = [age EXCEPT ![x] = 0]
        /\ \A t \in TimeEvts : t # x => fired'[t] = fired[t]
    BY <1>x, <1>7 DEF scanOneShot, Unlink, Expire, Forget, TypeInv, TimeTypes
  <2>2. Shape(m_next', fresh', prev', S, A \ {x})
    BY <1>3, <2>1
  <2>3. Flags(S, A \ {x})'
    BY <1>1, <1>2, <1>x, <2>1 DEF Flags, TypeInv, TimeTypes, FlagTypes
  <2>4. TickInIsr => Timed(S, A \ {x})'
    BY <1>1, <1>2, <1>x, <2>1 DEF Timed, Ahead, TypeInv, TimeTypes
  <2> QED BY <1>1, <2>2, <2>3, <2>4 DEF ListInv
<1>8. CASE tickPost
  <2>1. /\ UNCHANGED <<m_next, fresh, prev, linked, m_ctr, due, age, fired>>
        /\ Ahead' = Ahead
    BY <1>8 DEF tickPost, timers, Ahead
  <2> QED BY <1>1, <2>1 DEF ListInv, Flags, Timed
<1>9. CASE tickEnd
  <2>1. /\ UNCHANGED <<m_next, fresh, linked, m_ctr, due, age>>
        /\ prev' = Head /\ tick' = "idle" /\ x = NULL
        /\ fired' = [t \in TimeEvts |-> 0]
    BY <1>x, <1>9 DEF tickEnd, timers
  <2>2. A = {}
    BY <1>2, <1>x, <2>1
  <2>3. Shape(m_next', fresh', prev', {}, S)
    BY <1>1, <2>1, <2>2, ShapeRewind
  <2>4. Flags({}, S)'
    BY <1>1, <2>1, <2>2 DEF Flags
  <2>5. TickInIsr => Timed({}, S)'
    BY <1>1, <2>1, <2>2 DEF Timed, Ahead, TypeInv, TimeTypes
  <2> QED BY <1>1, <2>3, <2>4, <2>5 DEF ListInv
<1> QED BY <1>4, <1>5, <1>6, <1>7, <1>8, <1>9 DEF tickX_

\* The lists after a step of a task.
LEMMA TaskLists ==
    ASSUME TypeInv, Bytes, Rest, ListInv, TaskStep
    PROVE  ListInv'
<1>1. PICK S, A \in SUBSET TimeEvts :
        /\ Shape(m_next, fresh, prev, S, A)
        /\ Flags(S, A)
        /\ TickInIsr => Timed(S, A)
  BY DEF ListInv
<1>2. PICK t \in TimeEvts :
        \/ \E nTicks \in 1 .. MaxTicks :
              \/ rearm(t, nTicks)
              \/ \E interval \in 0 .. MaxTicks : armX(t, nTicks, interval)
        \/ disarm(t)
        \/ wasDisarmedRead(t) \/ wasDisarmedWrite(t)
        \/ consume(t)
  BY DEF TaskStep
<1>0. /\ S \cap A = {} /\ S \subseteq TimeEvts /\ A \subseteq TimeEvts
      /\ prev = Head => S = {}
  <2>1. S \cap A = {} /\ S \subseteq TimeEvts /\ A \subseteq TimeEvts
    BY <1>1, ShapeNext
  <2>2. prev = Head => S = {}
    <3> SUFFICES ASSUME prev = Head PROVE S = {}
      OBVIOUS
    <3>1. PICK m, l \in Nat :
             \E s \in [0 .. m -> Elems], g \in [1 .. l -> TimeEvts], k \in 0 .. m :
                /\ Lists(m_next, fresh, m, s, l, g)
                /\ Stands(prev, S, A, m, s, l, g, k)
      BY <1>1 DEF Shape
    <3>2. PICK s \in [0 .. m -> Elems], g \in [1 .. l -> TimeEvts], k \in 0 .. m :
             /\ Lists(m_next, fresh, m, s, l, g)
             /\ Stands(prev, S, A, m, s, l, g, k)
      BY <3>1
    <3>3. k = 0
      BY <3>2 DEF Lists, Stands
    <3> QED BY <3>2, <3>3 DEF Stands
  <2> QED BY <2>1, <2>2
\* armX() and rearm() load the counter and link the event if it is not.
<1>3. ASSUME NEW nTicks \in 1 .. MaxTicks,
             TickInIsr => tick = "idle",
             Load(t, nTicks), UNCHANGED <<tick, prev, fired>>,
             \/ m_ctr[t] = 0 /\ LinkFresh(t)
             \/ m_ctr[t] # 0 /\ UNCHANGED <<linked, m_next, fresh>>
      PROVE  ListInv'
  <2>1. /\ m_ctr' = [m_ctr EXCEPT ![t] = nTicks]
        /\ due' = [due EXCEPT ![t] = nTicks]
        /\ age' = [age EXCEPT ![t] = 0]
    BY <1>3 DEF Load
  <2>2. TickInIsr => S = {} /\ Ahead = 0 /\ Ahead' = 0 /\ fired[t] = 0
    BY <1>0, <1>3 DEF Rest, Ahead
  <2>3. CASE linked[t] \/ m_ctr[t] # 0
    <3>1. UNCHANGED <<linked, m_next, fresh>>
      BY <1>3, <2>3 DEF LinkFresh
    <3>2. Flags(S, A)'
      BY <1>1, <1>3, <2>1, <2>3, <3>1 DEF Flags, TypeInv, TimeTypes
    <3>3. TickInIsr => Timed(S, A)'
      BY <1>0, <1>1, <1>3, <2>1, <2>2 DEF Timed, TypeInv, TimeTypes
    <3> QED BY <1>1, <1>3, <3>1, <3>2, <3>3 DEF ListInv
  <2>4. CASE ~linked[t] /\ m_ctr[t] = 0
    <3>1. /\ linked' = [linked EXCEPT ![t] = TRUE]
          /\ m_next' = [m_next EXCEPT ![t] = fresh]
          /\ fresh' = t
      BY <1>3, <2>4 DEF LinkFresh
    <3>2. t \notin S \cup A
      BY <1>1, <2>4 DEF Flags
    <3>3. Shape(m_next', fresh', prev', S, A \cup {t})
      BY <1>1, <1>3, <3>1, <3>2, ShapePush DEF TypeInv, LinkTypes
    <3>4. Flags(S, A \cup {t})'
      BY <1>0, <1>1, <2>1, <3>1 DEF Flags, TypeInv, TimeTypes, FlagTypes
    <3>5. TickInIsr => Timed(S, A \cup {t})'
      BY <1>0, <1>1, <1>3, <2>1, <2>2 DEF Timed, TypeInv, TimeTypes
    <3>6. A \cup {t} \in SUBSET TimeEvts
      BY <1>0
    <3> QED BY <1>1, <3>3, <3>4, <3>5, <3>6 DEF ListInv
  <2> QED BY <2>3, <2>4
<1>4. ASSUME NEW nTicks \in 1 .. MaxTicks, rearm(t, nTicks) PROVE ListInv'
  BY <1>3, <1>4 DEF rearm, TaskRuns, Relink
<1>5. ASSUME NEW nTicks \in 1 .. MaxTicks, NEW interval \in 0 .. MaxTicks,
             armX(t, nTicks, interval)
      PROVE ListInv'
  BY <1>3, <1>5 DEF armX, TaskRuns
<1>6. CASE disarm(t)
  <2>1. /\ m_ctr' = [m_ctr EXCEPT ![t] = 0] \/ (m_ctr[t] = 0 /\ m_ctr' = m_ctr)
        /\ due' = [due EXCEPT ![t] = 0]
        /\ age' = [age EXCEPT ![t] = 0]
        /\ UNCHANGED <<m_next, fresh, prev, linked, tick, fired>>
    BY <1>6 DEF disarm, Forget
  <2>2. Flags(S, A)'
    BY <1>1, <2>1 DEF Flags, TypeInv, TimeTypes
  <2>3. TickInIsr => Timed(S, A)'
    BY <1>0, <1>1, <2>1 DEF Timed, Ahead, TypeInv, TimeTypes
  <2> QED BY <1>1, <2>1, <2>2, <2>3 DEF ListInv
<1>7. CASE wasDisarmedRead(t)
  <2>1. UNCHANGED <<m_next, fresh, prev, linked, m_ctr, due, age, fired, tick>>
    BY <1>7 DEF wasDisarmedRead, timers
  <2> QED BY <1>1, <2>1 DEF ListInv, Flags, Timed, Ahead
<1>8. CASE wasDisarmedWrite(t)
  <2>1. /\ UNCHANGED <<m_next, fresh, prev, m_ctr, due, age, fired, tick>>
        /\ linked' = [linked EXCEPT ![t] = byte[t].linked]
        /\ byte[t] # NULL /\ "wasDisarmed" \in Ops
    BY <1>8 DEF wasDisarmedWrite, WriteBack, TaskRuns
  <2>2. Flags(S, A)'
    BY <1>0, <1>1, <2>1 DEF Flags, Bytes, TypeInv, FlagTypes
  <2>3. TickInIsr => Timed(S, A)'
    BY <1>1, <2>1 DEF Timed, Ahead
  <2> QED BY <1>1, <2>1, <2>2, <2>3 DEF ListInv
<1>9. CASE consume(t)
  <2>1. UNCHANGED <<m_next, fresh, prev, linked, m_ctr, due, age, fired, tick>>
    BY <1>9 DEF consume, timers
  <2> QED BY <1>1, <2>1 DEF ListInv, Flags, Timed, Ahead
<1> QED BY <1>2, <1>4, <1>5, <1>6, <1>7, <1>8, <1>9

\* A tick begins: every event that is armed is ahead of the scan.
LEMMA StartLists ==
    ASSUME TypeInv, Rest, ListInv, tickStart
    PROVE  ListInv'
<1>1. PICK S, A \in SUBSET TimeEvts :
        /\ Shape(m_next, fresh, prev, S, A)
        /\ Flags(S, A)
        /\ TickInIsr => Timed(S, A)
  BY DEF ListInv
<1>2. /\ tick = "idle" /\ tick' = "scan" /\ prev = Head
      /\ UNCHANGED <<m_next, fresh, prev, linked, m_ctr, due, fired>>
      /\ age' = [t \in TimeEvts |-> IF TickInIsr /\ m_ctr[t] > 0 /\ age[t] <= MaxTicks
                                    THEN age[t] + 1 ELSE age[t]]
  BY DEF tickStart, timers, Rest
<1>3. Shape(m_next, fresh, prev, {}, S \cup A)
  BY <1>1, <1>2, ShapeRewind
<1>4. Flags({}, S \cup A)'
  BY <1>1, <1>2 DEF Flags
<1>5. ASSUME TickInIsr PROVE Timed({}, S \cup A)'
  <2> SUFFICES ASSUME NEW t \in S \cup A
               PROVE  /\ m_ctr[t] > 0 => m_ctr[t] = due[t] - age'[t] + 1
                      /\ fired[t] = 0
    BY <1>2 DEF Timed, Ahead
  <2>1. m_ctr[t] > 0 => m_ctr[t] = due[t] - age[t]
    BY <1>1, <1>2, <1>5 DEF Timed, Ahead, TypeInv, TimeTypes
  <2>2. /\ t \in TimeEvts /\ m_ctr[t] \in Nat /\ due[t] \in 0 .. MaxTicks
        /\ age[t] \in Nat /\ MaxTicks \in Nat
    BY TimeAssumption DEF TypeInv, TimeTypes
  <2>3. m_ctr[t] > 0 => age[t] <= MaxTicks
    BY <2>1, <2>2
  <2>4. m_ctr[t] > 0 => age'[t] = age[t] + 1
    BY <1>2, <1>5, <2>2, <2>3
  <2> QED BY <1>2, <2>1, <2>2, <2>4 DEF Rest
<1> QED BY <1>1, <1>2, <1>3, <1>4, <1>5 DEF ListInv

\* A tick ends where it began.
LEMMA RestStep ==
    ASSUME TypeInv, Rest, ListInv, Next
    PROVE  Rest'
<1>1. CASE tickerPost
  BY <1>1 DEF tickerPost, ticks, Rest
<1>2. CASE tickerGet
  BY <1>2 DEF tickerGet, ticks, Rest
<1>3. CASE tickerDispatch
  BY <1>3 DEF tickerDispatch, ticks, Rest
<1>4. CASE tickStart
  BY <1>4 DEF tickStart, Rest
<1>5. CASE scanRemove
  BY <1>5 DEF scanRemove, Rest
<1>6. CASE scanCount
  BY <1>6 DEF scanCount, Rest
<1>7. CASE scanPeriodic \/ scanOneShot
  <2>1. tick' = "post" /\ (TickInIsr \/ fired' = fired)
    BY <1>7 DEF scanPeriodic, scanOneShot, Expire, TypeInv, TimeTypes
  <2> QED BY <2>1 DEF Rest
<1>8. CASE tickPost
  BY <1>8 DEF tickPost, Rest
<1>9. CASE tickEnd
  BY <1>9 DEF tickEnd, Rest
<1>10. CASE TaskStep
  <2>1. UNCHANGED <<tick, prev, fired>>
    BY <1>10 DEF TaskStep, rearm, armX, disarm, wasDisarmedRead,
       wasDisarmedWrite, consume
  <2> QED BY <2>1 DEF Rest
<1> QED BY <1>1, <1>2, <1>3, <1>4, <1>5, <1>6, <1>7, <1>8, <1>9, <1>10
    DEF Next, tickX_

\* An event expires when it is ahead of the scan, at the last of its ticks.
LEMMA ExpireStep ==
    ASSUME TypeInv, Rest, ListInv, OncePerTick, TickInIsr => OnTime, Next
    PROVE  OncePerTick' /\ (TickInIsr => OnTime')
<1>1. CASE scanPeriodic \/ scanOneShot
  <2>1. PICK S, A \in SUBSET TimeEvts :
          /\ Shape(m_next, fresh, prev, S, A)
          /\ TickInIsr => Timed(S, A)
    BY DEF ListInv
  <2>2. PICK x : x = tevt
    OBVIOUS
  <2>3. /\ x # NULL /\ tick = "scan" /\ m_ctr[x] = 1
        /\ fire' = [due |-> due[x], age |-> age[x]]
        /\ fired' = [fired EXCEPT ![x] = IF TickInIsr /\ @ < 2
                                         THEN @ + 1 ELSE @]
    BY <1>1, <2>2 DEF scanPeriodic, scanOneShot, Expire
  <2>4. x \in A /\ x \in TimeEvts
    BY <2>1, <2>2, <2>3, Scanned
  <2>5. TickInIsr => fired[x] = 0 /\ due[x] = age[x]
    BY <2>1, <2>3, <2>4 DEF Timed, Ahead, TypeInv, TimeTypes
  <2>6. OncePerTick'
    BY <2>3, <2>4, <2>5 DEF OncePerTick, TypeInv, TimeTypes
  <2>7. TickInIsr => OnTime'
    BY <2>3, <2>5 DEF OnTime
  <2> QED BY <2>6, <2>7
<1>2. CASE tickPost
  BY <1>2 DEF tickPost, OncePerTick, OnTime
<1>3. CASE tickEnd
  BY <1>3 DEF tickEnd, OncePerTick, OnTime
<1>4. CASE ~(scanPeriodic \/ scanOneShot \/ tickPost \/ tickEnd)
  <2>1. UNCHANGED <<fire, fired>>
    <3>1. CASE tickerPost \/ tickerGet \/ tickerDispatch
      BY <3>1 DEF tickerPost, tickerGet, tickerDispatch, ticks
    <3>2. CASE tickStart \/ scanRemove \/ scanCount
      BY <3>2 DEF tickStart, scanRemove, scanCount
    <3>3. CASE TaskStep
      BY <3>3 DEF TaskStep, rearm, armX, disarm, wasDisarmedRead,
         wasDisarmedWrite, consume
    <3> QED BY <1>4, <3>1, <3>2, <3>3 DEF Next, tickX_
  <2> QED BY <2>1 DEF OncePerTick, OnTime
<1> QED BY <1>1, <1>2, <1>3, <1>4

\* A tick is posted, taken and counted.
LEMMA TickerStep ==
    ASSUME NoTickStranded, Next
    PROVE  NoTickStranded'
<1>1. CASE tickerPost
  BY <1>1 DEF tickerPost, Deliver, NoTickStranded
<1>2. CASE tickerGet
  BY <1>2 DEF tickerGet, NoTickStranded
<1>3. CASE tickerDispatch
  BY <1>3 DEF tickerDispatch, NoTickStranded
<1>4. CASE ~(tickerPost \/ tickerGet \/ tickerDispatch)
  <2>1. UNCHANGED <<m_tail, front, got>>
    BY <1>4 DEF Next, tickStart, ticker
  <2> QED BY <2>1 DEF NoTickStranded
<1> QED BY <1>1, <1>2, <1>3, <1>4

\* The constructors.
LEMMA Initially == Init => IInv
<1> SUFFICES ASSUME Init PROVE IInv
  OBVIOUS
<1>1. TypeInv
  <2>1. LinkTypes
    BY DEF Init, LinkTypes, Elems
  <2>2. TimeTypes
    <3>1. fire \in [due : Nat, age : Nat]
      BY DEF Init
    <3>2. 0 \in Nat /\ 0 \in 0 .. MaxTicks
      BY TimeAssumption
    <3> QED BY <3>1, <3>2 DEF Init, TimeTypes
  <2>3. FlagTypes
    BY DEF Init, FlagTypes
  <2> QED BY <2>1, <2>2, <2>3 DEF TypeInv
<1>2. Bytes /\ Rest /\ OncePerTick /\ OnTime /\ NoTickStranded
  <2>1. Bytes
    BY DEF Init, Bytes
  <2>2. Rest /\ OncePerTick
    BY DEF Init, Rest, OncePerTick
  <2>3. OnTime /\ NoTickStranded
    BY DEF Init, OnTime, NoTickStranded
  <2> QED BY <2>1, <2>2, <2>3
<1>3. Shape(m_next, fresh, prev, {}, {})
  <2> DEFINE s == [i \in 0 .. 0 |-> Head]
             g == [i \in 1 .. 0 |-> Head]
  <2>1. s \in [0 .. 0 -> Elems] /\ g \in [1 .. 0 -> TimeEvts]
    BY DEF Elems
  <2>2. Lists(m_next, fresh, 0, s, 0, g)
    BY DEF Lists, Init
  <2>3. Stands(prev, {}, {}, 0, s, 0, g, 0)
    BY DEF Stands, Init
  <2> HIDE DEF s, g
  <2>4. 0 \in Nat /\ 0 \in 0 .. 0
    OBVIOUS
  <2> QED BY <2>1, <2>2, <2>3, <2>4 DEF Shape
<1>4. Flags({}, {}) /\ Timed({}, {})
  BY DEF Flags, Timed, Init
<1>5. ListInv
  BY <1>3, <1>4 DEF ListInv
<1> QED BY <1>1, <1>2, <1>5 DEF IInv

\* Every step keeps the invariant.
LEMMA Inductive ==
    ASSUME Owned
    PROVE  IInv /\ [Next]_vars => IInv'
<1> SUFFICES ASSUME IInv, [Next]_vars PROVE IInv'
  OBVIOUS
<1>0. /\ TypeInv /\ Bytes /\ Rest /\ ListInv
      /\ OncePerTick /\ (TickInIsr => OnTime) /\ NoTickStranded
  BY DEF IInv
<1>1. CASE UNCHANGED vars
  <2>1. UNCHANGED <<m_next, fresh, m_ctr, m_interval, linked, disarmed, tick, prev>>
    BY <1>1 DEF vars
  <2>2. UNCHANGED <<byte, front, m_tail, got, due, age, fire, fired>>
    BY <1>1 DEF vars
  <2>3. TypeInv'
    BY <1>0, <2>1, <2>2 DEF TypeInv, LinkTypes, TimeTypes, FlagTypes
  <2>4. ListInv'
    BY <1>0, <2>1, <2>2 DEF ListInv, Flags, Timed, Ahead
  <2>5. Bytes' /\ Rest'
    BY <1>0, <2>1, <2>2 DEF Bytes, Rest
  <2>6. OncePerTick' /\ (TickInIsr => OnTime') /\ NoTickStranded'
    BY <1>0, <2>1, <2>2 DEF OncePerTick, OnTime, NoTickStranded
  <2> QED BY <2>3, <2>4, <2>5, <2>6 DEF IInv
<1>2. CASE Next
  <2>1. TypeInv' /\ ListInv' /\ Bytes'
    <3>1. CASE tickerPost \/ tickerGet \/ tickerDispatch
      <4>1. UNCHANGED <<timers, ticks>>
        BY <3>1 DEF tickerPost, tickerGet, tickerDispatch
      <4>2. UNCHANGED <<m_next, fresh, m_ctr, linked, disarmed, tick, prev>>
        BY <4>1 DEF timers, ticks
      <4>3. UNCHANGED <<byte, due, age, fired>>
        BY <4>1 DEF ticks
      <4>4. ListInv'
        BY <1>0, <4>2, <4>3 DEF ListInv, Flags, Timed, Ahead
      <4>5. Bytes'
        BY <1>0, <4>2, <4>3 DEF Bytes
      <4> QED BY <1>0, <3>1, <4>4, <4>5, TickerTypes
    <3>2. CASE tickStart
      <4>1. UNCHANGED <<linked, disarmed, byte>>
        BY <3>2 DEF tickStart, timers
      <4>2. Bytes'
        BY <1>0, <4>1 DEF Bytes
      <4> QED BY <1>0, <3>2, <4>2, TickerTypes, StartLists
    <3>3. CASE tickX_ /\ UNCHANGED ticker
      <4>1. PICK S, A \in SUBSET TimeEvts : Shape(m_next, fresh, prev, S, A)
        BY <1>0 DEF ListInv
      <4> QED BY <1>0, <3>3, <4>1, TickTypes, TickBytes, TickLists
    <3>4. CASE TaskStep /\ UNCHANGED ticker
      BY <1>0, <3>4, TaskTypes, TaskBytes, TaskLists
    <3> QED BY <1>2, <3>1, <3>2, <3>3, <3>4 DEF Next
  <2> QED BY <1>0, <1>2, <2>1, RestStep, ExpireStep, TickerStep DEF IInv
<1> QED BY <1>1, <1>2

\* The invariant holds in every state.
LEMMA Invariance ==
    ASSUME Owned
    PROVE  Spec => []IInv
BY Initially, Inductive, PTL DEF Spec

-----------------------------------------------------------------------------
\* The links from first run through f[1], ..., f[m], all different.
Runs(first, m, f) ==
    /\ first = IF m = 0 THEN NULL ELSE f[1]
    /\ \A i \in 1 .. m : m_next[f[i]] = IF i = m THEN NULL ELSE f[i + 1]
    /\ \A i, j \in 1 .. m : f[i] = f[j] => i = j

\* Following the links from the first element of a list f finds its elements
\* one after the other, and then NULL.
LEMMA NthElement ==
    ASSUME NEW m \in Nat, NEW f \in [1 .. m -> TimeEvts], NEW first,
           Runs(first, m, f)
    PROVE  \A k \in Nat : Nth(first)[k] = IF k < m THEN f[k + 1] ELSE NULL
<1> DEFINE closed == [k \in Nat |-> IF k < m THEN f[k + 1] ELSE NULL]
           nth == Nth(first)
<1>1. closed = [k \in Nat |-> IF k = 0 THEN first
                              ELSE IF closed[k - 1] = NULL THEN NULL
                              ELSE m_next[closed[k - 1]]]
  <2>1. ASSUME NEW k \in Nat
        PROVE  closed[k] = IF k = 0 THEN first
                           ELSE IF closed[k - 1] = NULL THEN NULL
                           ELSE m_next[closed[k - 1]]
    <3>1. CASE k = 0
      BY <3>1 DEF Runs
    <3>2. CASE k # 0 /\ k - 1 < m
      <4>1. closed[k - 1] = f[k] /\ k \in 1 .. m
        BY <3>2
      <4>2. closed[k - 1] # NULL
        BY <4>1, Pointers
      <4>3. m_next[f[k]] = closed[k]
        BY <4>1 DEF Runs
      <4> HIDE DEF closed
      <4> QED BY <3>2, <4>1, <4>2, <4>3
    <3>3. CASE k # 0 /\ ~(k - 1 < m)
      BY <3>3
    <3> QED BY <3>1, <3>2, <3>3
  <2>2. closed = [k \in Nat |-> closed[k]]
    OBVIOUS
  <2> HIDE DEF closed
  <2> QED BY <2>1, <2>2
<1>2. nth = [k \in Nat |-> IF k = 0 THEN first
                           ELSE IF nth[k - 1] = NULL THEN NULL
                           ELSE m_next[nth[k - 1]]]
  <2> HIDE DEF closed
  <2> QED BY <1>1, Zenon DEF Nth
<1> DEFINE Bad == {k \in Nat : nth[k] # closed[k]}
<1>3. Bad = {}
  <2> SUFFICES ASSUME Bad # {} PROVE FALSE
    OBVIOUS
  <2>1. PICK k \in Bad : \A j \in Bad : k <= j
    <3>1. Bad \subseteq Nat
      OBVIOUS
    <3> HIDE DEF Bad
    <3> QED BY <3>1, SmallestExists
  <2>2. k \in Nat /\ nth[k] # closed[k]
    OBVIOUS
  <2> HIDE DEF closed, nth
  <2>3. k # 0
    BY <1>1, <1>2, <2>2
  <2>4. k - 1 \in Nat /\ k - 1 \notin Bad
    <3>1. k - 1 \in Nat /\ ~(k <= k - 1)
      BY <2>2, <2>3
    <3> HIDE DEF Bad
    <3> QED BY <2>1, <3>1
  <2>5. nth[k - 1] = closed[k - 1]
    BY <2>4
  <2> QED BY <1>1, <1>2, <2>2, <2>3, <2>5
<1> SUFFICES ASSUME NEW k \in Nat
             PROVE  nth[k] = IF k < m THEN f[k + 1] ELSE NULL
  OBVIOUS
<1>4. nth[k] = closed[k]
  <2> HIDE DEF nth, closed
  <2> QED BY <1>3
<1> HIDE DEF nth
<1> QED BY <1>4

\* A list without repetition is not longer than there are time events, so the
\* elements that the links lead to within that many steps are all of them.
LEMMA ListedElements ==
    ASSUME NEW m \in Nat, NEW f \in [1 .. m -> TimeEvts], NEW first,
           Runs(first, m, f)
    PROVE  /\ Nth(first)[Cardinality(TimeEvts)] = NULL
           /\ \A x : x \in Listed(first) <=> \E i \in 1 .. m : x = f[i]
<1> DEFINE c == Cardinality(TimeEvts)
<1>1. c \in Nat /\ m <= c
  <2>1. IsFiniteSet(TimeEvts)
    BY TimeAssumption
  <2>2. f \in Injection(1 .. m, TimeEvts)
    BY DEF Injection, IsInjective, Runs
  <2>3. Cardinality(1 .. m) = m
    BY FS_Interval
  <2>4. c \in Nat
    BY <2>1, FS_CardinalityType
  <2>5. Cardinality(1 .. m) <= c
    BY <2>1, <2>2, FS_Injection
  <2> QED BY <2>3, <2>4, <2>5
<1>2. \A k \in Nat : Nth(first)[k] = IF k < m THEN f[k + 1] ELSE NULL
  BY NthElement
<1> HIDE DEF c
<1>3. Nth(first)[c] = NULL
  BY <1>1, <1>2
<1>4. ASSUME NEW i \in 1 .. m PROVE f[i] \in Listed(first)
  <2>1. i - 1 \in 0 .. c /\ Nth(first)[i - 1] = f[i] /\ f[i] # NULL
    BY <1>1, <1>2, Pointers
  <2> QED BY <2>1 DEF Listed, c
<1>5. ASSUME NEW x \in Listed(first) PROVE \E i \in 1 .. m : x = f[i]
  <2>1. PICK k \in 0 .. c : x = Nth(first)[k]
    BY DEF Listed, c
  <2>2. x # NULL
    BY DEF Listed
  <2>3. k + 1 \in 1 .. m /\ x = f[k + 1]
    BY <1>1, <1>2, <2>1, <2>2
  <2> QED BY <2>3
<1> QED BY <1>3, <1>4, <1>5 DEF c

\* The properties of the lists follow from their shape.
LEMMA Consistent ==
    ASSUME IInv
    PROVE  ListsSurvive /\ ("wasDisarmed" \notin Ops => ListsConsistent)
<1>1. PICK S, A \in SUBSET TimeEvts :
        Shape(m_next, fresh, prev, S, A) /\ Flags(S, A)
  BY DEF IInv, ListInv
<1>2. PICK m, l \in Nat :
         \E s \in [0 .. m -> Elems], g \in [1 .. l -> TimeEvts], k \in 0 .. m :
            /\ Lists(m_next, fresh, m, s, l, g)
            /\ Stands(prev, S, A, m, s, l, g, k)
  BY <1>1 DEF Shape
<1>3. PICK s \in [0 .. m -> Elems], g \in [1 .. l -> TimeEvts], k \in 0 .. m :
         /\ Lists(m_next, fresh, m, s, l, g)
         /\ Stands(prev, S, A, m, s, l, g, k)
  BY <1>2
<1> DEFINE f == [i \in 1 .. m |-> s[i]]
<1>4. /\ f \in [1 .. m -> TimeEvts]
      /\ \A i \in 1 .. m : f[i] = s[i]
  BY <1>3 DEF Lists
<1> HIDE DEF f
<1>a. \A i \in 0 .. m : m_next[s[i]] = IF i = m THEN NULL ELSE s[i + 1]
  BY <1>3 DEF Lists
<1>5. m_next[Head] = IF m = 0 THEN NULL ELSE f[1]
  <2>1. s[0] = Head
    BY <1>3 DEF Lists
  <2>2. m_next[s[0]] = IF 0 = m THEN NULL ELSE s[1]
    BY <1>a
  <2> QED BY <1>4, <2>1, <2>2
<1>6. ASSUME NEW i \in 1 .. m
      PROVE  m_next[f[i]] = IF i = m THEN NULL ELSE f[i + 1]
  BY <1>a, <1>4
<1>7. \A i, j \in 1 .. m : f[i] = f[j] => i = j
  BY <1>3, <1>4 DEF Lists
<1>8. /\ Nth(m_next[Head])[Cardinality(TimeEvts)] = NULL
      /\ Main = {f[i] : i \in 1 .. m}
  <2>1. PICK h : h = m_next[Head]
    OBVIOUS
  <2>2. /\ Nth(h)[Cardinality(TimeEvts)] = NULL
        /\ \A x : x \in Listed(h) <=> \E i \in 1 .. m : x = f[i]
    <3>1. Runs(h, m, f)
      BY <1>5, <1>6, <1>7, <2>1 DEF Runs
    <3> QED BY <1>4, <3>1, ListedElements
  <2> QED BY <2>1, <2>2 DEF Main
<1>9. /\ Nth(fresh)[Cardinality(TimeEvts)] = NULL
      /\ Fresh = {g[i] : i \in 1 .. l}
  <2>1. PICK h : h = fresh
    OBVIOUS
  <2>2. Runs(h, l, g)
    BY <1>3, <2>1 DEF Lists, Runs
  <2>3. /\ Nth(h)[Cardinality(TimeEvts)] = NULL
        /\ \A x : x \in Listed(h) <=> \E i \in 1 .. l : x = g[i]
    BY <2>2, ListedElements
  <2> QED BY <2>1, <2>3 DEF Fresh
<1>10. Main \cap Fresh = {}
  BY <1>3, <1>4, <1>8, <1>9 DEF Lists
<1>11. S \cup A = Main \cup Fresh
  <2>1. \A i \in 1 .. m : i \in 1 .. k \/ i \in k + 1 .. m
    OBVIOUS
  <2>2. \A i \in 1 .. k : i \in 1 .. m
    OBVIOUS
  <2>3. \A i \in k + 1 .. m : i \in 1 .. m
    OBVIOUS
  <2> QED BY <1>3, <1>4, <1>8, <1>9, <2>1, <2>2, <2>3 DEF Stands
<1>12. prev \in Main \cup {Head}
  <2>1. CASE k = 0
    BY <1>3, <2>1 DEF Lists, Stands
  <2>2. CASE k # 0
    BY <1>3, <1>4, <1>8, <2>2 DEF Stands
  <2> QED BY <2>1, <2>2
<1>13. \A t \in Main \cup Fresh : linked[t]
  BY <1>1, <1>11 DEF Flags
<1>14. "wasDisarmed" \notin Ops =>
         \A t \in TimeEvts : /\ linked[t] <=> t \in Main \cup Fresh
                             /\ m_ctr[t] > 0 => linked[t]
  BY <1>1, <1>11 DEF Flags
<1>15. ListsWellFormed
  BY <1>8, <1>9, <1>10 DEF ListsWellFormed
<1> QED BY <1>12, <1>13, <1>14, <1>15 DEF ListsConsistent, ListsSurvive

-----------------------------------------------------------------------------
(***************************************************************************)
(* The theorems.                                                           *)
(***************************************************************************)
\* Whatever the tasks and tickX_ do between each other's critical sections,
\* both lists of time events end, share no event, and TE_IS_LINKED tells
\* which events they hold, for any number of time events and wherever tickX_
\* runs.  wasDisarmed() is excluded: its unprotected write of refCtr_ may
\* bring the flag of an unlinked event back.
THEOREM ListsKept ==
    ASSUME "wasDisarmed" \notin Ops
    PROVE  Spec => []ListsConsistent
<1>1. IInv => ListsConsistent
  BY Consistent
<1>2. Owned
  BY DEF Owned
<1> QED BY <1>1, <1>2, Invariance, PTL

\* With wasDisarmed(), whose write of refCtr_ may undo what tickX_ wrote since
\* the read, the lists are still well formed under the scan and no listed
\* event lacks TE_IS_LINKED, wherever tickX_ runs, as long as every time
\* event is used by one task.
THEOREM LostUpdatesHarmless ==
    ASSUME "shared" \notin Ops
    PROVE  Spec => []ListsSurvive
<1>1. IInv => ListsSurvive
  BY Consistent
<1>2. Owned
  BY DEF Owned
<1> QED BY <1>1, <1>2, Invariance, PTL

\* No tick posted to the ticker waits for the next one.
THEOREM TicksServed == Spec => []NoTickStranded
<1>1. Init => NoTickStranded
  BY DEF Init, NoTickStranded
<1>2. NoTickStranded /\ [Next]_vars => NoTickStranded'
  BY TickerStep DEF vars, NoTickStranded
<1> QED BY <1>1, <1>2, PTL DEF Spec

\* With tickX_ in an interrupt, a time event that expires does so exactly at
\* the tick it was armed, re-armed or reloaded for, also where its task uses
\* wasDisarmed().
THEOREM ExpiresOnTime ==
    ASSUME TickInIsr, "shared" \notin Ops
    PROVE  Spec => []OnTime
<1>1. IInv => OnTime
  BY DEF IInv
<1>2. Owned
  BY DEF Owned
<1> QED BY <1>1, <1>2, Invariance, PTL

\* With tickX_ in an interrupt, no event expires twice in one call of it.
THEOREM ExpiresOnce ==
    ASSUME TickInIsr, "shared" \notin Ops
    PROVE  Spec => []OncePerTick
<1>1. IInv => OncePerTick
  BY DEF IInv
<1>2. Owned
  BY DEF Owned
<1> QED BY <1>1, <1>2, Invariance, PTL
=============================================================================
