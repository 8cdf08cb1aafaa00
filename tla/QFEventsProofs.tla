--------------------------- MODULE QFEventsProofs ---------------------------
(***************************************************************************)
(* For any number of active objects, ISRs, pools and events, and any queue *)
(* lengths: reference counts are exact, no event is recycled while it is   *)
(* referenced, no counting assertion fails, and every event is in a block  *)
(* of the smallest pool that fits it.                                      *)
(*                                                                         *)
(* The invariant says of every event in use who answers for it: counted    *)
(* references, or else exactly one process, which has just allocated it or *)
(* is collecting it.                                                       *)
(***************************************************************************)
EXTENDS QFEvents, SequenceTheorems, FiniteSetTheorems, WellFoundedInduction, TLAPS

\* A non-empty set of naturals has a smallest element.
LEMMA SmallestExists ==
    ASSUME NEW S, S \subseteq Nat, S # {}
    PROVE  \E x \in S : \A y \in S : x <= y
<1>1. PICK x \in S : \A y \in S : ~(<<y, x>> \in OpToRel(<, Nat))
  BY WFMin, NatLessThanWellFounded
<1>2. \A y \in S : ~(y < x)
  BY <1>1 DEF OpToRel
<1> QED BY <1>2

\* Max of a finite set of naturals is one of its elements.
LEMMA MaxOfFinite ==
    ASSUME NEW S, IsFiniteSet(S), S \subseteq Nat, S # {}
    PROVE  Max(S) \in S
<1> DEFINE HasMax(T) == \E x \in T : \A y \in T : x >= y
           Bad == {Cardinality(T) : T \in {T \in SUBSET S : T # {} /\ ~HasMax(T)}}
<1>1. Bad \subseteq Nat
  BY FS_Subset, FS_CardinalityType
<1>2. Bad = {}
  <2> SUFFICES ASSUME Bad # {} PROVE FALSE
    OBVIOUS
  <2>1. PICK k \in Bad : \A j \in Bad : k <= j
    <3> HIDE DEF Bad
    <3> QED BY <1>1, SmallestExists
  <2>2. PICK T \in SUBSET S : T # {} /\ ~HasMax(T) /\ k = Cardinality(T)
    OBVIOUS
  <2>3. PICK x : x \in T
    BY <2>2
  <2> DEFINE U == T \ {x}
  <2>4. IsFiniteSet(T) /\ Cardinality(T) \in Nat
    BY FS_Subset, FS_CardinalityType
  <2>5. Cardinality(U) = Cardinality(T) - 1
    BY <2>3, <2>4, FS_RemoveElement
  <2>6. U \in SUBSET S /\ ~(k <= Cardinality(U))
    BY <2>2, <2>4, <2>5
  <2>7. Cardinality(U) \notin Bad
    <3> HIDE DEF Bad, U
    <3> QED BY <2>1, <2>6
  <2>8. U = {} \/ HasMax(U)
    <3> HIDE DEF U, HasMax
    <3> QED BY <2>6, <2>7
  <2>9. CASE U = {}
    <3>1. \A y \in T : y = x
      BY <2>9
    <3>2. HasMax(T)
      BY <2>3, <3>1
    <3> QED BY <2>2, <3>2
  <2>10. CASE HasMax(U)
    <3>1. PICK u \in U : \A y \in U : u >= y
      BY <2>10
    <3>2. x \in Nat /\ u \in Nat /\ u \in T
      BY <2>3
    <3>3. CASE u >= x
      <4>1. \A y \in T : u >= y
        BY <3>1, <3>3
      <4> QED BY <2>2, <3>2, <4>1
    <3>4. CASE ~(u >= x)
      <4>1. \A y \in T : x >= y
        <5> SUFFICES ASSUME NEW y \in T PROVE x >= y
          OBVIOUS
        <5>1. y \in Nat
          OBVIOUS
        <5>2. y = x \/ u >= y
          BY <3>1
        <5> QED BY <3>2, <3>4, <5>1, <5>2
      <4> QED BY <2>2, <2>3, <4>1
    <3> QED BY <3>3, <3>4
  <2> QED BY <2>8, <2>9, <2>10
<1>3. HasMax(S)
  <2> SUFFICES ASSUME ~HasMax(S) PROVE FALSE
    OBVIOUS
  <2>1. Cardinality(S) \in Bad
    <3> HIDE DEF HasMax
    <3> QED OBVIOUS
  <2> HIDE DEF Bad
  <2> QED BY <1>2, <2>1
<1> QED BY <1>3 DEF Max

\* The parts of Refs(e).
InQ(e)   == Cardinality(Places(q, Cap, e))
InDq(e)  == Cardinality(Places(dq, DeferCap, e))
InCur(e) == Cardinality({a \in Prios : cur[a] = e})
InRef(e) == Cardinality({a \in Prios : ref[a] = e})
InArg(e) == Cardinality({p \in Procs : arg[p] = e /\ owns[p]})

-----------------------------------------------------------------------------
(***************************************************************************)
(* Counting.                                                               *)
(***************************************************************************)
Has(S, x) == IF x \in S THEN 1 ELSE 0
Is(x, e) == IF x = e THEN 1 ELSE 0

\* What the constants are.
LEMMA Constants ==
    /\ IsFiniteSet(Prios) /\ IsFiniteSet(Procs)
    /\ Cap \in Nat /\ DeferCap \in Nat
    /\ NULL \notin Evts /\ NULL \notin DynEvts
    /\ DynEvts \subseteq Evts
    /\ Prios \subseteq Procs /\ Isrs \subseteq Procs
<1>1. IsFiniteSet(Prios) /\ IsFiniteSet(Isrs)
  BY EventsAssumption
<1>2. IsFiniteSet(Procs)
  BY <1>1, FS_Union DEF Procs
<1> QED BY <1>1, <1>2, EventsAssumption DEF Evts, Procs

\* Two subsets of a finite set that agree except on one element.
LEMMA CardFlip ==
    ASSUME NEW P, IsFiniteSet(P), NEW S, NEW T, S \subseteq P, T \subseteq P,
           NEW x \in P, \A y \in P : y # x => (y \in S <=> y \in T)
    PROVE  /\ Cardinality(S) \in Nat /\ Cardinality(T) \in Nat
           /\ Cardinality(T) = Cardinality(S) - Has(S, x) + Has(T, x)
           /\ IsFiniteSet(S) /\ IsFiniteSet(T)
<1>1. IsFiniteSet(S) /\ IsFiniteSet(T)
  BY FS_Subset
<1>2. S \ {x} = T \ {x}
  OBVIOUS
<1>3. Cardinality(S) \in Nat /\ Cardinality(T) \in Nat
  BY <1>1, FS_CardinalityType
<1>4. /\ Cardinality(S \ {x}) = IF x \in S THEN Cardinality(S) - 1
                                            ELSE Cardinality(S)
      /\ Cardinality(T \ {x}) = IF x \in T THEN Cardinality(T) - 1
                                            ELSE Cardinality(T)
  BY <1>1, FS_RemoveElement, Zenon
<1>5. Cardinality(S \ {x}) = Cardinality(T \ {x})
  BY <1>2
<1>6. Cardinality(T) = Cardinality(S) - Has(S, x) + Has(T, x)
  BY <1>3, <1>4, <1>5 DEF Has
<1> QED BY <1>1, <1>3, <1>6

\* A set with an element, and one without.
LEMMA CardPositive ==
    ASSUME NEW P, IsFiniteSet(P), NEW S, S \subseteq P
    PROVE  /\ Cardinality(S) \in Nat
           /\ S # {} <=> Cardinality(S) > 0
<1>1. IsFiniteSet(S)
  BY FS_Subset
<1>2. Cardinality(S) \in Nat
  BY <1>1, FS_CardinalityType
<1>3. Cardinality(S) = 0 <=> S = {}
  BY <1>1, FS_EmptySet
<1> QED BY <1>2, <1>3

\* One value of a function changes.
LEMMA CountValue ==
    ASSUME NEW P, IsFiniteSet(P), NEW f, DOMAIN f = P, NEW x \in P, NEW v, NEW e
    PROVE  Cardinality({y \in P : [f EXCEPT ![x] = v][y] = e})
              = Cardinality({y \in P : f[y] = e}) - Is(f[x], e) + Is(v, e)
<1> DEFINE S == {y \in P : f[y] = e}
           T == {y \in P : [f EXCEPT ![x] = v][y] = e}
<1>1. S \subseteq P /\ T \subseteq P
  OBVIOUS
<1>2. \A y \in P : y # x => (y \in S <=> y \in T)
  OBVIOUS
<1>3. (x \in S <=> f[x] = e) /\ (x \in T <=> v = e)
  OBVIOUS
<1> HIDE DEF S, T
<1>4. Cardinality(T) = Cardinality(S) - Has(S, x) + Has(T, x)
  BY <1>1, <1>2, CardFlip
<1>5. Has(S, x) = Is(f[x], e) /\ Has(T, x) = Is(v, e)
  BY <1>3 DEF Has, Is
<1> QED BY <1>4, <1>5 DEF S, T

\* There are finitely many places in queues.
LEMMA PlacesFinite ==
    ASSUME NEW cap \in Nat
    PROVE  IsFiniteSet(Prios \X (1 .. cap))
<1>1. IsFiniteSet(1 .. cap)
  BY FS_Interval
<1> QED BY <1>1, Constants, FS_Product

\* The queue of a has room, and x is appended to it.
Appended(f, f2, a, x, cap) == /\ DOMAIN f = Prios /\ Len(f[a]) < cap
                              /\ \A b \in Prios : f[b] \in Seq(Evts)
                              /\ f2 = [f EXCEPT ![a] = Append(@, x)]

\* An event is appended to a queue.
LEMMA PlacesAppend ==
    ASSUME NEW cap \in Nat, NEW f, NEW f2, NEW a \in Prios, NEW x \in Evts,
           Appended(f, f2, a, x, cap), NEW e
    PROVE  Cardinality(Places(f2, cap, e))
              = Cardinality(Places(f, cap, e)) + Is(x, e)
<1>0. /\ DOMAIN f = Prios /\ Len(f[a]) < cap
      /\ \A b \in Prios : f[b] \in Seq(Evts)
      /\ f2 = [f EXCEPT ![a] = Append(@, x)]
  BY DEF Appended
<1> USE <1>0
<1> DEFINE P == Prios \X (1 .. cap)
           S == Places(f, cap, e)
           T == Places(f2, cap, e)
           k == Len(f[a]) + 1
           y == <<a, k>>
<1>1. /\ f[a] \in Seq(Evts) /\ Len(f[a]) \in Nat
      /\ k \in Nat /\ k <= cap /\ k >= 1
  BY LenProperties
<1>2. /\ Len(f2[a]) = k /\ f2[a][k] = x
      /\ \A i \in 1 .. Len(f[a]) : f2[a][i] = f[a][i]
      /\ \A b \in Prios : b # a => f2[b] = f[b]
  BY <1>1, AppendProperties
<1> HIDE DEF k
<1>3. S \subseteq P /\ T \subseteq P /\ y \in P
  BY <1>1 DEF Places
<1>4. ASSUME NEW b \in Prios, NEW i \in 1 .. cap, <<b, i>> # y
      PROVE  <<b, i>> \in S <=> <<b, i>> \in T
  <2>1. CASE b # a
    BY <1>2, <2>1 DEF Places
  <2>2. CASE b = a
    <3>1. i # k
      BY <1>4, <2>2
    <3>2. CASE i <= Len(f[a])
      <4>1. i <= Len(f2[a]) /\ f2[a][i] = f[a][i]
        BY <1>1, <1>2, <3>2 DEF k
      <4> QED BY <2>2, <3>2, <4>1 DEF Places
    <3>3. CASE i > Len(f[a])
      <4>1. ~(i <= Len(f2[a])) /\ ~(i <= Len(f[a]))
        BY <1>1, <1>2, <3>1, <3>3 DEF k
      <4> QED BY <2>2, <4>1 DEF Places
    <3> QED BY <1>1, <3>2, <3>3
  <2> QED BY <2>1, <2>2
<1>5. \A z \in P : z # y => (z \in S <=> z \in T)
  <2> SUFFICES ASSUME NEW z \in P, z # y PROVE z \in S <=> z \in T
    OBVIOUS
  <2>1. PICK b \in Prios, i \in 1 .. cap : z = <<b, i>>
    OBVIOUS
  <2> HIDE <1>0 DEF S, T, y
  <2> QED BY <1>4, <2>1
<1>6. y \notin S
  <2>1. ~(k <= Len(f[a]))
    BY <1>1 DEF k
  <2> QED BY <2>1 DEF Places
<1>7. y \in T <=> x = e
  BY <1>1, <1>2, <1>3 DEF Places
<1> HIDE DEF S, T, y, P
<1>8. /\ Cardinality(S) \in Nat
      /\ Cardinality(T) = Cardinality(S) - Has(S, y) + Has(T, y)
  <2>1. IsFiniteSet(P)
    BY PlacesFinite DEF P
  <2> HIDE <1>0
  <2> QED BY <1>3, <1>5, <2>1, CardFlip
<1>9. Has(S, y) = 0 /\ Has(T, y) = Is(x, e) /\ Is(x, e) \in Nat
  BY <1>6, <1>7 DEF Has, Is
<1>10. Cardinality(T) = Cardinality(S) + Is(x, e)
  BY <1>8, <1>9
<1> QED BY <1>10 DEF S, T

\* x is the front of the queue of a in f, and f2 is f without it.
Shifted(f, f2, a, x, cap) ==
    /\ DOMAIN f = Prios /\ DOMAIN f2 = Prios
    /\ \A b \in Prios : b # a => f2[b] = f[b]
    /\ Len(f[a]) \in Nat /\ Len(f[a]) >= 1 /\ Len(f[a]) <= cap
    /\ Len(f2[a]) = Len(f[a]) - 1 /\ f[a][1] = x
    /\ \A i \in 1 .. Len(f2[a]) : f2[a][i] = f[a][i + 1]

\* An event is taken from the front of a queue.
LEMMA PlacesTail ==
    ASSUME NEW cap \in Nat, NEW f, NEW f2, NEW a \in Prios, NEW x,
           Shifted(f, f2, a, x, cap), NEW e
    PROVE  Cardinality(Places(f, cap, e))
              = Cardinality(Places(f2, cap, e)) + Is(x, e)
<1>0. /\ DOMAIN f = Prios /\ DOMAIN f2 = Prios
      /\ \A b \in Prios : b # a => f2[b] = f[b]
      /\ Len(f[a]) \in Nat /\ Len(f[a]) >= 1 /\ Len(f[a]) <= cap
      /\ Len(f2[a]) = Len(f[a]) - 1 /\ f[a][1] = x
      /\ \A i \in 1 .. Len(f2[a]) : f2[a][i] = f[a][i + 1]
  BY DEF Shifted
<1> USE <1>0
<1> DEFINE P == Prios \X (1 .. cap)
           S == Places(f, cap, e)
           T == Places(f2, cap, e)
           y == <<a, 1>>
           U == S \ {y}
           g == [z \in T |-> IF z[1] = a THEN <<a, z[2] + 1>> ELSE z]
<1>1. S \subseteq P /\ T \subseteq P /\ y \in P
  BY DEF Places
<1>2. IsFiniteSet(S) /\ IsFiniteSet(T) /\ IsFiniteSet(U)
  <2>1. IsFiniteSet(P)
    BY PlacesFinite
  <2> HIDE DEF P, S, T, y
  <2> QED BY <1>1, <2>1, FS_Subset
<1>3. y \in S <=> x = e
  BY <1>1 DEF Places
<1>4. ASSUME NEW z \in T PROVE g[z] \in U
  <2>1. PICK b \in Prios, i \in 1 .. cap : z = <<b, i>>
    BY <1>1
  <2>2. i <= Len(f2[b]) /\ f2[b][i] = e
    BY <2>1 DEF Places
  <2>3. CASE b = a
    <3>1. g[z] = <<a, i + 1>>
      BY <2>1, <2>3
    <3>2. i + 1 \in 1 .. cap /\ i + 1 <= Len(f[a]) /\ f[a][i + 1] = e
      BY <2>2, <2>3
    <3>3. i + 1 # 1
      OBVIOUS
    <3> HIDE DEF g
    <3> QED BY <3>1, <3>2, <3>3 DEF Places
  <2>4. CASE b # a
    <3>1. g[z] = z
      BY <2>1, <2>4
    <3> HIDE DEF g
    <3> QED BY <2>1, <2>2, <2>4, <3>1 DEF Places
  <2> QED BY <2>3, <2>4
<1>5. ASSUME NEW z \in T, NEW w \in T, g[z] = g[w] PROVE z = w
  <2>1. PICK b \in Prios, i \in 1 .. cap : z = <<b, i>>
    BY <1>1
  <2>2. PICK c \in Prios, j \in 1 .. cap : w = <<c, j>>
    BY <1>1
  <2>3. /\ g[z] = IF b = a THEN <<a, i + 1>> ELSE <<b, i>>
        /\ g[w] = IF c = a THEN <<a, j + 1>> ELSE <<c, j>>
    BY <2>1, <2>2
  <2> HIDE DEF g
  <2> QED BY <1>5, <2>1, <2>2, <2>3
<1>6. ASSUME NEW u \in U PROVE \E z \in T : g[z] = u
  <2>1. PICK b \in Prios, i \in 1 .. cap : u = <<b, i>>
    BY <1>1
  <2>2. i <= Len(f[b]) /\ f[b][i] = e
    BY <2>1 DEF Places
  <2>3. CASE b = a
    <3>1. i # 1
      BY <2>1, <2>3
    <3>2. i - 1 \in 1 .. cap /\ i - 1 <= Len(f2[a]) /\ f2[a][i - 1] = e
      BY <2>2, <2>3, <3>1
    <3>3. <<a, i - 1>> \in T
      BY <3>2 DEF Places
    <3>4. g[<<a, i - 1>>] = <<a, i>>
      BY <3>3
    <3> HIDE DEF g
    <3> QED BY <2>1, <2>3, <3>3, <3>4
  <2>4. CASE b # a
    <3>1. u \in T
      BY <2>1, <2>2, <2>4 DEF Places
    <3>2. g[u] = u
      BY <2>1, <2>4, <3>1
    <3> HIDE DEF g
    <3> QED BY <3>1, <3>2
  <2> QED BY <2>3, <2>4
<1>7. g \in Bijection(T, U)
  <2>1. g \in [T -> U]
    <3>1. DOMAIN g = T /\ g = [z \in T |-> g[z]]
      OBVIOUS
    <3> HIDE DEF g, U, T
    <3> QED BY <1>4, <3>1
  <2> HIDE DEF g, U, T
  <2>2. g \in Injection(T, U)
    BY <1>5, <2>1 DEF Injection, IsInjective
  <2>3. g \in Surjection(T, U)
    BY <1>6, <2>1 DEF Surjection
  <2> QED BY <2>2, <2>3 DEF Bijection
<1> HIDE DEF g, T, S, y
<1>8. Cardinality(U) = Cardinality(T)
  <2> HIDE DEF U
  <2>1. ExistsBijection(T, U)
    BY <1>7 DEF ExistsBijection
  <2> QED BY <1>2, <2>1, FS_Bijection
<1>9. /\ Cardinality(U) = IF y \in S THEN Cardinality(S) - 1 ELSE Cardinality(S)
      /\ Cardinality(S) \in Nat
  BY <1>2, FS_RemoveElement, FS_CardinalityType
<1>10. Cardinality(S) = Cardinality(T) + Is(x, e)
  BY <1>3, <1>8, <1>9 DEF Is
<1> QED BY <1>10 DEF S, T

-----------------------------------------------------------------------------
(***************************************************************************)
(* The inductive invariant.                                                *)
(***************************************************************************)
PrioPcs == {"main", "get", "rtc", "multicast", "gc", "put", "recallPost",
            "recallDec", "flush"}
IsrPcs == {"main", "isr", "multicast", "gc", "put"}

\* Types.
PoolTypes == /\ QF_pool_ \in Seq(Nat) /\ Len(QF_pool_) <= Len(PoolSto)
             /\ free \subseteq DynEvts
             /\ poolId_ \in [Evts -> Nat]
             /\ size \in [DynEvts -> Nat]
CtrTypes == refCtr_ \in [Evts -> Nat]
QueueTypes == /\ q \in [Prios -> Seq(Evts)] /\ dq \in [Prios -> Seq(Evts)]
              /\ \A a \in Prios : Len(q[a]) <= Cap /\ Len(dq[a]) <= DeferCap
ProcTypes == /\ pc \in [Procs -> PrioPcs \cup IsrPcs]
             /\ ret \in [Procs -> {"get", "rtc", "flush", "isr"}]
             /\ arg \in [Procs -> Evts \cup {NULL}]
             /\ owns \in [Procs -> BOOLEAN]
             /\ todo \in [Procs -> SUBSET Prios]
             /\ subscr \subseteq Prios
HandTypes == /\ cur \in [Prios -> Evts \cup {NULL}]
             /\ ref \in [Prios -> DynEvts \cup {NULL}]
             /\ new \in [Procs -> DynEvts \cup {NULL}]
Types == PoolTypes /\ CtrTypes /\ QueueTypes /\ ProcTypes /\ HandTypes

\* An active object is in its RTC step.
InRtc(a) == \/ pc[a] \in {"rtc", "multicast", "recallPost", "recallDec", "flush"}
            \/ pc[a] \in {"gc", "put"} /\ ret[a] # "get"

\* What a process has in its hands, by what it is executing.
Local(p) ==
    /\ pc[p] \in {"multicast", "recallPost", "recallDec", "gc", "put"}
          <=> arg[p] # NULL
    /\ pc[p] \in {"multicast", "recallPost", "recallDec"} => owns[p]
    /\ owns[p] => arg[p] # NULL
    /\ pc[p] = "put" => ~owns[p] /\ arg[p] \in DynEvts
    /\ pc[p] = "multicast" => todo[p] # {}
    /\ p \in Prios => /\ pc[p] \in PrioPcs /\ ret[p] # "isr"
                      /\ cur[p] # NULL <=> InRtc(p)
    /\ p \in Isrs => pc[p] \in IsrPcs /\ ret[p] = "isr"

\* recall() has put the event back into the queue, where it stays until the
\* active object has finished recall().
Queued(a, x) == \E i \in 1 .. Len(q[a]) : q[a][i] = x
Recalled == \A a \in Prios : pc[a] = "recallDec" => Queued(a, arg[a])

\* main() gives control to all processes at once.
Started == (\E p \in Procs : pc[p] = "main") => \A p \in Procs : pc[p] = "main"

\* The pools are in ascending order; an event in use is in a block that its
\* pool gave away, of the first pool that fits.
Pools ==
    /\ \A i, j \in DOMAIN QF_pool_ : i < j => QF_pool_[i] < QF_pool_[j]
    /\ \A e \in free : \E i \in DOMAIN QF_pool_ : e \in PoolSto[i]
    /\ \A e \in StaticEvts : poolId_[e] = 0
    /\ \A e \in DynEvts : Allocated(e) =>
          /\ e \notin free
          /\ poolId_[e] \in DOMAIN QF_pool_ /\ e \in PoolSto[poolId_[e]]
          /\ size[e] <= QF_pool_[poolId_[e]]
          /\ \A j \in Fitting(size[e]) : poolId_[e] <= j

\* The processes that allocated e and did not hand it on, and the ones that
\* collect it without a counted reference.
News(e) == {p \in Procs : new[p] = e}
Uncounted(e) == {p \in Procs : arg[p] = e /\ ~owns[p]}

\* Who answers for e: counted references, or else one process.
Life(e) ==
    /\ ~Allocated(e) => Refs(e) = 0 /\ News(e) = {} /\ Uncounted(e) = {}
    /\ Allocated(e) /\ Refs(e) > 0 => News(e) = {} /\ Uncounted(e) = {}
    /\ Allocated(e) /\ Refs(e) = 0 =>
          \E p \in Procs : \/ News(e) = {p} /\ Uncounted(e) = {}
                           \/ News(e) = {} /\ Uncounted(e) = {p}
    /\ Allocated(e) /\ Putting(e) = {} => refCtr_[e] = Refs(e)

IInv == /\ Types /\ (\A p \in Procs : Local(p)) /\ Recalled /\ Started /\ Pools
        /\ \A e \in DynEvts : Life(e)
        /\ NoCountingAssertion

-----------------------------------------------------------------------------
(***************************************************************************)
(* What keeps the parts of the invariant.                                  *)
(***************************************************************************)
\* The parts of Refs(e) are natural numbers.
LEMMA RefsType ==
    ASSUME NEW e
    PROVE  /\ InQ(e) \in Nat /\ InDq(e) \in Nat /\ InCur(e) \in Nat
           /\ InRef(e) \in Nat /\ InArg(e) \in Nat
           /\ Refs(e) = InQ(e) + InDq(e) + InCur(e) + InRef(e) + InArg(e)
           /\ Refs(e) \in Nat
<1>1. InQ(e) \in Nat
  <2>1. Places(q, Cap, e) \subseteq Prios \X (1 .. Cap)
    BY DEF Places
  <2> QED BY <2>1, Constants, PlacesFinite, CardPositive DEF InQ
<1>2. InDq(e) \in Nat
  <2>1. Places(dq, DeferCap, e) \subseteq Prios \X (1 .. DeferCap)
    BY DEF Places
  <2> QED BY <2>1, Constants, PlacesFinite, CardPositive DEF InDq
<1>3. InCur(e) \in Nat
  <2>1. {a \in Prios : cur[a] = e} \subseteq Prios
    OBVIOUS
  <2> QED BY <2>1, Constants, CardPositive DEF InCur
<1>4. InRef(e) \in Nat
  <2>1. {a \in Prios : ref[a] = e} \subseteq Prios
    OBVIOUS
  <2> QED BY <2>1, Constants, CardPositive DEF InRef
<1>5. InArg(e) \in Nat
  <2>1. {p \in Procs : arg[p] = e /\ owns[p]} \subseteq Procs
    OBVIOUS
  <2> QED BY <2>1, Constants, CardPositive DEF InArg
<1>6. Refs(e) = InQ(e) + InDq(e) + InCur(e) + InRef(e) + InArg(e)
  BY DEF Refs, InQ, InDq, InCur, InRef, InArg
<1> QED BY <1>1, <1>2, <1>3, <1>4, <1>5, <1>6

\* The same in the next state.
LEMMA RefsTypeNext ==
    ASSUME NEW e
    PROVE  /\ InQ(e)' \in Nat /\ InDq(e)' \in Nat /\ InCur(e)' \in Nat
           /\ InRef(e)' \in Nat /\ InArg(e)' \in Nat
           /\ Refs(e)' = InQ(e)' + InDq(e)' + InCur(e)' + InRef(e)' + InArg(e)'
           /\ Refs(e)' \in Nat
<1>1. InQ(e)' \in Nat
  <2>1. Places(q', Cap, e) \subseteq Prios \X (1 .. Cap)
    BY DEF Places
  <2> QED BY <2>1, Constants, PlacesFinite, CardPositive DEF InQ
<1>2. InDq(e)' \in Nat
  <2>1. Places(dq', DeferCap, e) \subseteq Prios \X (1 .. DeferCap)
    BY DEF Places
  <2> QED BY <2>1, Constants, PlacesFinite, CardPositive DEF InDq
<1>3. InCur(e)' \in Nat
  <2>1. {a \in Prios : cur'[a] = e} \subseteq Prios
    OBVIOUS
  <2> QED BY <2>1, Constants, CardPositive DEF InCur
<1>4. InRef(e)' \in Nat
  <2>1. {a \in Prios : ref'[a] = e} \subseteq Prios
    OBVIOUS
  <2> QED BY <2>1, Constants, CardPositive DEF InRef
<1>5. InArg(e)' \in Nat
  <2>1. {p \in Procs : arg'[p] = e /\ owns'[p]} \subseteq Procs
    OBVIOUS
  <2> QED BY <2>1, Constants, CardPositive DEF InArg
<1>6. Refs(e)' = InQ(e)' + InDq(e)' + InCur(e)' + InRef(e)' + InArg(e)'
  BY DEF Refs, InQ, InDq, InCur, InRef, InArg
<1> QED BY <1>1, <1>2, <1>3, <1>4, <1>5, <1>6

\* A reference that is there is counted.
LEMMA RefsPositive ==
    ASSUME Types, NEW e
    PROVE  /\ \A a \in Prios : Queued(a, e) => InQ(e) > 0
           /\ \A a \in Prios : cur[a] = e => InCur(e) > 0
           /\ \A a \in Prios : ref[a] = e => InRef(e) > 0
           /\ \A p \in Procs : arg[p] = e /\ owns[p] => InArg(e) > 0
<1>1. ASSUME NEW a \in Prios, Queued(a, e) PROVE InQ(e) > 0
  <2>1. PICK i \in 1 .. Len(q[a]) : q[a][i] = e
    BY <1>1 DEF Queued
  <2>2. Len(q[a]) \in Nat /\ Len(q[a]) <= Cap
    BY LenProperties DEF Types, QueueTypes
  <2>3. i \in 1 .. Cap
    BY <2>2, Constants
  <2>4. <<a, i>> \in Places(q, Cap, e)
    BY <2>1, <2>3 DEF Places
  <2>5. Places(q, Cap, e) \subseteq Prios \X (1 .. Cap)
    BY DEF Places
  <2> QED BY <2>4, <2>5, Constants, PlacesFinite, CardPositive DEF InQ
<1>2. ASSUME NEW a \in Prios, cur[a] = e PROVE InCur(e) > 0
  <2>1. {b \in Prios : cur[b] = e} \subseteq Prios /\ a \in {b \in Prios : cur[b] = e}
    BY <1>2
  <2> QED BY <2>1, Constants, CardPositive DEF InCur
<1>3. ASSUME NEW a \in Prios, ref[a] = e PROVE InRef(e) > 0
  <2>1. {b \in Prios : ref[b] = e} \subseteq Prios /\ a \in {b \in Prios : ref[b] = e}
    BY <1>3
  <2> QED BY <2>1, Constants, CardPositive DEF InRef
<1>4. ASSUME NEW p \in Procs, arg[p] = e /\ owns[p] PROVE InArg(e) > 0
  <2> DEFINE S == {r \in Procs : arg[r] = e /\ owns[r]}
  <2>1. S \subseteq Procs /\ p \in S
    BY <1>4
  <2> HIDE DEF S
  <2>2. Cardinality(S) > 0
    BY <2>1, Constants, CardPositive
  <2> QED BY <2>2 DEF InArg, S
<1> QED BY <1>1, <1>2, <1>3, <1>4

\* A referenced event is in use, and nobody else answers for it.
Good(x) == /\ Allocated(x) /\ Uncounted(x) = {} /\ Putting(x) = {}
           /\ refCtr_[x] = Refs(x) /\ poolId_[x] # 0

\* Whoever is returning a block collects it without a counted reference.
LEMMA PuttingUncounted ==
    ASSUME IInv, NEW e
    PROVE  Putting(e) \subseteq Uncounted(e)
BY DEF IInv, Local, Putting, Uncounted

\* An event in use names its pool.
LEMMA InUsePool ==
    ASSUME IInv, NEW x \in DynEvts, Allocated(x)
    PROVE  poolId_[x] # 0
<1>1. poolId_[x] \in DOMAIN QF_pool_
  BY DEF IInv, Pools
<1>2. DOMAIN QF_pool_ = 1 .. Len(QF_pool_)
  BY LenProperties DEF IInv, Types, PoolTypes
<1> QED BY <1>1, <1>2

\* What Life says of an event with references.
LEMMA Referenced ==
    ASSUME IInv, NEW x \in DynEvts, Refs(x) > 0
    PROVE  Good(x) /\ News(x) = {}
<1>1. Life(x)
  BY DEF IInv
<1>2. Allocated(x) /\ News(x) = {} /\ Uncounted(x) = {}
  BY <1>1 DEF Life
<1>3. Putting(x) = {}
  BY <1>2, PuttingUncounted
<1>4. refCtr_[x] = Refs(x)
  BY <1>1, <1>2, <1>3 DEF Life
<1>5. poolId_[x] # 0
  BY <1>2, InUsePool
<1> QED BY <1>2, <1>3, <1>4, <1>5 DEF Good

\* What a process holds is referenced.
LEMMA HoldsCur ==
    ASSUME IInv, NEW a \in Prios, cur[a] \in DynEvts
    PROVE  Refs(cur[a]) > 0
<1>1. PICK x : x = cur[a]
  OBVIOUS
<1>2. InCur(x) > 0
  BY <1>1, RefsPositive DEF IInv
<1> QED BY <1>1, <1>2, RefsType

\* The same for a kept reference.
LEMMA HoldsRef ==
    ASSUME IInv, NEW a \in Prios, ref[a] \in DynEvts
    PROVE  Refs(ref[a]) > 0
<1>1. PICK x : x = ref[a]
  OBVIOUS
<1>2. InRef(x) > 0
  BY <1>1, RefsPositive DEF IInv
<1> QED BY <1>1, <1>2, RefsType

\* The same for a counted reference that a process works on.
LEMMA HoldsArg ==
    ASSUME IInv, NEW p \in Procs, arg[p] \in DynEvts, owns[p]
    PROVE  Refs(arg[p]) > 0
<1>1. PICK x : x = arg[p]
  OBVIOUS
<1>2. InArg(x) > 0
  BY <1>1, RefsPositive DEF IInv
<1> QED BY <1>1, <1>2, RefsType

\* A process that runs application code works on no event.
LEMMA HomeArg ==
    ASSUME IInv, NEW p \in Procs, AtHome(p)
    PROVE  /\ arg[p] = NULL /\ ~owns[p] /\ pc[p] # "main"
           /\ p \in Prios => pc[p] = "rtc" /\ cur[p] \in Evts
           /\ p \notin Prios => pc[p] = "isr" /\ p \in Isrs
<1>1. /\ p \in Isrs => pc[p] = "isr"
      /\ p \notin Isrs => pc[p] = "rtc"
  BY DEF AtHome, Home
<1>2. Local(p)
  BY DEF IInv
<1>3. arg[p] = NULL /\ ~owns[p] /\ pc[p] # "main"
  BY <1>1, <1>2 DEF Local
<1>4. p \in Prios => p \notin Isrs
  BY EventsAssumption
<1>5. p \notin Prios => p \in Isrs
  BY DEF Procs
<1>6. ASSUME p \in Prios PROVE pc[p] = "rtc" /\ cur[p] \in Evts
  <2>1. pc[p] = "rtc" /\ cur[p] # NULL
    BY <1>1, <1>2, <1>4, <1>6 DEF Local, InRtc
  <2> QED BY <1>6, <2>1 DEF IInv, Types, HandTypes
<1> QED BY <1>1, <1>3, <1>5, <1>6

\* The events that a process has at hand are in use.
LEMMA Hand ==
    ASSUME IInv, NEW p \in Procs, AtHome(p), NEW x \in AtHand(p)
    PROVE  /\ x \in Evts
           /\ x \in DynEvts => Good(x) /\ News(x) \subseteq {p}
           /\ x \notin DynEvts => poolId_[x] = 0
           /\ x \in DynEvts /\ x \notin Forwardable(p) => Refs(x) = 0
<1>1. CASE x = new[p] /\ x # NULL
  <2>1. x \in DynEvts /\ p \in News(x)
    BY <1>1 DEF IInv, Types, HandTypes, News
  <2>2. Life(x) /\ Refs(x) \in Nat
    BY <2>1, RefsType DEF IInv
  <2>3. Allocated(x)
    BY <2>1, <2>2 DEF Life
  <2>4. Refs(x) = 0
    BY <2>1, <2>2, <2>3 DEF Life
  <2>5. Uncounted(x) = {} /\ News(x) = {p}
    BY <2>1, <2>2, <2>3, <2>4 DEF Life
  <2>6. Putting(x) = {}
    BY <2>5, PuttingUncounted
  <2>7. refCtr_[x] = Refs(x)
    BY <2>2, <2>3, <2>6 DEF Life
  <2>8. poolId_[x] # 0
    BY <2>1, <2>3, InUsePool
  <2> QED BY <2>1, <2>3, <2>4, <2>5, <2>6, <2>7, <2>8, Constants DEF Good
<1>2. CASE x \in StaticEvts
  <2>1. x \in Evts /\ x \notin DynEvts
    BY <1>2, EventsAssumption DEF Evts
  <2> QED BY <1>2, <2>1 DEF IInv, Pools
<1>3. CASE x \in Forwardable(p)
  <2>1. p \in Prios /\ x \in {cur[p], ref[p]} /\ x # NULL
    BY <1>3 DEF Forwardable
  <2>2. x \in Evts
    BY <2>1, Constants DEF IInv, Types, HandTypes
  <2>3. x \in DynEvts => Good(x) /\ News(x) = {}
    BY <2>1, HoldsCur, HoldsRef, Referenced
  <2>4. x \notin DynEvts => poolId_[x] = 0
    BY <2>2 DEF IInv, Pools, Evts
  <2> QED BY <1>3, <2>2, <2>3, <2>4
<1> QED BY <1>1, <1>2, <1>3 DEF AtHand

-----------------------------------------------------------------------------
(***************************************************************************)
(* What a step of one process leaves alone.                                *)
(***************************************************************************)
OthersKept(p) ==
    \A r \in Procs : r # p =>
        /\ pc'[r] = pc[r] /\ arg'[r] = arg[r] /\ owns'[r] = owns[r]
        /\ todo'[r] = todo[r] /\ ret'[r] = ret[r] /\ new'[r] = new[r]
        /\ r \in Prios => cur'[r] = cur[r]

\* A process whose state does not change.
LEMMA LocalKept ==
    ASSUME NEW r \in Procs, Local(r),
           pc'[r] = pc[r], arg'[r] = arg[r], owns'[r] = owns[r],
           todo'[r] = todo[r], ret'[r] = ret[r],
           r \in Prios => cur'[r] = cur[r]
    PROVE  Local(r)'
BY DEF Local, InRtc

\* Pools that do not change.
LEMMA PoolsKept ==
    ASSUME IInv, UNCHANGED <<pools, free>>
    PROVE  Pools'
BY DEF IInv, Pools, pools, Allocated, Fitting

\* A step of one process keeps what is not about its own hands.
LEMMA FramePools ==
    ASSUME IInv, NEW p \in Procs, OthersKept(p), pc[p] # "main", pc'[p] # "main",
           Pools', Types', Local(p)', Recalled',
           NoCountingAssertion', \A e \in DynEvts : Life(e)'
    PROVE  IInv'
<1>1. \A r \in Procs : Local(r)'
  <2>1. ASSUME NEW r \in Procs, r # p PROVE Local(r)'
    BY <2>1, LocalKept DEF IInv, OthersKept
  <2> QED BY <2>1
<1>2. \A r \in Procs : pc[r] # "main" /\ pc'[r] # "main"
  BY DEF IInv, Started, OthersKept
<1>3. Started'
  BY <1>2 DEF Started
<1> QED BY <1>1, <1>3 DEF IInv

\* The same for a step that leaves the pools alone.
LEMMA Frame ==
    ASSUME IInv, NEW p \in Procs, OthersKept(p), pc[p] # "main", pc'[p] # "main",
           UNCHANGED <<pools, free>>, Types', Local(p)', Recalled',
           NoCountingAssertion', \A e \in DynEvts : Life(e)'
    PROVE  IInv'
<1>1. Pools'
  BY PoolsKept
<1> QED BY <1>1, FramePools

\* recall() in progress in other active objects.
LEMMA RecalledKept ==
    ASSUME IInv, NEW p \in Procs, OthersKept(p),
           p \in Prios => pc'[p] # "recallDec" \/ Queued(p, arg[p])',
           \A b \in Prios : \A y : b # p /\ Queued(b, y) => Queued(b, y)'
    PROVE  Recalled'
<1> SUFFICES ASSUME NEW b \in Prios, pc'[b] = "recallDec"
             PROVE  Queued(b, arg[b])'
  BY DEF Recalled
<1> SUFFICES ASSUME b # p PROVE Queued(b, arg[b])'
  OBVIOUS
<1>1. b \in Procs
  BY Constants
<1>2. pc[b] = "recallDec" /\ arg'[b] = arg[b]
  BY <1>1 DEF OthersKept
<1>3. PICK y : y = arg[b]
  OBVIOUS
<1>4. Queued(b, y)
  BY <1>2, <1>3 DEF IInv, Recalled
<1>5. Queued(b, y)'
  BY <1>4
<1> QED BY <1>2, <1>3, <1>5

\* Queues that do not change.
LEMMA QueuedSame ==
    ASSUME UNCHANGED q
    PROVE  \A b \in Prios : \A y : Queued(b, y) => Queued(b, y)'
BY DEF Queued

\* Nothing about e changes.
LEMMA LifeSame ==
    ASSUME NEW e \in DynEvts, Life(e), size'[e] = size[e], Refs(e)' = Refs(e),
           News(e)' = News(e), Uncounted(e)' = Uncounted(e),
           Putting(e)' = Putting(e), refCtr_'[e] = refCtr_[e]
    PROVE  Life(e)'
BY DEF Life, Allocated

\* The references to one event change, and its counter with them.
LEMMA LifeBalanced ==
    ASSUME IInv, NEW x, UNCHANGED size,
           \A e \in DynEvts : e # x =>
              /\ Refs(e)' = Refs(e) /\ News(e)' = News(e)
              /\ Uncounted(e)' = Uncounted(e) /\ Putting(e)' = Putting(e)
              /\ refCtr_'[e] = refCtr_[e],
           x \in DynEvts => /\ Good(x) /\ refCtr_'[x] = Refs(x)' /\ Refs(x)' > 0
                            /\ News(x)' = {} /\ Uncounted(x)' = {}
    PROVE  \A e \in DynEvts : Life(e)'
<1> SUFFICES ASSUME NEW e \in DynEvts PROVE Life(e)'
  OBVIOUS
<1>1. CASE e # x
  BY <1>1, LifeSame DEF IInv
<1>2. CASE e = x
  <2>1. Allocated(x)' /\ Refs(x)' > 0 /\ Refs(x)' \in Nat
    BY <1>2, RefsTypeNext DEF Good, Allocated
  <2> QED BY <1>2, <2>1 DEF Life
<1> QED BY <1>1, <1>2

\* A reference to x is added and counted.
LEMMA LifeUp ==
    ASSUME IInv, NEW x, UNCHANGED size, x \in DynEvts => Good(x) /\ News(x)' = {},
           \A e \in DynEvts :
              /\ Refs(e)' = Refs(e) + Is(x, e) /\ refCtr_'[e] = refCtr_[e] + Is(x, e)
              /\ Uncounted(e)' = Uncounted(e) /\ Putting(e)' = Putting(e)
              /\ e # x => News(e)' = News(e)
    PROVE  \A e \in DynEvts : Life(e)'
<1>1. \A e \in DynEvts : Refs(e) \in Nat /\ refCtr_[e] \in Nat
  BY RefsType, Constants DEF IInv, Types, CtrTypes
<1>2. \A e \in DynEvts : e # x => Refs(e)' = Refs(e) /\ refCtr_'[e] = refCtr_[e]
  BY <1>1 DEF Is
<1>3. x \in DynEvts => refCtr_'[x] = Refs(x)' /\ Refs(x)' > 0 /\ Uncounted(x)' = {}
  BY <1>1 DEF Is, Good
<1> QED BY <1>2, <1>3, LifeBalanced

\* A reference to x is given up and no longer counted.
LEMMA LifeDown ==
    ASSUME IInv, NEW x, UNCHANGED <<size, new>>, x \in DynEvts => Refs(x) > 1,
           \A e \in DynEvts :
              /\ Refs(e)' = Refs(e) - Is(x, e) /\ refCtr_'[e] = refCtr_[e] - Is(x, e)
              /\ Uncounted(e)' = Uncounted(e) /\ Putting(e)' = Putting(e)
    PROVE  \A e \in DynEvts : Life(e)'
<1>1. \A e \in DynEvts : Refs(e) \in Nat /\ refCtr_[e] \in Nat
  BY RefsType, Constants DEF IInv, Types, CtrTypes
<1>2. \A e \in DynEvts : e # x => Refs(e)' = Refs(e) /\ refCtr_'[e] = refCtr_[e]
  BY <1>1 DEF Is
<1>3. x \in DynEvts => Good(x) /\ News(x) = {}
  BY <1>1, Referenced
<1>4. x \in DynEvts => refCtr_'[x] = Refs(x)' /\ Refs(x)' > 0 /\ Uncounted(x)' = {}
  BY <1>1, <1>3 DEF Is, Good
<1>5. \A e \in DynEvts : News(e)' = News(e)
  BY DEF News
<1> QED BY <1>2, <1>3, <1>4, <1>5, LifeBalanced

\* References move from one place to another.
LEMMA LifeMoved ==
    ASSUME IInv, UNCHANGED <<size, refCtr_, new>>,
           \A e \in DynEvts :
              /\ Refs(e)' = Refs(e)
              /\ Uncounted(e)' = Uncounted(e) /\ Putting(e)' = Putting(e)
    PROVE  \A e \in DynEvts : Life(e)'
<1>1. \A e \in DynEvts : News(e)' = News(e)
  BY DEF News
<1> QED BY <1>1, LifeSame DEF IInv

-----------------------------------------------------------------------------
(***************************************************************************)
(* How the parts of Refs(e) change.                                        *)
(***************************************************************************)
LEMMA Counting ==
    ASSUME Types, NEW x \in Evts, AddRef(x), x \in DynEvts => poolId_[x] # 0
    PROVE  /\ CtrTypes'
           /\ \A e \in DynEvts : refCtr_'[e] = refCtr_[e] + Is(x, e)
<1>1. refCtr_ \in [Evts -> Nat]
  BY DEF Types, CtrTypes
<1>2. CASE poolId_[x] # 0
  <2>1. refCtr_' = [refCtr_ EXCEPT ![x] = @ + 1]
    BY <1>2 DEF AddRef
  <2> QED BY <1>1, <2>1, Constants DEF CtrTypes, Is
<1>3. CASE poolId_[x] = 0
  <2>1. refCtr_' = refCtr_ /\ x \notin DynEvts
    BY <1>3 DEF AddRef
  <2> QED BY <1>1, <2>1, Constants DEF CtrTypes, Is
<1> QED BY <1>2, <1>3

\* post_ appends only to a queue with a free entry.
LEMMA RoomToPost ==
    ASSUME Types, NEW a \in Prios, NEW margin \in Margins \cup {NoMargin},
           CanPost(a, margin)
    PROVE  Len(q[a]) < Cap
<1>1. Len(q[a]) \in Nat /\ Cap \in Nat
  BY Constants, LenProperties DEF Types, QueueTypes
<1>2. CASE margin = NoMargin
  BY <1>1, <1>2 DEF CanPost, nFree
<1>3. CASE margin # NoMargin
  <2>1. margin \in Nat
    BY <1>3, EventsAssumption
  <2> QED BY <1>1, <1>3, <2>1 DEF CanPost, nFree
<1> QED BY <1>2, <1>3

\* An event is posted.
LEMMA Posting ==
    ASSUME Types, NEW a \in Prios, NEW x \in Evts, Len(q[a]) < Cap,
           q' = [q EXCEPT ![a] = Append(@, x)]
    PROVE  /\ q' \in [Prios -> Seq(Evts)]
           /\ \A b \in Prios : Len(q'[b]) <= Cap
           /\ \A e : InQ(e)' = InQ(e) + Is(x, e)
           /\ \A b \in Prios : \A y : Queued(b, y) => Queued(b, y)'
<1>1. /\ q \in [Prios -> Seq(Evts)] /\ Cap \in Nat
      /\ \A b \in Prios : q[b] \in Seq(Evts) /\ Len(q[b]) \in Nat /\ Len(q[b]) <= Cap
  BY Constants, LenProperties DEF Types, QueueTypes
<1>2. /\ q'[a] = Append(q[a], x) /\ \A b \in Prios : b # a => q'[b] = q[b]
      /\ DOMAIN q' = Prios /\ q' = [b \in Prios |-> q'[b]]
  BY <1>1
<1>3. /\ q'[a] \in Seq(Evts) /\ Len(q'[a]) = Len(q[a]) + 1
      /\ \A i \in 1 .. Len(q[a]) : q'[a][i] = q[a][i]
  BY <1>1, <1>2, AppendProperties
<1>4. \A b \in Prios : q'[b] \in Seq(Evts) /\ Len(q'[b]) <= Cap
  BY <1>1, <1>2, <1>3
<1>5. q' \in [Prios -> Seq(Evts)]
  BY <1>2, <1>4
<1>6. ASSUME NEW e PROVE InQ(e)' = InQ(e) + Is(x, e)
  <2>1. PICK f, f2 : f = q /\ f2 = q'
    OBVIOUS
  <2>2. Cardinality(Places(f2, Cap, e)) = Cardinality(Places(f, Cap, e)) + Is(x, e)
    <3>1. Appended(f, f2, a, x, Cap)
      BY <1>1, <2>1 DEF Appended
    <3> QED BY <1>1, <2>1, <3>1, PlacesAppend
  <2> QED BY <2>1, <2>2 DEF InQ
<1>7. ASSUME NEW b \in Prios, NEW y, Queued(b, y) PROVE Queued(b, y)'
  <2>1. PICK i \in 1 .. Len(q[b]) : q[b][i] = y
    BY <1>7 DEF Queued
  <2>2. i \in 1 .. Len(q'[b]) /\ q'[b][i] = y
    BY <1>1, <1>2, <1>3, <2>1
  <2> QED BY <2>2 DEF Queued
<1> QED BY <1>4, <1>5, <1>6, <1>7

\* The same for the deferred-event queue.
LEMMA Deferring ==
    ASSUME Types, NEW a \in Prios, NEW x \in Evts, Len(dq[a]) < DeferCap,
           dq' = [dq EXCEPT ![a] = Append(@, x)]
    PROVE  /\ dq' \in [Prios -> Seq(Evts)]
           /\ \A b \in Prios : Len(dq'[b]) <= DeferCap
           /\ \A e : InDq(e)' = InDq(e) + Is(x, e)
<1>1. /\ dq \in [Prios -> Seq(Evts)] /\ DeferCap \in Nat
      /\ \A b \in Prios : /\ dq[b] \in Seq(Evts) /\ Len(dq[b]) \in Nat
                          /\ Len(dq[b]) <= DeferCap
  BY Constants, LenProperties DEF Types, QueueTypes
<1>2. /\ dq'[a] = Append(dq[a], x) /\ \A b \in Prios : b # a => dq'[b] = dq[b]
      /\ dq' = [b \in Prios |-> dq'[b]]
  BY <1>1
<1>3. dq'[a] \in Seq(Evts) /\ Len(dq'[a]) = Len(dq[a]) + 1
  BY <1>1, <1>2, AppendProperties
<1>4. \A b \in Prios : dq'[b] \in Seq(Evts) /\ Len(dq'[b]) <= DeferCap
  BY <1>1, <1>2, <1>3
<1>5. dq' \in [Prios -> Seq(Evts)]
  BY <1>2, <1>4
<1>6. ASSUME NEW e PROVE InDq(e)' = InDq(e) + Is(x, e)
  <2>1. PICK f, f2 : f = dq /\ f2 = dq'
    OBVIOUS
  <2>2. Cardinality(Places(f2, DeferCap, e)) = Cardinality(Places(f, DeferCap, e)) + Is(x, e)
    <3>1. Appended(f, f2, a, x, DeferCap)
      BY <1>1, <2>1 DEF Appended
    <3> QED BY <1>1, <2>1, <3>1, PlacesAppend
  <2> QED BY <2>1, <2>2 DEF InDq
<1> QED BY <1>4, <1>5, <1>6

\* The front of the queue of a is taken.
Taken(f, f2, a, cap) == /\ f \in [Prios -> Seq(Evts)] /\ f[a] # <<>>
                        /\ \A b \in Prios : Len(f[b]) <= cap
                        /\ f2 = [f EXCEPT ![a] = Tail(@)]

\* The front event is taken from a queue; f is q or dq.
LEMMA Taking ==
    ASSUME NEW cap \in Nat, NEW f, NEW f2, NEW a \in Prios, Taken(f, f2, a, cap)
    PROVE  /\ Head(f[a]) \in Evts
           /\ f2 \in [Prios -> Seq(Evts)]
           /\ \A b \in Prios : Len(f2[b]) <= cap
           /\ \A b \in Prios : b # a => f2[b] = f[b]
           /\ \A e : Cardinality(Places(f, cap, e))
                        = Cardinality(Places(f2, cap, e)) + Is(Head(f[a]), e)
<1>0. /\ f \in [Prios -> Seq(Evts)] /\ f[a] # <<>>
      /\ \A b \in Prios : Len(f[b]) <= cap
      /\ f2 = [f EXCEPT ![a] = Tail(@)]
  BY DEF Taken
<1> USE <1>0
<1>1. \A b \in Prios : f[b] \in Seq(Evts) /\ Len(f[b]) \in Nat /\ Len(f[b]) <= cap
  BY LenProperties
<1>2. /\ f2[a] = Tail(f[a]) /\ \A b \in Prios : b # a => f2[b] = f[b]
      /\ f2 = [b \in Prios |-> f2[b]] /\ DOMAIN f2 = Prios
  OBVIOUS
<1>3. /\ Head(f[a]) \in Evts /\ f2[a] \in Seq(Evts)
      /\ Len(f2[a]) = Len(f[a]) - 1 /\ Len(f[a]) >= 1
      /\ f[a][1] = Head(f[a])
      /\ \A i \in 1 .. Len(f2[a]) : f2[a][i] = f[a][i + 1]
  <2>1. f[a] \in Seq(Evts)
    OBVIOUS
  <2>2. Head(f[a]) \in Evts /\ f2[a] \in Seq(Evts) /\ f[a][1] = Head(f[a])
    BY <1>2, <2>1, HeadTailProperties
  <2>3. Len(f2[a]) = Len(f[a]) - 1 /\ Len(f[a]) >= 1
    BY <1>1, <1>2, <2>1, HeadTailProperties, EmptySeq
  <2>4. \A i \in 1 .. Len(f2[a]) : f2[a][i] = f[a][i + 1]
    BY <1>1, <1>2, <2>1, <2>3, HeadTailProperties
  <2> QED BY <2>2, <2>3, <2>4
<1>4. \A b \in Prios : f2[b] \in Seq(Evts) /\ Len(f2[b]) <= cap
  BY <1>1, <1>2, <1>3
<1>5. f2 \in [Prios -> Seq(Evts)]
  BY <1>2, <1>4
<1>6. ASSUME NEW e
      PROVE  Cardinality(Places(f, cap, e))
                = Cardinality(Places(f2, cap, e)) + Is(Head(f[a]), e)
  <2>1. PICK x : x = Head(f[a])
    OBVIOUS
  <2>2. f[a][1] = x
    BY <1>3, <2>1
  <2>3. Cardinality(Places(f, cap, e)) = Cardinality(Places(f2, cap, e)) + Is(x, e)
    <3>1. Shifted(f, f2, a, x, cap)
      BY <1>1, <1>2, <1>3, <2>2 DEF Shifted
    <3> QED BY <3>1, PlacesTail
  <2> QED BY <2>1, <2>3
<1> QED BY <1>2, <1>3, <1>4, <1>5, <1>6

\* An event is put in front of a queue.
LEMMA PostingLIFO ==
    ASSUME Types, NEW a \in Prios, NEW x \in Evts, Len(q[a]) < Cap,
           q' = [q EXCEPT ![a] = <<x>> \o @]
    PROVE  /\ q' \in [Prios -> Seq(Evts)]
           /\ \A b \in Prios : Len(q'[b]) <= Cap
           /\ \A e : InQ(e)' = InQ(e) + Is(x, e)
           /\ \A b \in Prios : \A y : Queued(b, y) => Queued(b, y)'
           /\ Queued(a, x)'
<1>1. /\ q \in [Prios -> Seq(Evts)] /\ Cap \in Nat
      /\ \A b \in Prios : q[b] \in Seq(Evts) /\ Len(q[b]) \in Nat /\ Len(q[b]) <= Cap
  BY Constants, LenProperties DEF Types, QueueTypes
<1>2. /\ q'[a] = <<x>> \o q[a] /\ \A b \in Prios : b # a => q'[b] = q[b]
      /\ DOMAIN q' = Prios /\ q' = [b \in Prios |-> q'[b]]
  BY <1>1
<1>3. /\ q'[a] \in Seq(Evts) /\ Len(q'[a]) = Len(q[a]) + 1 /\ q'[a][1] = x
      /\ \A i \in 1 .. Len(q[a]) : q'[a][i + 1] = q[a][i]
  <2>1. <<x>> \in Seq(Evts) /\ q[a] \in Seq(Evts)
    BY <1>1
  <2>2. q'[a] \in Seq(Evts) /\ Len(q'[a]) = 1 + Len(q[a])
    BY <1>2, <2>1, ConcatProperties
  <2>3. \A i \in 1 .. (1 + Len(q[a])) :
           q'[a][i] = IF i <= 1 THEN <<x>>[i] ELSE q[a][i - 1]
    BY <1>2, <2>1, ConcatProperties
  <2> QED BY <1>1, <2>2, <2>3
<1>4. \A b \in Prios : q'[b] \in Seq(Evts) /\ Len(q'[b]) <= Cap
  BY <1>1, <1>2, <1>3
<1>5. q' \in [Prios -> Seq(Evts)]
  BY <1>2, <1>4
<1>6. ASSUME NEW e PROVE InQ(e)' = InQ(e) + Is(x, e)
  <2>1. PICK f, f2 : f = q' /\ f2 = q
    OBVIOUS
  <2>2. Shifted(f, f2, a, x, Cap)
    BY <1>1, <1>2, <1>3, <2>1 DEF Shifted
  <2>3. Cardinality(Places(f, Cap, e)) = Cardinality(Places(f2, Cap, e)) + Is(x, e)
    BY <1>1, <2>2, PlacesTail
  <2> QED BY <2>1, <2>3 DEF InQ
<1>7. ASSUME NEW b \in Prios, NEW y, Queued(b, y) PROVE Queued(b, y)'
  <2>1. PICK i \in 1 .. Len(q[b]) : q[b][i] = y
    BY <1>7 DEF Queued
  <2>2. CASE b = a
    <3>1. i + 1 \in 1 .. Len(q'[b]) /\ q'[b][i + 1] = y
      BY <1>1, <1>3, <2>1, <2>2
    <3> QED BY <3>1 DEF Queued
  <2>3. CASE b # a
    BY <1>2, <2>1, <2>3 DEF Queued
  <2> QED BY <2>2, <2>3
<1>8. Queued(a, x)'
  <2>1. 1 \in 1 .. Len(q'[a]) /\ q'[a][1] = x
    BY <1>1, <1>3
  <2> QED BY <2>1 DEF Queued
<1> QED BY <1>4, <1>5, <1>6, <1>7, <1>8

\* An active object takes another current event, or another kept reference.
LEMMA CurChanges ==
    ASSUME Types, NEW a \in Prios, NEW v, cur' = [cur EXCEPT ![a] = v]
    PROVE  \A e : InCur(e)' = InCur(e) - Is(cur[a], e) + Is(v, e)
<1>1. PICK f : f = cur
  OBVIOUS
<1>2. DOMAIN f = Prios
  BY <1>1 DEF Types, HandTypes
<1>3. \A e : Cardinality({y \in Prios : [f EXCEPT ![a] = v][y] = e})
               = Cardinality({y \in Prios : f[y] = e}) - Is(f[a], e) + Is(v, e)
  BY <1>2, CountValue, Constants
<1> QED BY <1>1, <1>3 DEF InCur

\* An active object takes or drops a kept reference.
LEMMA RefChanges ==
    ASSUME Types, NEW a \in Prios, NEW v, ref' = [ref EXCEPT ![a] = v]
    PROVE  \A e : InRef(e)' = InRef(e) - Is(ref[a], e) + Is(v, e)
<1>1. PICK f : f = ref
  OBVIOUS
<1>2. DOMAIN f = Prios
  BY <1>1 DEF Types, HandTypes
<1>3. \A e : Cardinality({y \in Prios : [f EXCEPT ![a] = v][y] = e})
               = Cardinality({y \in Prios : f[y] = e}) - Is(f[a], e) + Is(v, e)
  BY <1>2, CountValue, Constants
<1> QED BY <1>1, <1>3 DEF InRef

\* Process p may take another event to work on; it gives away or gets a
\* counted reference.
LEMMA ArgChanges ==
    ASSUME IInv, NEW p \in Procs, OthersKept(p),
           arg[p] = NULL \/ owns[p], arg'[p] = NULL \/ owns'[p],
           pc[p] # "put", pc'[p] # "put"
    PROVE  \A e \in DynEvts :
              /\ Uncounted(e)' = Uncounted(e) /\ Putting(e)' = Putting(e)
              /\ InArg(e)' = InArg(e) - Is(arg[p], e) + Is(arg'[p], e)
<1> SUFFICES ASSUME NEW e \in DynEvts
             PROVE  /\ Uncounted(e)' = Uncounted(e) /\ Putting(e)' = Putting(e)
                    /\ InArg(e)' = InArg(e) - Is(arg[p], e) + Is(arg'[p], e)
  OBVIOUS
<1>1. e # NULL
  BY Constants
<1>2. Uncounted(e)' = Uncounted(e)
  <2>1. \A r \in Procs : (arg'[r] = e /\ ~owns'[r]) <=> (arg[r] = e /\ ~owns[r])
    BY <1>1 DEF OthersKept
  <2> QED BY <2>1 DEF Uncounted
<1>3. Putting(e)' = Putting(e)
  BY DEF OthersKept, Putting
<1>4. InArg(e)' = InArg(e) - Is(arg[p], e) + Is(arg'[p], e)
  <2> DEFINE S == {r \in Procs : arg[r] = e /\ owns[r]}
             T == {r \in Procs : arg'[r] = e /\ owns'[r]}
  <2>1. S \subseteq Procs /\ T \subseteq Procs
    OBVIOUS
  <2>2. \A r \in Procs : r # p => (r \in S <=> r \in T)
    BY DEF OthersKept
  <2>3. (p \in S <=> arg[p] = e) /\ (p \in T <=> arg'[p] = e)
    BY <1>1
  <2>4. InArg(e) = Cardinality(S) /\ InArg(e)' = Cardinality(T)
    BY DEF InArg
  <2> HIDE DEF S, T
  <2>5. Cardinality(T) = Cardinality(S) - Has(S, p) + Has(T, p)
    BY <2>1, <2>2, CardFlip, Constants
  <2>6. Has(S, p) = Is(arg[p], e) /\ Has(T, p) = Is(arg'[p], e)
    BY <2>3 DEF Has, Is
  <2> QED BY <2>4, <2>5, <2>6
<1> QED BY <1>2, <1>3, <1>4

\* What does not change is counted the same.
LEMMA CountsSame ==
    /\ UNCHANGED q => \A e : InQ(e)' = InQ(e)
    /\ UNCHANGED dq => \A e : InDq(e)' = InDq(e)
    /\ UNCHANGED cur => \A e : InCur(e)' = InCur(e)
    /\ UNCHANGED ref => \A e : InRef(e)' = InRef(e)
    /\ UNCHANGED new => \A e : News(e)' = News(e)
    /\ UNCHANGED arg /\ UNCHANGED owns =>
          \A e : InArg(e)' = InArg(e) /\ Uncounted(e)' = Uncounted(e)
    /\ UNCHANGED arg /\ UNCHANGED pc => \A e : Putting(e)' = Putting(e)
<1>1. UNCHANGED q => \A e : InQ(e)' = InQ(e)
  BY DEF InQ
<1>2. UNCHANGED dq => \A e : InDq(e)' = InDq(e)
  BY DEF InDq
<1>3. UNCHANGED cur => \A e : InCur(e)' = InCur(e)
  BY DEF InCur
<1>4. UNCHANGED ref => \A e : InRef(e)' = InRef(e)
  BY DEF InRef
<1>5. UNCHANGED new => \A e : News(e)' = News(e)
  BY DEF News
<1>6. UNCHANGED arg /\ UNCHANGED owns =>
          \A e : InArg(e)' = InArg(e) /\ Uncounted(e)' = Uncounted(e)
  BY DEF InArg, Uncounted
<1>7. UNCHANGED arg /\ UNCHANGED pc => \A e : Putting(e)' = Putting(e)
  BY DEF Putting
<1> QED BY <1>1, <1>2, <1>3, <1>4, <1>5, <1>6, <1>7

\* Process p hands on the event x, which no other process has allocated.
LEMMA HandingOn ==
    ASSUME IInv, NEW p \in Procs, NEW x \in Evts, HandOn(p, x),
           x \in DynEvts => News(x) \subseteq {p}
    PROVE  /\ new' \in [Procs -> DynEvts \cup {NULL}]
           /\ \A r \in Procs : r # p => new'[r] = new[r]
           /\ \A e \in DynEvts : e # x => News(e)' = News(e)
           /\ x \in DynEvts => News(x)' = {}
<1>1. new \in [Procs -> DynEvts \cup {NULL}] /\ NULL \notin Evts
  BY Constants DEF IInv, Types, HandTypes
<1>2. CASE new[p] = x
  <2>1. new' = [new EXCEPT ![p] = NULL]
    BY <1>2 DEF HandOn
  <2>2. \A r \in Procs : r # p => new'[r] = new[r]
    BY <1>1, <2>1
  <2>3. new'[p] = NULL
    BY <1>1, <2>1
  <2>4. \A e \in DynEvts : e # x => News(e)' = News(e)
    BY <1>1, <1>2, <2>2, <2>3, Constants DEF News
  <2>5. x \in DynEvts => News(x)' = {}
    BY <1>1, <2>2, <2>3 DEF News
  <2> QED BY <1>1, <2>1, <2>2, <2>4, <2>5
<1>3. CASE new[p] # x
  <2>1. new' = new
    BY <1>3 DEF HandOn
  <2> QED BY <1>1, <1>3, <2>1 DEF News
<1> QED BY <1>2, <1>3

-----------------------------------------------------------------------------
(***************************************************************************)
(* The pools.  Only newX_, gc and poolInit change them, and what they need *)
(* is about the pools alone.                                               *)
(***************************************************************************)
\* newX_ takes the block x of the first pool that fits.
Takes(n, idx, x) ==
    /\ idx = Min(Fitting(n)) /\ Fitting(n) # {} /\ x \in free \cap PoolSto[idx]
    /\ free' = free \ {x} /\ UNCHANGED QF_pool_
    /\ poolId_' = [poolId_ EXCEPT ![x] = idx] /\ size' = [size EXCEPT ![x] = n]

\* A block leaves its pool.
LEMMA PoolsTake ==
    ASSUME PoolTypes, Pools, NEW n \in EvtSizes, NEW idx, NEW x, Takes(n, idx, x)
    PROVE  PoolTypes' /\ Pools'
<1> USE DEF Takes
<1>1. n \in Nat
  BY EventsAssumption
<1>2. DOMAIN QF_pool_ = 1 .. Len(QF_pool_) /\ Len(QF_pool_) \in Nat
  BY LenProperties DEF PoolTypes
<1>3. idx \in Fitting(n) /\ \A j \in Fitting(n) : idx <= j
  <2>1. Fitting(n) \subseteq Nat
    BY <1>2 DEF Fitting
  <2>2. \E y \in Fitting(n) : \A j \in Fitting(n) : y <= j
    BY <2>1, SmallestExists
  <2> QED BY <2>2 DEF Min
<1>4. idx \in Nat /\ idx \in DOMAIN QF_pool_ /\ n <= QF_pool_[idx]
  BY <1>2, <1>3 DEF Fitting
<1>5. x \in DynEvts /\ x \in Evts
  BY Constants DEF PoolTypes
<1>6. /\ poolId_' \in [Evts -> Nat] /\ poolId_'[x] = idx
      /\ \A e \in Evts : e # x => poolId_'[e] = poolId_[e]
  BY <1>4, <1>5 DEF PoolTypes
<1>7. /\ size' \in [DynEvts -> Nat] /\ size'[x] = n
      /\ \A e \in DynEvts : e # x => size'[e] = size[e]
  BY <1>1, <1>5 DEF PoolTypes
<1>8. PoolTypes'
  BY <1>6, <1>7 DEF PoolTypes
<1>9. \A e \in StaticEvts : poolId_'[e] = 0
  <2>1. x \notin StaticEvts
    BY <1>5, EventsAssumption
  <2> QED BY <1>6, <2>1 DEF Pools, Evts
<1>10. \A e \in free' : \E i \in DOMAIN QF_pool_ : e \in PoolSto[i]
  BY DEF Pools
<1>11. ASSUME NEW e \in DynEvts, Allocated(e)'
       PROVE  /\ e \notin free'
              /\ poolId_'[e] \in DOMAIN QF_pool_ /\ e \in PoolSto[poolId_'[e]]
              /\ size'[e] <= QF_pool_[poolId_'[e]]
              /\ \A j \in Fitting(size'[e]) : poolId_'[e] <= j
  <2>1. CASE e = x
    BY <1>3, <1>4, <1>6, <1>7, <2>1
  <2>2. CASE e # x
    <3>1. Allocated(e) /\ size'[e] = size[e] /\ poolId_'[e] = poolId_[e]
      BY <1>6, <1>7, <1>11, <2>2, Constants DEF Allocated
    <3> QED BY <2>2, <3>1 DEF Pools
  <2> QED BY <2>1, <2>2
<1>12. \A i, j \in DOMAIN QF_pool_ : i < j => QF_pool_[i] < QF_pool_[j]
  BY DEF Pools
<1> QED BY <1>8, <1>9, <1>10, <1>11, <1>12 DEF Pools, Fitting, Allocated

\* put() returns the block x.
LEMMA PoolsPut ==
    ASSUME PoolTypes, Pools, NEW x, Returnable(x), free' = free \cup {x},
           size' = [size EXCEPT ![x] = 0], UNCHANGED <<QF_pool_, poolId_>>
    PROVE  PoolTypes' /\ Pools'
<1>1. PICK i \in DOMAIN QF_pool_ : x \in PoolSto[i]
  BY DEF Returnable
<1>2. x \in DynEvts
  <2>1. i \in DOMAIN PoolSto
    <3>1. /\ DOMAIN QF_pool_ = 1 .. Len(QF_pool_) /\ DOMAIN PoolSto = 1 .. Len(PoolSto)
          /\ Len(QF_pool_) \in Nat /\ Len(PoolSto) \in Nat
      BY LenProperties, EventsAssumption DEF PoolTypes
    <3> QED BY <3>1 DEF PoolTypes
  <2> QED BY <1>1, <2>1 DEF DynEvts
<1>3. /\ size' \in [DynEvts -> Nat] /\ size'[x] = 0
      /\ \A e \in DynEvts : e # x => size'[e] = size[e]
  BY <1>2 DEF PoolTypes
<1>4. PoolTypes'
  BY <1>2, <1>3 DEF PoolTypes
<1>5. \A e \in free' : \E j \in DOMAIN QF_pool_ : e \in PoolSto[j]
  BY <1>1 DEF Pools
<1>6. \A e \in DynEvts : Allocated(e)' => /\ e # x /\ Allocated(e)
                                          /\ size'[e] = size[e]
  BY <1>3 DEF Allocated
<1> QED BY <1>4, <1>5, <1>6 DEF Pools, Fitting

\* poolInit adds a pool, whose blocks belong to no other.
LEMMA PoolsInit ==
    ASSUME PoolTypes, Pools, NEW n \in EvtSizes,
           Len(QF_pool_) < Len(PoolSto), Ascending(n),
           QF_pool_' = Append(QF_pool_, n),
           free' = free \cup PoolSto[Len(QF_pool_) + 1],
           UNCHANGED <<poolId_, size>>
    PROVE  PoolTypes' /\ Pools'
<1> DEFINE k == Len(QF_pool_) + 1
<1>1. /\ n \in Nat /\ QF_pool_ \in Seq(Nat) /\ Len(QF_pool_) \in Nat
      /\ DOMAIN QF_pool_ = 1 .. Len(QF_pool_)
  BY EventsAssumption, LenProperties DEF PoolTypes
<1>2. /\ DOMAIN PoolSto = 1 .. Len(PoolSto) /\ Len(PoolSto) \in Nat
      /\ Len(QF_pool_) <= Len(PoolSto)
  BY <1>1, EventsAssumption, LenProperties DEF PoolTypes
<1>3. k \in DOMAIN PoolSto /\ k \in Nat
  BY <1>1, <1>2
<1>4. /\ QF_pool_' \in Seq(Nat) /\ Len(QF_pool_') = k
      /\ DOMAIN QF_pool_' = 1 .. k /\ QF_pool_'[k] = n
      /\ \A i \in 1 .. Len(QF_pool_) : QF_pool_'[i] = QF_pool_[i]
  BY <1>1, AppendProperties, LenProperties
<1>5. /\ DOMAIN QF_pool_ \subseteq DOMAIN QF_pool_' /\ k \in DOMAIN QF_pool_'
      /\ \A i \in DOMAIN QF_pool_' : i # k => i \in DOMAIN QF_pool_ /\ i < k
  BY <1>1, <1>4
<1>6. PoolTypes'
  <2>1. PoolSto[k] \subseteq DynEvts
    BY <1>3 DEF DynEvts
  <2> QED BY <1>1, <1>2, <1>4, <2>1 DEF PoolTypes
<1>7. \A i, j \in DOMAIN QF_pool_' : i < j => QF_pool_'[i] < QF_pool_'[j]
  <2> SUFFICES ASSUME NEW i \in DOMAIN QF_pool_', NEW j \in DOMAIN QF_pool_', i < j
               PROVE  QF_pool_'[i] < QF_pool_'[j]
    OBVIOUS
  <2>1. i \in DOMAIN QF_pool_
    BY <1>1, <1>4
  <2>2. CASE j # k
    BY <1>1, <1>4, <1>5, <2>1, <2>2 DEF Pools
  <2>3. CASE j = k
    <3> DEFINE m == Len(QF_pool_)
    <3>1. QF_pool_[m] < n /\ m \in DOMAIN QF_pool_
      <4>1. QF_pool_ # << >>
        BY <1>1, <2>1
      <4> QED BY <1>1, <2>1, <4>1 DEF Ascending
    <3>2. QF_pool_[i] \in Nat /\ QF_pool_[m] \in Nat
      BY <1>1, <2>1, <3>1, ElementOfSeq
    <3>3. i = m \/ i < m
      BY <1>1, <2>1
    <3>4. i = m \/ QF_pool_[i] < QF_pool_[m]
      BY <2>1, <3>1, <3>3 DEF Pools
    <3> QED BY <1>1, <1>4, <2>1, <2>3, <3>1, <3>2, <3>4
  <2> QED BY <2>2, <2>3
<1>8. \A e \in free' : \E i \in DOMAIN QF_pool_' : e \in PoolSto[i]
  BY <1>5 DEF Pools
<1>9. ASSUME NEW e \in DynEvts, Allocated(e)
      PROVE  /\ e \notin free'
             /\ poolId_[e] \in DOMAIN QF_pool_' /\ e \in PoolSto[poolId_[e]]
             /\ size[e] <= QF_pool_'[poolId_[e]]
             /\ \A j \in DOMAIN QF_pool_' : size[e] <= QF_pool_'[j] => poolId_[e] <= j
  <2>1. PICK i : i = poolId_[e]
    OBVIOUS
  <2>2. /\ e \notin free /\ i \in DOMAIN QF_pool_ /\ e \in PoolSto[i]
        /\ size[e] <= QF_pool_[i]
        /\ \A j \in DOMAIN QF_pool_ : size[e] <= QF_pool_[j] => i <= j
    BY <1>9, <2>1 DEF Pools, Fitting
  <2>3. e \notin PoolSto[k]
    <3>1. i \in DOMAIN PoolSto /\ i # k
      BY <1>1, <1>2, <2>2
    <3> QED BY <1>3, <2>2, <3>1, EventsAssumption
  <2>4. \A j \in DOMAIN QF_pool_' : size[e] <= QF_pool_'[j] => i <= j
    <3> SUFFICES ASSUME NEW j \in DOMAIN QF_pool_', size[e] <= QF_pool_'[j]
                 PROVE  i <= j
      OBVIOUS
    <3>1. CASE j = k
      BY <1>1, <2>2, <3>1
    <3>2. CASE j # k
      BY <1>1, <1>4, <1>5, <2>2, <3>2
    <3> QED BY <3>1, <3>2
  <2>5. QF_pool_'[i] = QF_pool_[i] /\ i \in DOMAIN QF_pool_'
    BY <1>1, <1>4, <1>5, <2>2
  <2> QED BY <2>1, <2>2, <2>3, <2>4, <2>5
<1>10. Pools'
  <2>1. \A e \in StaticEvts : poolId_'[e] = 0
    BY DEF Pools
  <2>2. \A e \in DynEvts : Allocated(e)' => Allocated(e)
    BY DEF Allocated
  <2>3. poolId_' = poolId_ /\ size' = size
    OBVIOUS
  <2> HIDE DEF k
  <2> QED BY <1>7, <1>8, <1>9, <2>1, <2>2, <2>3 DEF Pools, Fitting
<1> QED BY <1>6, <1>10

\* Whatever the application does, the pools keep their invariant.
LEMMA PoolsStep ==
    ASSUME PoolTypes, Pools, [Next]_vars
    PROVE  PoolTypes' /\ Pools'
<1>1. CASE UNCHANGED <<QF_pool_, free, poolId_, size>>
  BY <1>1 DEF PoolTypes, Pools, Allocated, Fitting
<1>2. ASSUME NEW n \in EvtSizes, poolInit(n) PROVE PoolTypes' /\ Pools'
  BY <1>1, <1>2, PoolsInit DEF poolInit
<1>3. ASSUME NEW p \in Procs, NEW n \in EvtSizes, NEW margin, newX_(p, n, margin)
      PROVE  PoolTypes' /\ Pools'
  <2>1. PICK idx : idx = Min(Fitting(n))
    OBVIOUS
  <2>2. \/ \E x : Takes(n, idx, x)
        \/ UNCHANGED <<QF_pool_, free, poolId_, size>>
    BY <1>3, <2>1, Zenon DEF newX_, Takes
  <2> QED BY <1>1, <2>2, PoolsTake
<1>4. ASSUME NEW p \in Procs, gcPut(p) PROVE PoolTypes' /\ Pools'
  BY <1>1, <1>4, PoolsPut DEF gcPut
<1>5. CASE UNCHANGED vars
  BY <1>1, <1>5 DEF vars
<1>6. CASE run
  BY <1>1, <1>6 DEF run, pools
<1>7. ASSUME NEW p \in Procs, NEW e \in Evts, Send(p, e) PROVE PoolTypes' /\ Pools'
  BY <1>1, <1>7 DEF Send, publish_, post_, postFails, pools
<1>8. ASSUME NEW p \in Procs, multicast(p) \/ gc(p) PROVE PoolTypes' /\ Pools'
  BY <1>1, <1>8 DEF multicast, gc, pools
<1>9. ASSUME NEW a \in Prios, \/ subscribe(a) \/ unsubscribe(a) \/ get_(a)
                              \/ rtcEnd(a) \/ defer(a) \/ recall(a)
      PROVE  PoolTypes' /\ Pools'
  BY <1>1, <1>9 DEF subscribe, unsubscribe, get_, rtcEnd, defer, recall, pools
<1>10. ASSUME NEW a \in Prios, \/ recallPost(a) \/ recallDec(a) \/ flushDeferred(a)
                               \/ newRef_(a) \/ deleteRef_(a)
       PROVE  PoolTypes' /\ Pools'
  BY <1>1, <1>10 DEF recallPost, recallDec, flushDeferred, newRef_, deleteRef_, pools
<1> QED BY <1>2, <1>3, <1>4, <1>5, <1>6, <1>7, <1>8, <1>9, <1>10 DEF Next, Produce

-----------------------------------------------------------------------------
(***************************************************************************)
(* Every action preserves the invariant.                                   *)
(***************************************************************************)
\* An assertion fails, or nothing happens.
LEMMA OnlyAsserts ==
    ASSUME IInv, NoCountingAssertion',
           UNCHANGED <<pools, free, refCtr_, q, dq, subscr, pc, cur, new, ref,
                       arg, owns, todo, ret>>
    PROVE  IInv'
<1>1. Types'
  BY DEF IInv, Types, PoolTypes, CtrTypes, QueueTypes, ProcTypes, HandTypes, pools
<1>2. \A p \in Procs : Local(p)'
  BY DEF IInv, Local, InRtc
<1>3. Recalled' /\ Started'
  BY DEF IInv, Recalled, Started, Queued
<1>4. Pools'
  BY PoolsKept
<1>5. ASSUME NEW e \in DynEvts PROVE Life(e)'
  <2>1. Refs(e)' = Refs(e)
    BY DEF Refs
  <2>2. /\ News(e)' = News(e) /\ Uncounted(e)' = Uncounted(e)
        /\ Putting(e)' = Putting(e)
    BY CountsSame
  <2>3. size' = size
    BY DEF pools
  <2> QED BY <2>1, <2>2, <2>3, LifeSame DEF IInv
<1> QED BY <1>1, <1>2, <1>3, <1>4, <1>5 DEF IInv

\* main() gives control to the kernel.
LEMMA RunStep ==
    ASSUME IInv, run
    PROVE  IInv'
<1> USE DEF run, InMain
<1>1. \A p \in Procs : pc[p] = "main" /\ pc'[p] = IF p \in Isrs THEN "isr" ELSE "get"
  OBVIOUS
<1>2. Types'
  <2>1. pc' \in [Procs -> PrioPcs \cup IsrPcs]
    BY DEF PrioPcs, IsrPcs
  <2> QED BY <2>1 DEF IInv, Types, PoolTypes, CtrTypes, QueueTypes, ProcTypes,
                      HandTypes, pools
<1>3. ASSUME NEW p \in Procs PROVE Local(p)'
  <2>1. arg[p] = NULL /\ ~owns[p] /\ (p \in Prios => cur[p] = NULL)
    BY <1>1 DEF IInv, Local, InRtc
  <2>2. p \in Prios => ret[p] # "isr"
    BY DEF IInv, Local
  <2>3. p \in Isrs => p \notin Prios /\ ret[p] = "isr"
    BY EventsAssumption DEF IInv, Local
  <2> QED BY <1>1, <2>1, <2>2, <2>3 DEF Local, InRtc, PrioPcs, IsrPcs
<1>4. Recalled' /\ Started'
  BY <1>1, Constants DEF Recalled, Started
<1>5. Pools'
  BY <1>1, PoolsKept
<1>6. ASSUME NEW e \in DynEvts PROVE Life(e)'
  <2>1. Refs(e)' = Refs(e)
    BY DEF Refs
  <2>2. News(e)' = News(e) /\ Uncounted(e)' = Uncounted(e)
    BY CountsSame
  <2>3. Putting(e)' = Putting(e)
    BY <1>1 DEF Putting
  <2>4. size' = size
    BY DEF pools
  <2> QED BY <2>1, <2>2, <2>3, <2>4, LifeSame DEF IInv
<1> QED BY <1>2, <1>3, <1>4, <1>5, <1>6 DEF IInv, NoCountingAssertion

\* post_ counts the reference that it puts into the queue.
LEMMA PostStep ==
    ASSUME IInv, NEW p \in Procs, NEW a \in Prios, NEW x \in Evts,
           NEW margin \in Margins \cup {NoMargin}, post_(p, a, x, margin)
    PROVE  IInv'
<1>1. /\ AtHome(p) /\ x \in AtHand(p) /\ CanPost(a, margin) /\ AddRef(x)
      /\ q' = [q EXCEPT ![a] = Append(@, x)] /\ HandOn(p, x)
      /\ UNCHANGED <<pools, free, dq, subscr, pc, cur, ref, arg, owns, todo,
                     ret, asrt>>
  BY DEF post_
<1>2. /\ x \in DynEvts => Good(x) /\ News(x) \subseteq {p}
      /\ x \notin DynEvts => poolId_[x] = 0
  BY <1>1, Hand
<1>3. Types
  BY DEF IInv
<1>4. CtrTypes' /\ \A e \in DynEvts : refCtr_'[e] = refCtr_[e] + Is(x, e)
  BY <1>1, <1>2, <1>3, Counting DEF Good
<1>5. Len(q[a]) < Cap
  BY <1>1, <1>3, RoomToPost
<1>6. /\ q' \in [Prios -> Seq(Evts)] /\ \A b \in Prios : Len(q'[b]) <= Cap
      /\ \A e : InQ(e)' = InQ(e) + Is(x, e)
      /\ \A b \in Prios : \A y : Queued(b, y) => Queued(b, y)'
  BY <1>1, <1>3, <1>5, Posting
<1>7. /\ new' \in [Procs -> DynEvts \cup {NULL}]
      /\ \A r \in Procs : r # p => new'[r] = new[r]
      /\ \A e \in DynEvts : e # x => News(e)' = News(e)
      /\ x \in DynEvts => News(x)' = {}
  BY <1>1, <1>2, HandingOn
<1>8. Types'
  BY <1>1, <1>3, <1>4, <1>6, <1>7
     DEF Types, PoolTypes, QueueTypes, ProcTypes, HandTypes, pools
<1>9. OthersKept(p)
  BY <1>1, <1>7 DEF OthersKept
<1>10. Local(p)' /\ pc[p] # "main" /\ pc'[p] # "main"
  BY <1>1, HomeArg, LocalKept DEF IInv
<1>11. Recalled'
  <2>1. p \in Prios => pc'[p] # "recallDec"
    BY <1>1, HomeArg
  <2> QED BY <1>6, <1>9, <2>1, RecalledKept
<1>12. \A e \in DynEvts : Life(e)'
  <2>1. \A e \in DynEvts :
           /\ Refs(e)' = Refs(e) + Is(x, e)
           /\ Uncounted(e)' = Uncounted(e) /\ Putting(e)' = Putting(e)
    <3> TAKE e \in DynEvts
    <3>1. /\ InDq(e)' = InDq(e) /\ InCur(e)' = InCur(e) /\ InRef(e)' = InRef(e)
          /\ InArg(e)' = InArg(e) /\ Uncounted(e)' = Uncounted(e)
          /\ Putting(e)' = Putting(e)
      BY <1>1, CountsSame
    <3>2. InQ(e)' = InQ(e) + Is(x, e) /\ Is(x, e) \in Nat
      BY <1>6 DEF Is
    <3> QED BY <3>1, <3>2, RefsType, RefsTypeNext
  <2>2. size' = size
    BY <1>1 DEF pools
  <2> QED BY <1>2, <1>4, <1>7, <2>1, <2>2, LifeUp
<1>13. NoCountingAssertion' /\ UNCHANGED <<pools, free>>
  BY <1>1 DEF IInv, NoCountingAssertion
<1> QED BY <1>8, <1>9, <1>10, <1>11, <1>12, <1>13, Frame

\* publish_ counts a reference of its own, and goes on to the subscribers.
LEMMA PublishStep ==
    ASSUME IInv, NEW p \in Procs, NEW x \in Evts, publish_(p, x)
    PROVE  IInv'
<1>1. /\ AtHome(p) /\ x \in AtHand(p) /\ AddRef(x)
      /\ todo' = [todo EXCEPT ![p] = subscr] /\ HandOn(p, x)
      /\ arg' = [arg EXCEPT ![p] = x] /\ owns' = [owns EXCEPT ![p] = TRUE]
      /\ UNCHANGED <<pools, free, q, dq, subscr, cur, ref, asrt>>
  BY DEF publish_, CallGc
<1>2. \/ /\ subscr = {} /\ pc' = [pc EXCEPT ![p] = "gc"]
         /\ ret' = [ret EXCEPT ![p] = Home(p)]
      \/ /\ subscr # {} /\ pc' = [pc EXCEPT ![p] = "multicast"]
         /\ UNCHANGED ret
  BY DEF publish_, CallGc
<1>3. /\ x \in DynEvts => Good(x) /\ News(x) \subseteq {p}
      /\ x \notin DynEvts => poolId_[x] = 0
  BY <1>1, Hand
<1>4. Types
  BY DEF IInv
<1>5. CtrTypes' /\ \A e \in DynEvts : refCtr_'[e] = refCtr_[e] + Is(x, e)
  BY <1>1, <1>3, <1>4, Counting DEF Good
<1>6. /\ new' \in [Procs -> DynEvts \cup {NULL}]
      /\ \A r \in Procs : r # p => new'[r] = new[r]
      /\ \A e \in DynEvts : e # x => News(e)' = News(e)
      /\ x \in DynEvts => News(x)' = {}
  BY <1>1, <1>3, HandingOn
<1>7. /\ arg[p] = NULL /\ ~owns[p] /\ pc[p] # "main" /\ pc[p] # "put"
      /\ p \in Prios => pc[p] = "rtc" /\ cur[p] \in Evts
      /\ p \notin Prios => pc[p] = "isr" /\ p \in Isrs
  BY <1>1, HomeArg
<1>8. Home(p) \in {"rtc", "isr"} /\ (p \in Prios => Home(p) = "rtc")
      /\ (p \in Isrs => Home(p) = "isr")
  BY EventsAssumption DEF Home
<1>9. Types'
  <2>1. pc' \in [Procs -> PrioPcs \cup IsrPcs]
    BY <1>2, <1>4 DEF Types, ProcTypes, PrioPcs, IsrPcs
  <2>2. ret' \in [Procs -> {"get", "rtc", "flush", "isr"}]
    BY <1>2, <1>4, <1>8 DEF Types, ProcTypes
  <2>3. arg' \in [Procs -> Evts \cup {NULL}] /\ owns' \in [Procs -> BOOLEAN]
    BY <1>1, <1>4 DEF Types, ProcTypes
  <2>4. todo' \in [Procs -> SUBSET Prios] /\ subscr' \subseteq Prios
    BY <1>1, <1>4 DEF Types, ProcTypes
  <2>5. ProcTypes'
    BY <2>1, <2>2, <2>3, <2>4 DEF ProcTypes
  <2> QED BY <1>1, <1>4, <1>5, <1>6, <2>5
          DEF Types, PoolTypes, QueueTypes, HandTypes, pools
<1>10. /\ arg'[p] = x /\ owns'[p] /\ todo'[p] = subscr
       /\ \/ pc'[p] = "gc" /\ ret'[p] = Home(p)
          \/ pc'[p] = "multicast" /\ subscr # {}
  BY <1>1, <1>2, <1>4 DEF Types, ProcTypes
<1>11. OthersKept(p)
  BY <1>1, <1>2, <1>4, <1>6 DEF OthersKept, Types, ProcTypes
<1>12. Local(p)'
  <2>1. x # NULL
    BY Constants
  <2>2. p \in Prios => /\ cur'[p] # NULL /\ pc'[p] \in PrioPcs /\ ret'[p] # "isr"
                       /\ InRtc(p)'
    <3>1. p \in Prios => cur'[p] # NULL
      BY <1>1, <1>7, Constants
    <3>2. p \in Prios => ret[p] # "isr"
      BY DEF IInv, Local
    <3> QED BY <1>2, <1>8, <1>10, <3>1, <3>2 DEF PrioPcs, InRtc
  <2>3. p \in Isrs => pc'[p] \in IsrPcs /\ ret'[p] = "isr"
    <3>1. p \in Isrs => ret[p] = "isr"
      BY DEF IInv, Local
    <3> QED BY <1>2, <1>8, <1>10, <3>1 DEF IsrPcs
  <2> QED BY <1>10, <2>1, <2>2, <2>3 DEF Local
<1>13. Recalled'
  BY <1>1, <1>10, <1>11, QueuedSame, RecalledKept
<1>14. \A e \in DynEvts : Life(e)'
  <2>1. \A e \in DynEvts :
           /\ Refs(e)' = Refs(e) + Is(x, e)
           /\ Uncounted(e)' = Uncounted(e) /\ Putting(e)' = Putting(e)
    <3> TAKE e \in DynEvts
    <3>1. /\ InQ(e)' = InQ(e) /\ InDq(e)' = InDq(e) /\ InCur(e)' = InCur(e)
          /\ InRef(e)' = InRef(e)
      BY <1>1, CountsSame
    <3>2. /\ Uncounted(e)' = Uncounted(e) /\ Putting(e)' = Putting(e)
          /\ InArg(e)' = InArg(e) - Is(arg[p], e) + Is(arg'[p], e)
      BY <1>7, <1>10, <1>11, ArgChanges
    <3>3. Is(arg[p], e) = 0 /\ Is(arg'[p], e) = Is(x, e) /\ Is(x, e) \in Nat
      BY <1>7, <1>10, Constants DEF Is
    <3> QED BY <3>1, <3>2, <3>3, RefsType, RefsTypeNext
  <2>2. size' = size
    BY <1>1 DEF pools
  <2> QED BY <1>3, <1>5, <1>6, <2>1, <2>2, LifeUp
<1>15. NoCountingAssertion' /\ UNCHANGED <<pools, free>>
  BY <1>1 DEF IInv, NoCountingAssertion
<1>16. pc'[p] # "main"
  BY <1>10
<1> QED BY <1>7, <1>9, <1>11, <1>12, <1>13, <1>14, <1>15, <1>16, Frame

\* subscribe and unsubscribe touch no event.
LEMMA SubscribeStep ==
    ASSUME IInv, NEW a \in Prios, subscribe(a) \/ unsubscribe(a)
    PROVE  IInv'
<1>1. /\ AtHome(a) /\ subscr' \subseteq subscr \cup {a}
      /\ UNCHANGED <<pools, free, refCtr_, q, dq, pc, cur, new, ref, arg, owns,
                     todo, ret, asrt>>
  BY DEF subscribe, unsubscribe
<1>2. a \in Procs /\ pc[a] # "main" /\ pc[a] = "rtc"
  BY <1>1, HomeArg, Constants
<1>3. Types'
  <2>1. subscr' \subseteq Prios
    BY <1>1 DEF IInv, Types, ProcTypes
  <2> QED BY <1>1, <2>1 DEF IInv, Types, PoolTypes, CtrTypes, QueueTypes,
                            ProcTypes, HandTypes, pools
<1>4. OthersKept(a)
  BY <1>1 DEF OthersKept
<1>5. Local(a)'
  BY <1>1, <1>2, LocalKept DEF IInv
<1>6. Recalled'
  BY <1>1, <1>2, <1>4, QueuedSame, RecalledKept
<1>7. \A e \in DynEvts : Life(e)'
  <2>1. \A e \in DynEvts : /\ Refs(e)' = Refs(e) /\ Uncounted(e)' = Uncounted(e)
                           /\ Putting(e)' = Putting(e)
    BY <1>1, CountsSame DEF Refs
  <2>2. UNCHANGED <<size, refCtr_, new>>
    BY <1>1 DEF pools
  <2> QED BY <2>1, <2>2, LifeMoved
<1>8. NoCountingAssertion'
  BY <1>1 DEF IInv, NoCountingAssertion
<1> QED BY <1>1, <1>2, <1>3, <1>4, <1>5, <1>6, <1>7, <1>8, Frame

\* A process enters gc() with a counted reference.
LEMMA Collecting ==
    ASSUME Types, NEW p \in Procs, NEW x \in Evts,
           NEW retTo \in {"get", "rtc", "flush", "isr"},
           CallGc(p, x, TRUE, retTo)
    PROVE  /\ pc' \in [Procs -> PrioPcs \cup IsrPcs]
           /\ ret' \in [Procs -> {"get", "rtc", "flush", "isr"}]
           /\ arg' \in [Procs -> Evts \cup {NULL}]
           /\ owns' \in [Procs -> BOOLEAN]
           /\ pc'[p] = "gc" /\ arg'[p] = x /\ owns'[p] /\ ret'[p] = retTo
           /\ \A r \in Procs : r # p => /\ pc'[r] = pc[r] /\ arg'[r] = arg[r]
                                        /\ owns'[r] = owns[r] /\ ret'[r] = ret[r]
<1>1. /\ pc \in [Procs -> PrioPcs \cup IsrPcs]
      /\ ret \in [Procs -> {"get", "rtc", "flush", "isr"}]
      /\ arg \in [Procs -> Evts \cup {NULL}]
      /\ owns \in [Procs -> BOOLEAN]
  BY DEF Types, ProcTypes
<1>2. /\ pc' = [pc EXCEPT ![p] = "gc"] /\ arg' = [arg EXCEPT ![p] = x]
      /\ owns' = [owns EXCEPT ![p] = TRUE] /\ ret' = [ret EXCEPT ![p] = retTo]
  BY DEF CallGc
<1>3. pc' \in [Procs -> PrioPcs \cup IsrPcs]
  BY <1>1, <1>2 DEF PrioPcs
<1>4. /\ ret' \in [Procs -> {"get", "rtc", "flush", "isr"}]
      /\ arg' \in [Procs -> Evts \cup {NULL}]
      /\ owns' \in [Procs -> BOOLEAN]
  BY <1>1, <1>2
<1>5. /\ pc'[p] = "gc" /\ arg'[p] = x /\ owns'[p] /\ ret'[p] = retTo
      /\ \A r \in Procs : r # p => /\ pc'[r] = pc[r] /\ arg'[r] = arg[r]
                                   /\ owns'[r] = owns[r] /\ ret'[r] = ret[r]
  BY <1>1, <1>2
<1> QED BY <1>3, <1>4, <1>5

\* What a process that enters gc() has in its hands.
LEMMA LocalCollecting ==
    ASSUME NEW p \in Procs, pc'[p] = "gc", arg'[p] \in Evts,
           p \in Prios => ret'[p] # "isr" /\ (cur'[p] # NULL <=> ret'[p] # "get"),
           p \in Isrs => ret'[p] = "isr"
    PROVE  Local(p)'
<1>1. arg'[p] # NULL
  BY Constants
<1>2. "gc" \in PrioPcs /\ "gc" \in IsrPcs
  BY DEF PrioPcs, IsrPcs
<1>3. p \in Prios => (cur'[p] # NULL <=> InRtc(p)')
  BY DEF InRtc
<1> QED BY <1>1, <1>2, <1>3 DEF Local

\* Where application code runs.
LEMMA HomeIs ==
    ASSUME NEW p \in Procs
    PROVE  /\ p \in Prios => Home(p) = "rtc" /\ p \notin Isrs
           /\ p \in Isrs => Home(p) = "isr" /\ p \notin Prios
           /\ p \in Prios \/ p \in Isrs
BY EventsAssumption DEF Home, Procs

\* multicast posts to one subscriber.
LEMMA MulticastStep ==
    ASSUME IInv, NEW p \in Procs, multicast(p)
    PROVE  IInv'
<1>1. PICK a, x : a = Max(todo[p]) /\ x = arg[p]
  OBVIOUS
<1>2. Types /\ pc[p] = "multicast" /\ asrt = "none"
  BY DEF IInv, multicast
<1>3. a \in Prios /\ a \in todo[p]
  <2>1. todo[p] \subseteq Prios /\ todo[p] # {}
    BY <1>2 DEF IInv, Types, ProcTypes, Local
  <2>2. IsFiniteSet(todo[p]) /\ todo[p] \subseteq Nat
    BY <2>1, FS_Subset, EventsAssumption
  <2> QED BY <1>1, <2>1, <2>2, MaxOfFinite
<1>4. x \in Evts /\ owns[p]
  BY <1>1, <1>2 DEF IInv, Local, Types, ProcTypes
<1>5. x \in DynEvts => Good(x) /\ News(x) = {} /\ poolId_[x] # 0
  BY <1>1, <1>4, HoldsArg, Referenced DEF Good
<1>6. CASE ~CanPost(a, NoMargin)
  <2>1. /\ asrt' = "post_:110"
        /\ UNCHANGED <<refCtr_, q, todo, pc, arg, owns, ret>>
        /\ UNCHANGED <<pools, free, dq, subscr, cur, new, ref>>
    BY <1>1, <1>6 DEF multicast
  <2>2. NoCountingAssertion'
    BY <2>1 DEF NoCountingAssertion
  <2> QED BY <2>1, <2>2, OnlyAsserts
<1>7. CASE CanPost(a, NoMargin)
  <2>1. /\ AddRef(x) /\ q' = [q EXCEPT ![a] = Append(@, x)]
        /\ todo' = [todo EXCEPT ![p] = @ \ {a}] /\ asrt' = asrt
        /\ UNCHANGED <<pools, free, dq, subscr, cur, new, ref>>
    BY <1>1, <1>7 DEF multicast
  <2>2. \/ todo[p] = {a} /\ CallGc(p, x, TRUE, Home(p))
        \/ todo[p] # {a} /\ UNCHANGED <<pc, arg, owns, ret>>
    BY <1>1, <1>7 DEF multicast
  <2>3. CtrTypes' /\ \A e \in DynEvts : refCtr_'[e] = refCtr_[e] + Is(x, e)
    BY <1>2, <1>4, <1>5, <2>1, Counting
  <2>4. Len(q[a]) < Cap
    BY <1>2, <1>3, <1>7, RoomToPost
  <2>5. /\ q' \in [Prios -> Seq(Evts)] /\ \A b \in Prios : Len(q'[b]) <= Cap
        /\ \A e : InQ(e)' = InQ(e) + Is(x, e)
        /\ \A b \in Prios : \A y : Queued(b, y) => Queued(b, y)'
    BY <1>2, <1>3, <1>4, <2>1, <2>4, Posting
  <2>6. /\ pc' \in [Procs -> PrioPcs \cup IsrPcs]
        /\ ret' \in [Procs -> {"get", "rtc", "flush", "isr"}]
        /\ arg' \in [Procs -> Evts \cup {NULL}]
        /\ owns' \in [Procs -> BOOLEAN]
        /\ \A r \in Procs : r # p => /\ pc'[r] = pc[r] /\ arg'[r] = arg[r]
                                     /\ owns'[r] = owns[r] /\ ret'[r] = ret[r]
        /\ arg'[p] = x /\ owns'[p]
        /\ \/ pc'[p] = "gc" /\ ret'[p] = Home(p)
           \/ todo[p] # {a} /\ pc'[p] = "multicast" /\ ret'[p] = ret[p]
    <3>1. CASE todo[p] = {a} /\ CallGc(p, x, TRUE, Home(p))
      <4>1. Home(p) \in {"get", "rtc", "flush", "isr"}
        BY HomeIs
      <4> QED BY <1>2, <1>4, <3>1, <4>1, Collecting
    <3>2. CASE todo[p] # {a} /\ UNCHANGED <<pc, arg, owns, ret>>
      BY <1>1, <1>2, <1>4, <3>2 DEF Types, ProcTypes
    <3> QED BY <2>2, <3>1, <3>2
  <2>7. /\ todo' \in [Procs -> SUBSET Prios] /\ todo'[p] = todo[p] \ {a}
        /\ \A r \in Procs : r # p => todo'[r] = todo[r]
    BY <1>2, <2>1 DEF Types, ProcTypes
  <2>8. Types'
    BY <1>2, <2>1, <2>3, <2>5, <2>6, <2>7
       DEF Types, PoolTypes, QueueTypes, ProcTypes, HandTypes, pools
  <2>9. OthersKept(p)
    BY <2>1, <2>6, <2>7 DEF OthersKept
  <2>10. Local(p)'
    <3>1. /\ p \in Prios => cur[p] # NULL /\ ret[p] # "isr" /\ cur'[p] # NULL
          /\ p \in Isrs => ret[p] = "isr"
      BY <1>2, <2>1 DEF IInv, Local, InRtc
    <3>2. CASE pc'[p] = "gc" /\ ret'[p] = Home(p)
      BY <1>4, <2>6, <3>1, <3>2, HomeIs, LocalCollecting
    <3>3. CASE todo[p] # {a} /\ pc'[p] = "multicast" /\ ret'[p] = ret[p]
      <4>1. todo'[p] # {}
        BY <1>3, <2>7, <3>3
      <4>2. x # NULL /\ "multicast" \in PrioPcs /\ "multicast" \in IsrPcs
        BY <1>4, Constants DEF PrioPcs, IsrPcs
      <4> QED BY <2>6, <3>1, <3>3, <4>1, <4>2 DEF Local, InRtc
    <3> QED BY <2>6, <3>2, <3>3
  <2>11. Recalled'
    BY <2>5, <2>6, <2>9, RecalledKept
  <2>12. \A e \in DynEvts : Life(e)'
    <3>1. \A e \in DynEvts :
             /\ Refs(e)' = Refs(e) + Is(x, e) /\ News(e)' = News(e)
             /\ Uncounted(e)' = Uncounted(e) /\ Putting(e)' = Putting(e)
      <4> TAKE e \in DynEvts
      <4>1. /\ InDq(e)' = InDq(e) /\ InCur(e)' = InCur(e) /\ InRef(e)' = InRef(e)
            /\ News(e)' = News(e)
        BY <2>1, CountsSame
      <4>2. /\ Uncounted(e)' = Uncounted(e) /\ Putting(e)' = Putting(e)
            /\ InArg(e)' = InArg(e) - Is(arg[p], e) + Is(arg'[p], e)
        BY <1>2, <1>4, <2>6, <2>9, ArgChanges
      <4>3. Is(arg[p], e) = Is(arg'[p], e) /\ Is(arg[p], e) \in Nat
        BY <1>1, <2>6 DEF Is
      <4>4. InQ(e)' = InQ(e) + Is(x, e) /\ Is(x, e) \in Nat
        BY <2>5 DEF Is
      <4> QED BY <4>1, <4>2, <4>3, <4>4, RefsType, RefsTypeNext
    <3>2. size' = size
      BY <2>1 DEF pools
    <3>3. x \in DynEvts => News(x)' = {}
      BY <1>5, <3>1
    <3> QED BY <1>5, <2>3, <3>1, <3>2, <3>3, LifeUp
  <2>13. NoCountingAssertion' /\ UNCHANGED <<pools, free>>
    BY <2>1 DEF IInv, NoCountingAssertion
  <2>14. pc[p] # "main" /\ pc'[p] # "main"
    BY <1>2, <2>6
  <2> QED BY <2>8, <2>9, <2>10, <2>11, <2>12, <2>13, <2>14, Frame
<1> QED BY <1>6, <1>7

\* get_ moves an event from the queue to the RTC step.
LEMMA GetStep ==
    ASSUME IInv, NEW a \in Prios, get_(a)
    PROVE  IInv'
<1>1. /\ asrt = "none" /\ pc[a] = "get" /\ q[a] # <<>>
      /\ cur' = [cur EXCEPT ![a] = Head(q[a])]
      /\ q' = [q EXCEPT ![a] = Tail(@)]
      /\ pc' = [pc EXCEPT ![a] = "rtc"]
      /\ UNCHANGED <<pools, free, refCtr_, dq, subscr, new, ref, arg, owns,
                     todo, ret, asrt>>
  BY DEF get_
<1>2. Types /\ a \in Procs
  BY Constants DEF IInv
<1>3. PICK x : x = Head(q[a])
  OBVIOUS
<1>4. /\ x \in Evts /\ q' \in [Prios -> Seq(Evts)]
      /\ \A b \in Prios : Len(q'[b]) <= Cap
      /\ \A b \in Prios : b # a => q'[b] = q[b]
      /\ \A e : InQ(e) = InQ(e)' + Is(x, e)
  <2>1. PICK f, f2 : f = q /\ f2 = q'
    OBVIOUS
  <2>2. Taken(f, f2, a, Cap) /\ Cap \in Nat
    BY <1>1, <1>2, <2>1, Constants DEF Types, QueueTypes, Taken
  <2>3. /\ Head(f[a]) \in Evts /\ f2 \in [Prios -> Seq(Evts)]
        /\ \A b \in Prios : Len(f2[b]) <= Cap
        /\ \A b \in Prios : b # a => f2[b] = f[b]
        /\ \A e : Cardinality(Places(f, Cap, e))
                     = Cardinality(Places(f2, Cap, e)) + Is(Head(f[a]), e)
    BY <2>2, Taking
  <2> QED BY <1>3, <2>1, <2>3 DEF InQ
<1>5. arg[a] = NULL /\ cur[a] = NULL
  BY <1>1, <1>2 DEF IInv, Local, InRtc
<1>6. /\ pc' \in [Procs -> PrioPcs \cup IsrPcs] /\ pc'[a] = "rtc"
      /\ \A r \in Procs : r # a => pc'[r] = pc[r]
  BY <1>1, <1>2 DEF Types, ProcTypes, PrioPcs
<1>7. /\ cur' \in [Prios -> Evts \cup {NULL}] /\ cur'[a] = x
      /\ \A r \in Prios : r # a => cur'[r] = cur[r]
  BY <1>1, <1>2, <1>3, <1>4 DEF Types, HandTypes
<1>8. Types'
  BY <1>1, <1>2, <1>4, <1>6, <1>7
     DEF Types, PoolTypes, CtrTypes, QueueTypes, ProcTypes, HandTypes, pools
<1>9. OthersKept(a)
  BY <1>1, <1>6, <1>7 DEF OthersKept
<1>10. Local(a)'
  <2>1. /\ ~owns[a] /\ ret[a] # "isr" /\ a \notin Isrs
    BY <1>2, <1>5, EventsAssumption DEF IInv, Local
  <2>2. x # NULL
    BY <1>4, Constants
  <2> QED BY <1>1, <1>5, <1>6, <1>7, <2>1, <2>2 DEF Local, InRtc, PrioPcs
<1>11. Recalled'
  <2>1. \A b \in Prios : \A y : b # a /\ Queued(b, y) => Queued(b, y)'
    BY <1>4 DEF Queued
  <2> QED BY <1>2, <1>6, <1>9, <2>1, RecalledKept
<1>12. \A e \in DynEvts : Life(e)'
  <2>1. \A e \in DynEvts :
           /\ Refs(e)' = Refs(e)
           /\ Uncounted(e)' = Uncounted(e) /\ Putting(e)' = Putting(e)
    <3> TAKE e \in DynEvts
    <3>1. /\ InDq(e)' = InDq(e) /\ InRef(e)' = InRef(e) /\ InArg(e)' = InArg(e)
          /\ Uncounted(e)' = Uncounted(e)
      BY <1>1, CountsSame
    <3>2. InCur(e)' = InCur(e) - Is(cur[a], e) + Is(x, e)
      BY <1>1, <1>2, <1>3, CurChanges
    <3>3. Is(cur[a], e) = 0 /\ Is(x, e) \in Nat
      BY <1>5, Constants DEF Is
    <3>4. InQ(e) = InQ(e)' + Is(x, e)
      BY <1>4
    <3>5. Putting(e)' = Putting(e)
      BY <1>1, <1>6 DEF Putting
    <3> QED BY <3>1, <3>2, <3>3, <3>4, <3>5, RefsType, RefsTypeNext
  <2>2. UNCHANGED <<size, refCtr_, new>>
    BY <1>1 DEF pools
  <2> QED BY <2>1, <2>2, LifeMoved
<1>13. NoCountingAssertion' /\ UNCHANGED <<pools, free>>
  BY <1>1 DEF IInv, NoCountingAssertion
<1>14. pc[a] # "main" /\ pc'[a] # "main"
  BY <1>1, <1>6
<1> QED BY <1>2, <1>8, <1>9, <1>10, <1>11, <1>12, <1>13, <1>14, Frame

\* The RTC step ends: its event is given to gc().
LEMMA RtcEndStep ==
    ASSUME IInv, NEW a \in Prios, rtcEnd(a)
    PROVE  IInv'
<1>1. /\ AtHome(a) /\ cur' = [cur EXCEPT ![a] = NULL]
      /\ CallGc(a, cur[a], TRUE, "get")
      /\ UNCHANGED <<pools, free, refCtr_, q, dq, subscr, new, ref, todo, asrt>>
  BY DEF rtcEnd
<1>2. Types /\ a \in Procs
  BY Constants DEF IInv
<1>3. /\ arg[a] = NULL /\ pc[a] = "rtc" /\ cur[a] \in Evts
  BY <1>1, <1>2, HomeArg
<1>4. PICK x : x = cur[a]
  OBVIOUS
<1>5. /\ pc' \in [Procs -> PrioPcs \cup IsrPcs]
      /\ ret' \in [Procs -> {"get", "rtc", "flush", "isr"}]
      /\ arg' \in [Procs -> Evts \cup {NULL}]
      /\ owns' \in [Procs -> BOOLEAN]
      /\ pc'[a] = "gc" /\ arg'[a] = x /\ owns'[a] /\ ret'[a] = "get"
      /\ \A r \in Procs : r # a => /\ pc'[r] = pc[r] /\ arg'[r] = arg[r]
                                   /\ owns'[r] = owns[r] /\ ret'[r] = ret[r]
  BY <1>1, <1>2, <1>3, <1>4, Collecting
<1>6. /\ cur' \in [Prios -> Evts \cup {NULL}] /\ cur'[a] = NULL
      /\ \A r \in Prios : r # a => cur'[r] = cur[r]
  BY <1>1, <1>2 DEF Types, HandTypes
<1>7. Types'
  BY <1>1, <1>2, <1>5, <1>6
     DEF Types, PoolTypes, CtrTypes, QueueTypes, ProcTypes, HandTypes, pools
<1>8. OthersKept(a)
  BY <1>1, <1>5, <1>6 DEF OthersKept
<1>9. Local(a)'
  BY <1>2, <1>3, <1>4, <1>5, <1>6, HomeIs, LocalCollecting
<1>10. Recalled'
  BY <1>1, <1>2, <1>5, <1>8, QueuedSame, RecalledKept
<1>11. \A e \in DynEvts : Life(e)'
  <2>1. \A e \in DynEvts :
           /\ Refs(e)' = Refs(e)
           /\ Uncounted(e)' = Uncounted(e) /\ Putting(e)' = Putting(e)
    <3> TAKE e \in DynEvts
    <3>1. InQ(e)' = InQ(e) /\ InDq(e)' = InDq(e) /\ InRef(e)' = InRef(e)
      BY <1>1, CountsSame
    <3>2. InCur(e)' = InCur(e) - Is(cur[a], e) + Is(NULL, e)
      BY <1>1, <1>2, CurChanges
    <3>3. /\ Uncounted(e)' = Uncounted(e) /\ Putting(e)' = Putting(e)
          /\ InArg(e)' = InArg(e) - Is(arg[a], e) + Is(arg'[a], e)
      BY <1>2, <1>3, <1>5, <1>8, ArgChanges
    <3>4. /\ Is(cur[a], e) = Is(x, e) /\ Is(NULL, e) = 0 /\ Is(arg[a], e) = 0
          /\ Is(arg'[a], e) = Is(x, e) /\ Is(x, e) \in Nat
      BY <1>3, <1>4, <1>5, Constants DEF Is
    <3> QED BY <3>1, <3>2, <3>3, <3>4, RefsType, RefsTypeNext
  <2>2. UNCHANGED <<size, refCtr_, new>>
    BY <1>1 DEF pools
  <2> QED BY <2>1, <2>2, LifeMoved
<1>12. NoCountingAssertion' /\ UNCHANGED <<pools, free>>
  BY <1>1 DEF IInv, NoCountingAssertion
<1>13. pc[a] # "main" /\ pc'[a] # "main"
  BY <1>3, <1>5
<1> QED BY <1>2, <1>7, <1>8, <1>9, <1>10, <1>11, <1>12, <1>13, Frame

\* deleteRef_ gives the kept reference to gc().
LEMMA DeleteRefStep ==
    ASSUME IInv, NEW a \in Prios, deleteRef_(a)
    PROVE  IInv'
<1>1. /\ AtHome(a) /\ ref[a] # NULL /\ ref' = [ref EXCEPT ![a] = NULL]
      /\ CallGc(a, ref[a], TRUE, "rtc")
      /\ UNCHANGED <<pools, free, refCtr_, q, dq, subscr, cur, new, todo, asrt>>
  BY DEF deleteRef_
<1>2. Types /\ a \in Procs
  BY Constants DEF IInv
<1>3. arg[a] = NULL /\ pc[a] = "rtc" /\ cur[a] \in Evts /\ ref[a] \in Evts
  BY <1>1, <1>2, HomeArg, Constants DEF Types, HandTypes
<1>4. PICK x : x = ref[a]
  OBVIOUS
<1>5. /\ pc' \in [Procs -> PrioPcs \cup IsrPcs]
      /\ ret' \in [Procs -> {"get", "rtc", "flush", "isr"}]
      /\ arg' \in [Procs -> Evts \cup {NULL}]
      /\ owns' \in [Procs -> BOOLEAN]
      /\ pc'[a] = "gc" /\ arg'[a] = x /\ owns'[a] /\ ret'[a] = "rtc"
      /\ \A r \in Procs : r # a => /\ pc'[r] = pc[r] /\ arg'[r] = arg[r]
                                   /\ owns'[r] = owns[r] /\ ret'[r] = ret[r]
  BY <1>1, <1>2, <1>3, <1>4, Collecting
<1>6. ref' \in [Prios -> DynEvts \cup {NULL}]
  BY <1>1, <1>2 DEF Types, HandTypes
<1>7. Types'
  BY <1>1, <1>2, <1>5, <1>6
     DEF Types, PoolTypes, CtrTypes, QueueTypes, ProcTypes, HandTypes, pools
<1>8. OthersKept(a)
  BY <1>1, <1>5 DEF OthersKept
<1>9. Local(a)'
  <2>1. cur'[a] # NULL
    BY <1>1, <1>3, Constants
  <2> QED BY <1>2, <1>3, <1>4, <1>5, <2>1, HomeIs, LocalCollecting
<1>10. Recalled'
  BY <1>1, <1>2, <1>5, <1>8, QueuedSame, RecalledKept
<1>11. \A e \in DynEvts : Life(e)'
  <2>1. \A e \in DynEvts :
           /\ Refs(e)' = Refs(e)
           /\ Uncounted(e)' = Uncounted(e) /\ Putting(e)' = Putting(e)
    <3> TAKE e \in DynEvts
    <3>1. InQ(e)' = InQ(e) /\ InDq(e)' = InDq(e) /\ InCur(e)' = InCur(e)
      BY <1>1, CountsSame
    <3>2. InRef(e)' = InRef(e) - Is(ref[a], e) + Is(NULL, e)
      BY <1>1, <1>2, RefChanges
    <3>3. /\ Uncounted(e)' = Uncounted(e) /\ Putting(e)' = Putting(e)
          /\ InArg(e)' = InArg(e) - Is(arg[a], e) + Is(arg'[a], e)
      BY <1>2, <1>3, <1>5, <1>8, ArgChanges
    <3>4. /\ Is(ref[a], e) = Is(x, e) /\ Is(NULL, e) = 0 /\ Is(arg[a], e) = 0
          /\ Is(arg'[a], e) = Is(x, e) /\ Is(x, e) \in Nat
      BY <1>3, <1>4, <1>5, Constants DEF Is
    <3> QED BY <3>1, <3>2, <3>3, <3>4, RefsType, RefsTypeNext
  <2>2. UNCHANGED <<size, refCtr_, new>>
    BY <1>1 DEF pools
  <2> QED BY <2>1, <2>2, LifeMoved
<1>12. NoCountingAssertion' /\ UNCHANGED <<pools, free>>
  BY <1>1 DEF IInv, NoCountingAssertion
<1>13. pc[a] # "main" /\ pc'[a] # "main"
  BY <1>3, <1>5
<1> QED BY <1>2, <1>7, <1>8, <1>9, <1>10, <1>11, <1>12, <1>13, Frame

\* defer counts a reference in the deferred-event queue.
LEMMA DeferStep ==
    ASSUME IInv, NEW a \in Prios, defer(a)
    PROVE  IInv'
<1>1. PICK x : x = cur[a]
  OBVIOUS
<1>2. /\ AtHome(a) /\ Len(dq[a]) < DeferCap /\ AddRef(x)
      /\ dq' = [dq EXCEPT ![a] = Append(@, x)]
      /\ UNCHANGED <<pools, free, q, subscr, pc, cur, new, ref, arg, owns, todo,
                     ret, asrt>>
  BY <1>1 DEF defer, DeferFits
<1>3. Types /\ a \in Procs
  BY Constants DEF IInv
<1>4. pc[a] = "rtc" /\ x \in Evts
  BY <1>1, <1>2, <1>3, HomeArg
<1>5. x \in DynEvts => Good(x) /\ News(x) = {} /\ poolId_[x] # 0
  BY <1>1, HoldsCur, Referenced DEF Good
<1>6. CtrTypes' /\ \A e \in DynEvts : refCtr_'[e] = refCtr_[e] + Is(x, e)
  BY <1>2, <1>3, <1>4, <1>5, Counting
<1>7. /\ dq' \in [Prios -> Seq(Evts)] /\ \A b \in Prios : Len(dq'[b]) <= DeferCap
      /\ \A e : InDq(e)' = InDq(e) + Is(x, e)
  BY <1>2, <1>3, <1>4, Deferring
<1>8. Types'
  BY <1>2, <1>3, <1>6, <1>7
     DEF Types, PoolTypes, QueueTypes, ProcTypes, HandTypes, pools
<1>9. OthersKept(a)
  BY <1>2 DEF OthersKept
<1>10. Local(a)'
  BY <1>2, <1>3, LocalKept DEF IInv
<1>11. Recalled'
  BY <1>2, <1>3, <1>4, <1>9, QueuedSame, RecalledKept
<1>12. \A e \in DynEvts : Life(e)'
  <2>1. \A e \in DynEvts :
           /\ Refs(e)' = Refs(e) + Is(x, e) /\ News(e)' = News(e)
           /\ Uncounted(e)' = Uncounted(e) /\ Putting(e)' = Putting(e)
    <3> TAKE e \in DynEvts
    <3>1. /\ InQ(e)' = InQ(e) /\ InCur(e)' = InCur(e) /\ InRef(e)' = InRef(e)
          /\ InArg(e)' = InArg(e) /\ Uncounted(e)' = Uncounted(e)
          /\ Putting(e)' = Putting(e) /\ News(e)' = News(e)
      BY <1>2, CountsSame
    <3>2. InDq(e)' = InDq(e) + Is(x, e) /\ Is(x, e) \in Nat
      BY <1>7 DEF Is
    <3> QED BY <3>1, <3>2, RefsType, RefsTypeNext
  <2>2. size' = size
    BY <1>2 DEF pools
  <2>3. x \in DynEvts => News(x)' = {}
    BY <1>5, <2>1
  <2> QED BY <1>5, <1>6, <2>1, <2>2, <2>3, LifeUp
<1>13. NoCountingAssertion' /\ UNCHANGED <<pools, free>>
  BY <1>2 DEF IInv, NoCountingAssertion
<1>14. pc[a] # "main" /\ pc'[a] # "main"
  BY <1>2, <1>4
<1> QED BY <1>3, <1>8, <1>9, <1>10, <1>11, <1>12, <1>13, <1>14, Frame

\* newRef_ counts the reference that the active object keeps.
LEMMA NewRefStep ==
    ASSUME IInv, NEW a \in Prios, newRef_(a)
    PROVE  IInv'
<1>1. PICK x : x = cur[a]
  OBVIOUS
<1>2. /\ AtHome(a) /\ poolId_[x] # 0 /\ ref[a] = NULL /\ AddRef(x)
      /\ ref' = [ref EXCEPT ![a] = x]
      /\ UNCHANGED <<pools, free, q, dq, subscr, pc, cur, new, arg, owns, todo,
                     ret, asrt>>
  BY <1>1 DEF newRef_
<1>3. Types /\ a \in Procs
  BY Constants DEF IInv
<1>4. pc[a] = "rtc" /\ x \in Evts
  BY <1>1, <1>2, <1>3, HomeArg
<1>5. x \in DynEvts
  BY <1>2, <1>4 DEF IInv, Pools, Evts
<1>6. Good(x) /\ News(x) = {}
  BY <1>1, <1>5, HoldsCur, Referenced
<1>7. CtrTypes' /\ \A e \in DynEvts : refCtr_'[e] = refCtr_[e] + Is(x, e)
  BY <1>2, <1>3, <1>4, Counting
<1>8. ref' \in [Prios -> DynEvts \cup {NULL}]
  BY <1>2, <1>3, <1>5 DEF Types, HandTypes
<1>9. Types'
  BY <1>2, <1>3, <1>7, <1>8
     DEF Types, PoolTypes, QueueTypes, ProcTypes, HandTypes, pools
<1>10. OthersKept(a)
  BY <1>2 DEF OthersKept
<1>11. Local(a)'
  BY <1>2, <1>3, LocalKept DEF IInv
<1>12. Recalled'
  BY <1>2, <1>3, <1>4, <1>10, QueuedSame, RecalledKept
<1>13. \A e \in DynEvts : Life(e)'
  <2>1. \A e \in DynEvts :
           /\ Refs(e)' = Refs(e) + Is(x, e) /\ News(e)' = News(e)
           /\ Uncounted(e)' = Uncounted(e) /\ Putting(e)' = Putting(e)
    <3> TAKE e \in DynEvts
    <3>1. /\ InQ(e)' = InQ(e) /\ InDq(e)' = InDq(e) /\ InCur(e)' = InCur(e)
          /\ InArg(e)' = InArg(e) /\ Uncounted(e)' = Uncounted(e)
          /\ Putting(e)' = Putting(e) /\ News(e)' = News(e)
      BY <1>2, CountsSame
    <3>2. InRef(e)' = InRef(e) - Is(ref[a], e) + Is(x, e)
      BY <1>2, <1>3, RefChanges
    <3>3. Is(ref[a], e) = 0 /\ Is(x, e) \in Nat
      BY <1>2, Constants DEF Is
    <3> QED BY <3>1, <3>2, <3>3, RefsType, RefsTypeNext
  <2>2. size' = size
    BY <1>2 DEF pools
  <2>3. News(x)' = {}
    BY <1>5, <1>6, <2>1
  <2> QED BY <1>6, <1>7, <2>1, <2>2, <2>3, LifeUp
<1>14. NoCountingAssertion' /\ UNCHANGED <<pools, free>>
  BY <1>2 DEF IInv, NoCountingAssertion
<1>15. pc[a] # "main" /\ pc'[a] # "main"
  BY <1>2, <1>4
<1> QED BY <1>3, <1>9, <1>10, <1>11, <1>12, <1>13, <1>14, <1>15, Frame

\* The front event is taken from the deferred-event queue.
LEMMA TakingDeferred ==
    ASSUME Types, NEW a \in Prios, dq[a] # <<>>, dq' = [dq EXCEPT ![a] = Tail(@)]
    PROVE  /\ Head(dq[a]) \in Evts /\ dq' \in [Prios -> Seq(Evts)]
           /\ \A b \in Prios : Len(dq'[b]) <= DeferCap
           /\ \A e : InDq(e) = InDq(e)' + Is(Head(dq[a]), e)
<1>1. PICK f, f2 : f = dq /\ f2 = dq'
  OBVIOUS
<1>2. Taken(f, f2, a, DeferCap) /\ DeferCap \in Nat
  BY <1>1, Constants DEF Types, QueueTypes, Taken
<1>3. /\ Head(f[a]) \in Evts /\ f2 \in [Prios -> Seq(Evts)]
      /\ \A b \in Prios : Len(f2[b]) <= DeferCap
      /\ \A e : Cardinality(Places(f, DeferCap, e))
                   = Cardinality(Places(f2, DeferCap, e)) + Is(Head(f[a]), e)
  BY <1>2, Taking
<1> QED BY <1>1, <1>3 DEF InDq

\* recall takes an event from the deferred-event queue.
LEMMA RecallStep ==
    ASSUME IInv, NEW a \in Prios, recall(a)
    PROVE  IInv'
<1>1. PICK x : x = Head(dq[a])
  OBVIOUS
<1>2. /\ AtHome(a) /\ dq[a] # <<>> /\ dq' = [dq EXCEPT ![a] = Tail(@)]
      /\ arg' = [arg EXCEPT ![a] = x] /\ owns' = [owns EXCEPT ![a] = TRUE]
      /\ pc' = [pc EXCEPT ![a] = "recallPost"]
      /\ UNCHANGED <<pools, free, refCtr_, q, subscr, cur, new, ref, todo, ret,
                     asrt>>
  BY <1>1 DEF recall
<1>3. Types /\ a \in Procs
  BY Constants DEF IInv
<1>4. pc[a] = "rtc" /\ arg[a] = NULL /\ cur[a] \in Evts
  BY <1>2, <1>3, HomeArg
<1>5. /\ x \in Evts /\ dq' \in [Prios -> Seq(Evts)]
      /\ \A b \in Prios : Len(dq'[b]) <= DeferCap
      /\ \A e : InDq(e) = InDq(e)' + Is(x, e)
  BY <1>1, <1>2, <1>3, TakingDeferred
<1>6. /\ pc' \in [Procs -> PrioPcs \cup IsrPcs] /\ pc'[a] = "recallPost"
      /\ \A r \in Procs : r # a => pc'[r] = pc[r]
  BY <1>2, <1>3 DEF Types, ProcTypes, PrioPcs
<1>7. /\ arg' \in [Procs -> Evts \cup {NULL}] /\ owns' \in [Procs -> BOOLEAN]
      /\ arg'[a] = x /\ owns'[a]
      /\ \A r \in Procs : r # a => arg'[r] = arg[r] /\ owns'[r] = owns[r]
  BY <1>2, <1>3, <1>5 DEF Types, ProcTypes
<1>8. Types'
  BY <1>2, <1>3, <1>5, <1>6, <1>7
     DEF Types, PoolTypes, CtrTypes, QueueTypes, ProcTypes, HandTypes, pools
<1>9. OthersKept(a)
  BY <1>2, <1>6, <1>7 DEF OthersKept
<1>10. Local(a)'
  <2>1. x # NULL /\ cur'[a] # NULL /\ "recallPost" \in PrioPcs
    BY <1>2, <1>4, <1>5, Constants DEF PrioPcs
  <2>2. ret'[a] # "isr" /\ a \notin Isrs
    BY <1>2, <1>3, EventsAssumption DEF IInv, Local
  <2> QED BY <1>6, <1>7, <2>1, <2>2 DEF Local, InRtc
<1>11. Recalled'
  BY <1>2, <1>3, <1>6, <1>9, QueuedSame, RecalledKept
<1>12. \A e \in DynEvts : Life(e)'
  <2>1. \A e \in DynEvts :
           /\ Refs(e)' = Refs(e)
           /\ Uncounted(e)' = Uncounted(e) /\ Putting(e)' = Putting(e)
    <3> TAKE e \in DynEvts
    <3>1. InQ(e)' = InQ(e) /\ InCur(e)' = InCur(e) /\ InRef(e)' = InRef(e)
      BY <1>2, CountsSame
    <3>2. /\ Uncounted(e)' = Uncounted(e) /\ Putting(e)' = Putting(e)
          /\ InArg(e)' = InArg(e) - Is(arg[a], e) + Is(arg'[a], e)
      BY <1>3, <1>4, <1>6, <1>7, <1>9, ArgChanges
    <3>3. Is(arg[a], e) = 0 /\ Is(arg'[a], e) = Is(x, e) /\ Is(x, e) \in Nat
      BY <1>4, <1>7, Constants DEF Is
    <3>4. InDq(e) = InDq(e)' + Is(x, e)
      BY <1>5
    <3> QED BY <3>1, <3>2, <3>3, <3>4, RefsType, RefsTypeNext
  <2>2. UNCHANGED <<size, refCtr_, new>>
    BY <1>2 DEF pools
  <2> QED BY <2>1, <2>2, LifeMoved
<1>13. NoCountingAssertion' /\ UNCHANGED <<pools, free>>
  BY <1>2 DEF IInv, NoCountingAssertion
<1>14. pc[a] # "main" /\ pc'[a] # "main"
  BY <1>4, <1>6
<1> QED BY <1>3, <1>8, <1>9, <1>10, <1>11, <1>12, <1>13, <1>14, Frame

\* recall posts the event to the front of the queue, which counts it again.
LEMMA RecallPostStep ==
    ASSUME IInv, NEW a \in Prios, recallPost(a)
    PROVE  IInv'
<1>1. PICK x : x = arg[a]
  OBVIOUS
<1>2. Types /\ a \in Procs /\ pc[a] = "recallPost"
  BY Constants DEF IInv, recallPost
<1>3. x \in Evts /\ owns[a] /\ cur[a] # NULL
  BY <1>1, <1>2 DEF IInv, Local, InRtc, Types, ProcTypes
<1>4. CASE nFree(a) = 0
  <2>1. /\ asrt' = "postLIFO:210" /\ UNCHANGED <<refCtr_, q, pc>>
        /\ UNCHANGED <<pools, free, dq, subscr, cur, new, ref, arg, owns, todo,
                       ret>>
    BY <1>4 DEF recallPost
  <2>2. NoCountingAssertion'
    BY <2>1 DEF NoCountingAssertion
  <2> QED BY <2>1, <2>2, OnlyAsserts
<1>5. CASE nFree(a) # 0
  <2>1. /\ AddRef(x) /\ q' = [q EXCEPT ![a] = <<x>> \o @]
        /\ pc' = [pc EXCEPT ![a] = "recallDec"]
        /\ UNCHANGED <<pools, free, dq, subscr, cur, new, ref, arg, owns, todo,
                       ret, asrt>>
    BY <1>1, <1>5 DEF recallPost
  <2>2. x \in DynEvts => Good(x) /\ News(x) = {} /\ poolId_[x] # 0
    BY <1>1, <1>2, <1>3, HoldsArg, Referenced DEF Good
  <2>3. CtrTypes' /\ \A e \in DynEvts : refCtr_'[e] = refCtr_[e] + Is(x, e)
    BY <1>2, <1>3, <2>1, <2>2, Counting
  <2>4. Len(q[a]) < Cap
    <3>1. Len(q[a]) \in Nat /\ Len(q[a]) <= Cap /\ Cap \in Nat
      BY <1>2, Constants, LenProperties DEF Types, QueueTypes
    <3> QED BY <1>5, <3>1 DEF nFree
  <2>5. /\ q' \in [Prios -> Seq(Evts)] /\ \A b \in Prios : Len(q'[b]) <= Cap
        /\ \A e : InQ(e)' = InQ(e) + Is(x, e)
        /\ \A b \in Prios : \A y : Queued(b, y) => Queued(b, y)'
        /\ Queued(a, x)'
    BY <1>2, <1>3, <2>1, <2>4, PostingLIFO
  <2>6. /\ pc' \in [Procs -> PrioPcs \cup IsrPcs] /\ pc'[a] = "recallDec"
        /\ \A r \in Procs : r # a => pc'[r] = pc[r]
    BY <1>2, <2>1 DEF Types, ProcTypes, PrioPcs
  <2>7. Types'
    BY <1>2, <2>1, <2>3, <2>5, <2>6
       DEF Types, PoolTypes, QueueTypes, ProcTypes, HandTypes, pools
  <2>8. OthersKept(a)
    BY <2>1, <2>6 DEF OthersKept
  <2>9. Local(a)'
    <3>1. x # NULL /\ "recallDec" \in PrioPcs /\ a \notin Isrs /\ ret[a] # "isr"
      BY <1>2, <1>3, Constants, EventsAssumption DEF PrioPcs, IInv, Local
    <3>2. arg'[a] = x /\ owns'[a] /\ cur'[a] # NULL /\ ret'[a] = ret[a]
      BY <1>1, <1>3, <2>1
    <3> QED BY <2>6, <3>1, <3>2 DEF Local, InRtc
  <2>10. Recalled'
    <3>1. Queued(a, arg[a])'
      BY <1>1, <2>1, <2>5
    <3> QED BY <1>2, <2>5, <2>8, <3>1, RecalledKept
  <2>11. \A e \in DynEvts : Life(e)'
    <3>1. \A e \in DynEvts :
             /\ Refs(e)' = Refs(e) + Is(x, e) /\ News(e)' = News(e)
             /\ Uncounted(e)' = Uncounted(e) /\ Putting(e)' = Putting(e)
      <4> TAKE e \in DynEvts
      <4>1. /\ InDq(e)' = InDq(e) /\ InCur(e)' = InCur(e) /\ InRef(e)' = InRef(e)
            /\ InArg(e)' = InArg(e) /\ Uncounted(e)' = Uncounted(e)
            /\ News(e)' = News(e)
        BY <2>1, CountsSame
      <4>2. Putting(e)' = Putting(e)
        BY <1>2, <2>1, <2>6 DEF Putting
      <4>3. InQ(e)' = InQ(e) + Is(x, e) /\ Is(x, e) \in Nat
        BY <2>5 DEF Is
      <4> QED BY <4>1, <4>2, <4>3, RefsType, RefsTypeNext
    <3>2. size' = size
      BY <2>1 DEF pools
    <3>3. x \in DynEvts => News(x)' = {}
      BY <2>2, <3>1
    <3> QED BY <2>2, <2>3, <3>1, <3>2, <3>3, LifeUp
  <2>12. NoCountingAssertion' /\ UNCHANGED <<pools, free>>
    BY <2>1 DEF IInv, NoCountingAssertion
  <2>13. pc[a] # "main" /\ pc'[a] # "main"
    BY <1>2, <2>6
  <2> QED BY <1>2, <2>7, <2>8, <2>9, <2>10, <2>11, <2>12, <2>13, Frame
<1> QED BY <1>4, <1>5

\* recall gives up its own reference: the queue has another one, so the
\* counter is at least 2.
LEMMA RecallDecStep ==
    ASSUME IInv, NEW a \in Prios, recallDec(a)
    PROVE  IInv'
<1>1. PICK x : x = arg[a]
  OBVIOUS
<1>2. Types /\ a \in Procs /\ pc[a] = "recallDec"
  BY Constants DEF IInv, recallDec
<1>3. x \in Evts /\ owns[a] /\ cur[a] # NULL /\ arg[a] # NULL
  BY <1>1, <1>2 DEF IInv, Local, InRtc, Types, ProcTypes
<1>4. x \in DynEvts => Refs(x) > 1
  <2> SUFFICES ASSUME x \in DynEvts PROVE Refs(x) > 1
    OBVIOUS
  <2>1. InQ(x) > 0 /\ InArg(x) > 0
    <3>1. Queued(a, x)
      BY <1>1, <1>2 DEF IInv, Recalled
    <3> QED BY <1>1, <1>2, <1>3, <3>1, RefsPositive
  <2> QED BY <2>1, RefsType
<1>5. /\ x \in DynEvts => Good(x) /\ poolId_[x] # 0 /\ refCtr_[x] > 1
      /\ x \notin DynEvts => poolId_[x] = 0
  <2>1. x \in DynEvts => Refs(x) \in Nat
    BY RefsType
  <2>2. x \in DynEvts => Good(x)
    BY <1>4, <2>1, Referenced
  <2>3. x \notin DynEvts => poolId_[x] = 0
    BY <1>3 DEF IInv, Pools, Evts
  <2> QED BY <1>4, <2>1, <2>2, <2>3 DEF Good
<1>6. poolId_[x] # 0 => RecallCounted(x)
  <2>1. refCtr_[x] \in Nat
    BY <1>2, <1>3 DEF Types, CtrTypes
  <2> QED BY <1>5, <2>1 DEF RecallCounted
<1>7. /\ refCtr_' = IF poolId_[x] # 0 THEN [refCtr_ EXCEPT ![x] = @ - 1] ELSE refCtr_
      /\ pc' = [pc EXCEPT ![a] = "rtc"]
      /\ arg' = [arg EXCEPT ![a] = NULL] /\ owns' = [owns EXCEPT ![a] = FALSE]
      /\ UNCHANGED <<pools, free, q, dq, subscr, cur, new, ref, todo, ret, asrt>>
  BY <1>1, <1>6 DEF recallDec
<1>8. CtrTypes' /\ \A e \in DynEvts : refCtr_'[e] = refCtr_[e] - Is(x, e)
  <2>1. refCtr_ \in [Evts -> Nat]
    BY <1>2 DEF Types, CtrTypes
  <2>2. CASE x \in DynEvts
    <3>1. refCtr_' = [refCtr_ EXCEPT ![x] = @ - 1] /\ refCtr_[x] - 1 \in Nat
      BY <1>3, <1>5, <1>7, <2>1, <2>2
    <3>2. refCtr_' \in [Evts -> Nat] /\ refCtr_'[x] = refCtr_[x] - 1
      BY <1>3, <2>1, <3>1
    <3>3. \A e \in Evts : refCtr_[e] \in Nat /\ (e # x => refCtr_'[e] = refCtr_[e])
      BY <2>1, <3>1
    <3> QED BY <3>2, <3>3, Constants DEF CtrTypes, Is
  <2>3. CASE x \notin DynEvts
    <3>1. refCtr_' = refCtr_
      BY <1>5, <1>7, <2>3
    <3> QED BY <2>1, <2>3, <3>1, Constants DEF CtrTypes, Is
  <2> QED BY <2>2, <2>3
<1>9. /\ pc' \in [Procs -> PrioPcs \cup IsrPcs] /\ pc'[a] = "rtc"
      /\ \A r \in Procs : r # a => pc'[r] = pc[r]
  BY <1>2, <1>7 DEF Types, ProcTypes, PrioPcs
<1>10. /\ arg' \in [Procs -> Evts \cup {NULL}] /\ owns' \in [Procs -> BOOLEAN]
       /\ arg'[a] = NULL /\ ~owns'[a]
       /\ \A r \in Procs : r # a => arg'[r] = arg[r] /\ owns'[r] = owns[r]
  BY <1>2, <1>7 DEF Types, ProcTypes
<1>11. Types'
  BY <1>2, <1>7, <1>8, <1>9, <1>10
     DEF Types, PoolTypes, QueueTypes, ProcTypes, HandTypes, pools
<1>12. OthersKept(a)
  BY <1>7, <1>9, <1>10 DEF OthersKept
<1>13. Local(a)'
  <2>1. "rtc" \in PrioPcs /\ a \notin Isrs /\ ret'[a] # "isr" /\ cur'[a] # NULL
    BY <1>2, <1>3, <1>7, EventsAssumption DEF PrioPcs, IInv, Local
  <2> QED BY <1>9, <1>10, <2>1 DEF Local, InRtc
<1>14. Recalled'
  BY <1>2, <1>7, <1>9, <1>12, QueuedSame, RecalledKept
<1>15. \A e \in DynEvts : Life(e)'
  <2>1. \A e \in DynEvts :
           /\ Refs(e)' = Refs(e) - Is(x, e)
           /\ Uncounted(e)' = Uncounted(e) /\ Putting(e)' = Putting(e)
    <3> TAKE e \in DynEvts
    <3>1. /\ InQ(e)' = InQ(e) /\ InDq(e)' = InDq(e) /\ InCur(e)' = InCur(e)
          /\ InRef(e)' = InRef(e)
      BY <1>7, CountsSame
    <3>2. /\ Uncounted(e)' = Uncounted(e) /\ Putting(e)' = Putting(e)
          /\ InArg(e)' = InArg(e) - Is(arg[a], e) + Is(arg'[a], e)
      BY <1>2, <1>3, <1>9, <1>10, <1>12, ArgChanges
    <3>3. Is(arg[a], e) = Is(x, e) /\ Is(arg'[a], e) = 0 /\ Is(x, e) \in Nat
      BY <1>1, <1>10, Constants DEF Is
    <3> QED BY <3>1, <3>2, <3>3, RefsType, RefsTypeNext
  <2>2. UNCHANGED <<size, new>>
    BY <1>7 DEF pools
  <2> QED BY <1>4, <1>8, <2>1, <2>2, LifeDown
<1>16. NoCountingAssertion' /\ UNCHANGED <<pools, free>>
  BY <1>7 DEF IInv, NoCountingAssertion
<1>17. pc[a] # "main" /\ pc'[a] # "main"
  BY <1>2, <1>9
<1> QED BY <1>2, <1>11, <1>12, <1>13, <1>14, <1>15, <1>16, <1>17, Frame

\* flushDeferred gives an event of the deferred-event queue to gc(), or ends.
LEMMA FlushStep ==
    ASSUME IInv, NEW a \in Prios, flushDeferred(a)
    PROVE  IInv'
<1>1. Types /\ a \in Procs
  BY Constants DEF IInv
<1>2. arg[a] = NULL /\ pc[a] \in {"flush", "rtc"} /\ cur[a] # NULL /\ ~owns[a]
  <2>1. pc[a] = "flush" \/ AtHome(a)
    BY DEF flushDeferred
  <2>2. CASE pc[a] = "flush"
    BY <1>1, <2>2 DEF IInv, Local, InRtc
  <2>3. CASE AtHome(a)
    BY <1>1, <2>3, HomeArg, Constants
  <2> QED BY <2>1, <2>2, <2>3
<1>3. UNCHANGED <<pools, free, refCtr_, q, subscr, cur, new, ref, todo, asrt>>
  BY DEF flushDeferred
<1>4. CASE dq[a] = <<>>
  <2>1. pc' = [pc EXCEPT ![a] = "rtc"] /\ UNCHANGED <<dq, arg, owns, ret>>
    BY <1>4 DEF flushDeferred
  <2>2. /\ pc' \in [Procs -> PrioPcs \cup IsrPcs] /\ pc'[a] = "rtc"
        /\ \A r \in Procs : r # a => pc'[r] = pc[r]
    BY <1>1, <2>1 DEF Types, ProcTypes, PrioPcs
  <2>3. Types'
    BY <1>1, <1>3, <2>1, <2>2
       DEF Types, PoolTypes, CtrTypes, QueueTypes, ProcTypes, HandTypes, pools
  <2>4. OthersKept(a)
    BY <1>3, <2>1, <2>2 DEF OthersKept
  <2>5. Local(a)'
    <3>1. "rtc" \in PrioPcs /\ a \notin Isrs /\ ret'[a] # "isr" /\ cur'[a] # NULL
      BY <1>1, <1>2, <1>3, <2>1, EventsAssumption DEF PrioPcs, IInv, Local
    <3>2. arg'[a] = NULL /\ ~owns'[a]
      BY <1>2, <2>1
    <3> QED BY <2>2, <3>1, <3>2 DEF Local, InRtc
  <2>6. Recalled'
    BY <1>1, <1>3, <2>2, <2>4, QueuedSame, RecalledKept
  <2>7. \A e \in DynEvts : Life(e)'
    <3>1. \A e \in DynEvts :
             /\ Refs(e)' = Refs(e)
             /\ Uncounted(e)' = Uncounted(e) /\ Putting(e)' = Putting(e)
      <4> TAKE e \in DynEvts
      <4>1. Refs(e)' = Refs(e)
        BY <1>3, <2>1 DEF Refs
      <4>2. Uncounted(e)' = Uncounted(e)
        BY <2>1, CountsSame
      <4>3. Putting(e)' = Putting(e)
        BY <1>2, <2>1, <2>2 DEF Putting
      <4> QED BY <4>1, <4>2, <4>3
    <3>2. UNCHANGED <<size, refCtr_, new>>
      BY <1>3 DEF pools
    <3> QED BY <3>1, <3>2, LifeMoved
  <2>8. NoCountingAssertion' /\ UNCHANGED <<pools, free>>
    BY <1>3 DEF IInv, NoCountingAssertion
  <2>9. pc[a] # "main" /\ pc'[a] # "main"
    BY <1>2, <2>2
  <2> QED BY <1>1, <2>3, <2>4, <2>5, <2>6, <2>7, <2>8, <2>9, Frame
<1>5. CASE dq[a] # <<>>
  <2>1. PICK x : x = Head(dq[a])
    OBVIOUS
  <2>2. dq' = [dq EXCEPT ![a] = Tail(@)] /\ CallGc(a, x, TRUE, "flush")
    BY <1>5, <2>1 DEF flushDeferred
  <2>3. /\ x \in Evts /\ dq' \in [Prios -> Seq(Evts)]
        /\ \A b \in Prios : Len(dq'[b]) <= DeferCap
        /\ \A e : InDq(e) = InDq(e)' + Is(x, e)
    BY <1>1, <1>5, <2>1, <2>2, TakingDeferred
  <2>4. /\ pc' \in [Procs -> PrioPcs \cup IsrPcs]
        /\ ret' \in [Procs -> {"get", "rtc", "flush", "isr"}]
        /\ arg' \in [Procs -> Evts \cup {NULL}]
        /\ owns' \in [Procs -> BOOLEAN]
        /\ pc'[a] = "gc" /\ arg'[a] = x /\ owns'[a] /\ ret'[a] = "flush"
        /\ \A r \in Procs : r # a => /\ pc'[r] = pc[r] /\ arg'[r] = arg[r]
                                     /\ owns'[r] = owns[r] /\ ret'[r] = ret[r]
    BY <1>1, <2>2, <2>3, Collecting
  <2>5. Types'
    BY <1>1, <1>3, <2>3, <2>4
       DEF Types, PoolTypes, CtrTypes, QueueTypes, ProcTypes, HandTypes, pools
  <2>6. OthersKept(a)
    BY <1>3, <2>4 DEF OthersKept
  <2>7. Local(a)'
    <3>1. cur'[a] # NULL
      BY <1>2, <1>3
    <3> QED BY <1>1, <2>3, <2>4, <3>1, HomeIs, LocalCollecting
  <2>8. Recalled'
    BY <1>1, <1>3, <2>4, <2>6, QueuedSame, RecalledKept
  <2>9. \A e \in DynEvts : Life(e)'
    <3>1. \A e \in DynEvts :
             /\ Refs(e)' = Refs(e)
             /\ Uncounted(e)' = Uncounted(e) /\ Putting(e)' = Putting(e)
      <4> TAKE e \in DynEvts
      <4>1. InQ(e)' = InQ(e) /\ InCur(e)' = InCur(e) /\ InRef(e)' = InRef(e)
        BY <1>3, CountsSame
      <4>2. /\ Uncounted(e)' = Uncounted(e) /\ Putting(e)' = Putting(e)
            /\ InArg(e)' = InArg(e) - Is(arg[a], e) + Is(arg'[a], e)
        BY <1>1, <1>2, <2>4, <2>6, ArgChanges
      <4>3. Is(arg[a], e) = 0 /\ Is(arg'[a], e) = Is(x, e) /\ Is(x, e) \in Nat
        BY <1>2, <2>4, Constants DEF Is
      <4>4. InDq(e) = InDq(e)' + Is(x, e)
        BY <2>3
      <4> QED BY <4>1, <4>2, <4>3, <4>4, RefsType, RefsTypeNext
    <3>2. UNCHANGED <<size, refCtr_, new>>
      BY <1>3 DEF pools
    <3> QED BY <3>1, <3>2, LifeMoved
  <2>10. NoCountingAssertion' /\ UNCHANGED <<pools, free>>
    BY <1>3 DEF IInv, NoCountingAssertion
  <2>11. pc[a] # "main" /\ pc'[a] # "main"
    BY <1>2, <2>4
  <2> QED BY <1>1, <2>5, <2>6, <2>7, <2>8, <2>9, <2>10, <2>11, Frame
<1> QED BY <1>4, <1>5

\* What happens to the events that p works on neither before nor after.
LEMMA ArgOther ==
    ASSUME NEW p \in Procs, OthersKept(p), NEW e, e # arg[p], e # arg'[p]
    PROVE  /\ InArg(e)' = InArg(e) /\ Uncounted(e)' = Uncounted(e)
           /\ Putting(e)' = Putting(e)
<1>1. \A r \in Procs : (arg'[r] = e /\ owns'[r]) <=> (arg[r] = e /\ owns[r])
  BY DEF OthersKept
<1>2. \A r \in Procs : (arg'[r] = e /\ ~owns'[r]) <=> (arg[r] = e /\ ~owns[r])
  BY DEF OthersKept
<1>3. {r \in Procs : arg'[r] = e /\ owns'[r]} = {r \in Procs : arg[r] = e /\ owns[r]}
  BY <1>1
<1>4. InArg(e)' = InArg(e)
  BY <1>3 DEF InArg
<1>5. Uncounted(e)' = Uncounted(e)
  BY <1>2 DEF Uncounted
<1>6. Putting(e)' = Putting(e)
  BY DEF OthersKept, Putting
<1> QED BY <1>4, <1>5, <1>6

\* What gc() finds.
LEMMA InGc ==
    ASSUME IInv, NEW p \in Procs, pc[p] \in {"gc", "put"}, NEW x \in DynEvts, arg[p] = x
    PROVE  /\ Allocated(x) /\ poolId_[x] # 0 /\ News(x) = {}
           /\ pc[p] = "gc" => Putting(x) = {} /\ refCtr_[x] = Refs(x)
           /\ owns[p] => Refs(x) > 0 /\ Uncounted(x) = {}
           /\ ~owns[p] => Refs(x) = 0 /\ Uncounted(x) = {p}
<1>1. Life(x) /\ Refs(x) \in Nat
  BY RefsType DEF IInv
<1>2. CASE owns[p]
  <2>1. Refs(x) > 0
    BY <1>2, HoldsArg
  <2> QED BY <1>2, <2>1, Referenced DEF Good
<1>3. CASE ~owns[p]
  <2>1. p \in Uncounted(x)
    BY <1>3 DEF Uncounted
  <2>2. Allocated(x)
    BY <1>1, <2>1 DEF Life
  <2>3. Refs(x) = 0
    BY <1>1, <2>1, <2>2 DEF Life
  <2>4. News(x) = {} /\ Uncounted(x) = {p}
    BY <1>1, <2>1, <2>2, <2>3 DEF Life
  <2>5. poolId_[x] # 0
    BY <2>2, InUsePool
  <2>6. ASSUME pc[p] = "gc" PROVE Putting(x) = {} /\ refCtr_[x] = Refs(x)
    <3>1. Putting(x) \subseteq {p} /\ p \notin Putting(x)
      BY <2>4, <2>6, PuttingUncounted DEF Putting
    <3>2. Putting(x) = {}
      BY <3>1
    <3> QED BY <1>1, <2>2, <3>2 DEF Life
  <2> QED BY <1>3, <2>2, <2>3, <2>4, <2>5, <2>6
<1> QED BY <1>2, <1>3

\* gc() returns to where it was called.
LEMMA Returning ==
    ASSUME IInv, NEW p \in Procs, pc[p] \in {"gc", "put"}, Return(p),
           UNCHANGED <<cur, new, todo, ret>>
    PROVE  /\ pc' \in [Procs -> PrioPcs \cup IsrPcs]
           /\ arg' \in [Procs -> Evts \cup {NULL}] /\ owns' \in [Procs -> BOOLEAN]
           /\ OthersKept(p) /\ Local(p)'
           /\ pc[p] # "main" /\ pc'[p] \in {"get", "rtc", "flush", "isr"}
           /\ arg'[p] = NULL /\ ~owns'[p]
<1>1. /\ pc \in [Procs -> PrioPcs \cup IsrPcs]
      /\ ret \in [Procs -> {"get", "rtc", "flush", "isr"}]
      /\ arg \in [Procs -> Evts \cup {NULL}] /\ owns \in [Procs -> BOOLEAN]
  BY DEF IInv, Types, ProcTypes
<1>2. /\ pc' = [pc EXCEPT ![p] = ret[p]] /\ arg' = [arg EXCEPT ![p] = NULL]
      /\ owns' = [owns EXCEPT ![p] = FALSE]
  BY DEF Return
<1>3. /\ pc' \in [Procs -> PrioPcs \cup IsrPcs]
      /\ pc'[p] = ret[p] /\ ret[p] \in {"get", "rtc", "flush", "isr"}
      /\ \A r \in Procs : r # p => pc'[r] = pc[r]
  BY <1>1, <1>2 DEF PrioPcs, IsrPcs
<1>4. /\ arg' \in [Procs -> Evts \cup {NULL}] /\ owns' \in [Procs -> BOOLEAN]
      /\ arg'[p] = NULL /\ ~owns'[p]
      /\ \A r \in Procs : r # p => arg'[r] = arg[r] /\ owns'[r] = owns[r]
  BY <1>1, <1>2
<1>5. OthersKept(p)
  BY <1>3, <1>4 DEF OthersKept
<1>6. Local(p)'
  <2>1. /\ p \in Prios => ret[p] # "isr" /\ (cur[p] # NULL <=> ret[p] # "get")
        /\ p \in Isrs => ret[p] = "isr"
    BY DEF IInv, Local, InRtc
  <2>2. p \in Prios => pc'[p] \in PrioPcs /\ (InRtc(p)' <=> ret[p] # "get")
    BY <1>3, <2>1 DEF PrioPcs, InRtc
  <2>3. p \in Isrs => pc'[p] \in IsrPcs
    BY <1>3, <2>1 DEF IsrPcs
  <2> QED BY <1>3, <1>4, <2>1, <2>2, <2>3 DEF Local
<1> QED BY <1>3, <1>4, <1>5, <1>6

\* gc gives up a reference, or decides to return the block.
LEMMA GcStep ==
    ASSUME IInv, NEW p \in Procs, gc(p)
    PROVE  IInv'
<1>1. PICK x : x = arg[p]
  OBVIOUS
<1>2. /\ pc[p] = "gc" /\ asrt = "none"
      /\ UNCHANGED <<pools, free, q, dq, subscr, cur, new, ref, todo, ret, asrt>>
  BY DEF gc
<1>3. Types
  BY DEF IInv
<1>4. x \in Evts
  BY <1>1, <1>2, <1>3 DEF IInv, Local, Types, ProcTypes
<1>5. /\ x \in DynEvts => poolId_[x] # 0
      /\ x \notin DynEvts => poolId_[x] = 0
  <2>1. x \in DynEvts => poolId_[x] # 0
    BY <1>1, <1>2, InGc
  <2>2. x \notin DynEvts => poolId_[x] = 0
    BY <1>4 DEF IInv, Pools, Evts
  <2> QED BY <2>1, <2>2
<1>6. NoCountingAssertion' /\ UNCHANGED <<pools, free>>
  BY <1>2 DEF IInv, NoCountingAssertion
<1>7. CASE x \notin DynEvts
  <2>1. Return(p) /\ UNCHANGED refCtr_
    BY <1>1, <1>5, <1>7 DEF gc
  <2>2. /\ pc' \in [Procs -> PrioPcs \cup IsrPcs]
        /\ arg' \in [Procs -> Evts \cup {NULL}] /\ owns' \in [Procs -> BOOLEAN]
        /\ OthersKept(p) /\ Local(p)'
        /\ pc[p] # "main" /\ pc'[p] \in {"get", "rtc", "flush", "isr"}
        /\ arg'[p] = NULL
    BY <1>2, <2>1, Returning
  <2>3. Types'
    BY <1>2, <1>3, <2>1, <2>2
       DEF Types, PoolTypes, CtrTypes, QueueTypes, ProcTypes, HandTypes, pools
  <2>4. Recalled'
    BY <1>2, <2>2, QueuedSame, RecalledKept
  <2>5. \A e \in DynEvts : Life(e)'
    <3>1. \A e \in DynEvts :
             /\ Refs(e)' = Refs(e)
             /\ Uncounted(e)' = Uncounted(e) /\ Putting(e)' = Putting(e)
      <4> TAKE e \in DynEvts
      <4>1. e # arg[p] /\ e # arg'[p]
        BY <1>1, <1>7, <2>2, Constants
      <4>2. /\ InArg(e)' = InArg(e) /\ Uncounted(e)' = Uncounted(e)
            /\ Putting(e)' = Putting(e)
        BY <2>2, <4>1, ArgOther
      <4>3. /\ InQ(e)' = InQ(e) /\ InDq(e)' = InDq(e) /\ InCur(e)' = InCur(e)
            /\ InRef(e)' = InRef(e)
        BY <1>2, CountsSame
      <4> QED BY <4>2, <4>3, RefsType, RefsTypeNext
    <3>2. UNCHANGED <<size, refCtr_, new>>
      BY <1>2, <2>1 DEF pools
    <3> QED BY <3>1, <3>2, LifeMoved
  <2>6. pc'[p] # "main"
    BY <2>2
  <2> QED BY <1>6, <2>2, <2>3, <2>4, <2>5, <2>6, Frame
<1>8. CASE x \in DynEvts /\ refCtr_[x] > 1
  <2>1. Return(p) /\ refCtr_' = [refCtr_ EXCEPT ![x] = @ - 1]
    BY <1>1, <1>5, <1>8 DEF gc, MoreReferences
  <2>2. /\ pc' \in [Procs -> PrioPcs \cup IsrPcs]
        /\ arg' \in [Procs -> Evts \cup {NULL}] /\ owns' \in [Procs -> BOOLEAN]
        /\ OthersKept(p) /\ Local(p)'
        /\ pc[p] # "main" /\ pc'[p] \in {"get", "rtc", "flush", "isr"}
        /\ arg'[p] = NULL
    BY <1>2, <2>1, Returning
  <2>3. owns[p] /\ Refs(x) > 1
    BY <1>1, <1>2, <1>8, InGc, RefsType
  <2>4. CtrTypes' /\ \A e \in DynEvts : refCtr_'[e] = refCtr_[e] - Is(x, e)
    <3>1. refCtr_ \in [Evts -> Nat] /\ refCtr_[x] - 1 \in Nat
      BY <1>3, <1>4, <1>8 DEF Types, CtrTypes
    <3>2. refCtr_' \in [Evts -> Nat] /\ refCtr_'[x] = refCtr_[x] - 1
      BY <1>4, <2>1, <3>1
    <3>3. \A e \in Evts : refCtr_[e] \in Nat /\ (e # x => refCtr_'[e] = refCtr_[e])
      BY <2>1, <3>1
    <3> QED BY <3>2, <3>3, Constants DEF CtrTypes, Is
  <2>5. Types'
    BY <1>2, <1>3, <2>2, <2>4
       DEF Types, PoolTypes, QueueTypes, ProcTypes, HandTypes, pools
  <2>6. Recalled'
    BY <1>2, <2>2, QueuedSame, RecalledKept
  <2>7. \A e \in DynEvts : Life(e)'
    <3>1. \A e \in DynEvts :
             /\ Refs(e)' = Refs(e) - Is(x, e)
             /\ Uncounted(e)' = Uncounted(e) /\ Putting(e)' = Putting(e)
      <4> TAKE e \in DynEvts
      <4>1. /\ InQ(e)' = InQ(e) /\ InDq(e)' = InDq(e) /\ InCur(e)' = InCur(e)
            /\ InRef(e)' = InRef(e)
        BY <1>2, CountsSame
      <4>2. /\ Uncounted(e)' = Uncounted(e) /\ Putting(e)' = Putting(e)
            /\ InArg(e)' = InArg(e) - Is(arg[p], e) + Is(arg'[p], e)
        BY <1>2, <2>2, <2>3, ArgChanges
      <4>3. Is(arg[p], e) = Is(x, e) /\ Is(arg'[p], e) = 0 /\ Is(x, e) \in Nat
        BY <1>1, <2>2, Constants DEF Is
      <4> QED BY <4>1, <4>2, <4>3, RefsType, RefsTypeNext
    <3>2. UNCHANGED <<size, new>>
      BY <1>2 DEF pools
    <3> QED BY <2>3, <2>4, <3>1, <3>2, LifeDown
  <2>8. pc'[p] # "main"
    BY <2>2
  <2> QED BY <1>6, <2>2, <2>5, <2>6, <2>7, <2>8, Frame
<1>9. CASE x \in DynEvts /\ ~(refCtr_[x] > 1)
  <2>1. /\ pc' = [pc EXCEPT ![p] = "put"] /\ owns' = [owns EXCEPT ![p] = FALSE]
        /\ UNCHANGED <<refCtr_, arg>>
    BY <1>1, <1>5, <1>9 DEF gc, MoreReferences
  <2>2. /\ pc' \in [Procs -> PrioPcs \cup IsrPcs] /\ pc'[p] = "put"
        /\ \A r \in Procs : r # p => pc'[r] = pc[r]
    BY <1>3, <2>1 DEF Types, ProcTypes, PrioPcs
  <2>3. /\ owns' \in [Procs -> BOOLEAN] /\ ~owns'[p]
        /\ \A r \in Procs : r # p => owns'[r] = owns[r]
    BY <1>3, <2>1 DEF Types, ProcTypes
  <2>4. Types'
    BY <1>2, <1>3, <2>1, <2>2, <2>3
       DEF Types, PoolTypes, CtrTypes, QueueTypes, ProcTypes, HandTypes, pools
  <2>5. OthersKept(p)
    BY <1>2, <2>1, <2>2, <2>3 DEF OthersKept
  <2>6. Local(p)'
    <3>1. /\ p \in Prios => ret[p] # "isr" /\ (cur[p] # NULL <=> ret[p] # "get")
          /\ p \in Isrs => ret[p] = "isr"
      BY <1>2 DEF IInv, Local, InRtc
    <3>2. x # NULL /\ "put" \in PrioPcs /\ "put" \in IsrPcs
      BY <1>4, Constants DEF PrioPcs, IsrPcs
    <3>3. p \in Prios => (cur'[p] # NULL <=> InRtc(p)')
      BY <1>2, <2>2, <3>1 DEF InRtc
    <3> QED BY <1>1, <1>2, <1>9, <2>1, <2>2, <2>3, <3>1, <3>2, <3>3 DEF Local
  <2>7. Recalled'
    BY <1>2, <2>2, <2>5, QueuedSame, RecalledKept
  <2>8. \A e \in DynEvts : /\ InQ(e)' = InQ(e) /\ InDq(e)' = InDq(e)
                           /\ InCur(e)' = InCur(e) /\ InRef(e)' = InRef(e)
                           /\ News(e)' = News(e)
    BY <1>2, CountsSame
  <2>9. ASSUME NEW e \in DynEvts, e # x PROVE Life(e)'
    <3>1. /\ InArg(e)' = InArg(e) /\ Uncounted(e)' = Uncounted(e)
          /\ Putting(e)' = Putting(e)
      BY <1>1, <2>1, <2>5, <2>9, ArgOther
    <3>2. Refs(e)' = Refs(e)
      BY <2>8, <3>1, RefsType, RefsTypeNext
    <3>3. size' = size /\ refCtr_' = refCtr_
      BY <1>2, <2>1 DEF pools
    <3> QED BY <2>8, <3>1, <3>2, <3>3, LifeSame DEF IInv
  <2>10. Life(x)'
    <3>1. /\ Allocated(x) /\ News(x) = {} /\ refCtr_[x] = Refs(x)
          /\ owns[p] => Refs(x) > 0 /\ Uncounted(x) = {}
          /\ ~owns[p] => Refs(x) = 0 /\ Uncounted(x) = {p}
      BY <1>1, <1>2, <1>9, InGc
    <3>2. Uncounted(x)' = {p}
      <4>1. \A r \in Procs : r # p => (r \in Uncounted(x)' <=> r \in Uncounted(x))
        BY <2>1, <2>3 DEF Uncounted
      <4>2. p \in Uncounted(x)'
        BY <1>1, <2>1, <2>3 DEF Uncounted
      <4>3. Uncounted(x)' \subseteq Procs
        BY DEF Uncounted
      <4>4. Uncounted(x) \subseteq {p}
        BY <3>1
      <4> QED BY <4>1, <4>2, <4>3, <4>4
    <3>3. Refs(x)' = 0
      <4> DEFINE S == {r \in Procs : arg[r] = x /\ owns[r]}
                 T == {r \in Procs : arg'[r] = x /\ owns'[r]}
      <4>1. S \subseteq Procs /\ T \subseteq Procs
        OBVIOUS
      <4>2. \A r \in Procs : r # p => (r \in S <=> r \in T)
        BY <2>1, <2>3
      <4>3. (p \in S <=> owns[p]) /\ p \notin T
        BY <1>1, <2>3
      <4>4. InArg(x) = Cardinality(S) /\ InArg(x)' = Cardinality(T)
        BY DEF InArg
      <4> HIDE DEF S, T
      <4>5. Cardinality(T) = Cardinality(S) - Has(S, p) + Has(T, p)
        BY <4>1, <4>2, CardFlip, Constants
      <4>6. Has(T, p) = 0 /\ Has(S, p) \in Nat
        BY <4>3 DEF Has
      <4>7. Refs(x) \in Nat /\ Refs(x) = Has(S, p)
        <5>1. refCtr_[x] \in Nat /\ Refs(x) \in Nat
          BY <1>3, <1>4, RefsType DEF Types, CtrTypes
        <5>2. CASE owns[p]
          BY <1>9, <3>1, <4>3, <5>1, <5>2 DEF Has
        <5>3. CASE ~owns[p]
          BY <3>1, <4>3, <5>1, <5>3 DEF Has
        <5> QED BY <5>2, <5>3
      <4> QED BY <1>9, <2>8, <4>4, <4>5, <4>6, <4>7, RefsType, RefsTypeNext
    <3>4. Putting(x)' # {}
      <4>1. p \in Putting(x)'
        BY <1>1, <2>1, <2>2 DEF Putting
      <4> QED BY <4>1
    <3>5. Allocated(x)' /\ News(x)' = {}
      BY <1>2, <1>9, <2>8, <3>1 DEF Allocated, pools
    <3> QED BY <3>2, <3>3, <3>4, <3>5 DEF Life
  <2>11. \A e \in DynEvts : Life(e)'
    BY <2>9, <2>10
  <2>12. pc[p] # "main" /\ pc'[p] # "main"
    BY <1>2, <2>2
  <2> QED BY <1>6, <2>4, <2>5, <2>6, <2>7, <2>11, <2>12, Frame
<1> QED BY <1>7, <1>8, <1>9

\* gcPut returns the block to its pool, which has given it away.
LEMMA GcPutStep ==
    ASSUME IInv, NEW p \in Procs, gcPut(p)
    PROVE  IInv'
<1>1. PICK x : x = arg[p]
  OBVIOUS
<1>2. /\ pc[p] = "put"
      /\ UNCHANGED <<QF_pool_, poolId_, refCtr_, q, dq, subscr, cur, new, ref,
                     todo, ret>>
  BY DEF gcPut
<1>3. Types
  BY DEF IInv
<1>4. x \in DynEvts /\ x \in Evts /\ ~owns[p]
  BY <1>1, <1>2, Constants DEF IInv, Local
<1>5. Allocated(x) /\ News(x) = {} /\ Refs(x) = 0 /\ Uncounted(x) = {p}
  BY <1>1, <1>2, <1>4, InGc
<1>6. PICK i : i = poolId_[x]
  OBVIOUS
<1>7. i \in DOMAIN QF_pool_ /\ x \in PoolSto[i] /\ x \notin free
  BY <1>4, <1>5, <1>6 DEF IInv, Pools
<1>8. i \in DOMAIN PoolSto
  <2>1. DOMAIN QF_pool_ = 1 .. Len(QF_pool_) /\ DOMAIN PoolSto = 1 .. Len(PoolSto)
    BY <1>3, LenProperties, EventsAssumption DEF Types, PoolTypes
  <2>2. Len(QF_pool_) <= Len(PoolSto) /\ Len(QF_pool_) \in Nat /\ Len(PoolSto) \in Nat
    BY <1>3, LenProperties, EventsAssumption DEF Types, PoolTypes
  <2> QED BY <1>7, <2>1, <2>2
<1>9. Returnable(x)
  <2> DEFINE S == PoolSto[i]
             T == free \cap S
  <2>1. IsFiniteSet(S) /\ T \subseteq S /\ T # S
    BY <1>7, <1>8, EventsAssumption
  <2> HIDE DEF S, T
  <2>2. Cardinality(T) <= Cardinality(S) /\ Cardinality(T) # Cardinality(S)
    BY <2>1, FS_Subset
  <2>3. Cardinality(S) \in Nat /\ Cardinality(T) \in Nat
    BY <2>1, FS_Subset, FS_CardinalityType
  <2>4. Cardinality(T) < Cardinality(S)
    BY <2>2, <2>3
  <2> QED BY <1>6, <1>7, <2>4 DEF Returnable, S, T
<1>10. /\ free' = free \cup {x} /\ size' = [size EXCEPT ![x] = 0]
       /\ Return(p) /\ UNCHANGED asrt
  BY <1>1, <1>9 DEF gcPut
<1>11. /\ pc' \in [Procs -> PrioPcs \cup IsrPcs]
       /\ arg' \in [Procs -> Evts \cup {NULL}] /\ owns' \in [Procs -> BOOLEAN]
       /\ OthersKept(p) /\ Local(p)'
       /\ pc[p] # "main" /\ pc'[p] \in {"get", "rtc", "flush", "isr"}
       /\ arg'[p] = NULL
  BY <1>2, <1>10, Returning
<1>12. /\ size' \in [DynEvts -> Nat] /\ size'[x] = 0
       /\ \A e \in DynEvts : e # x => size'[e] = size[e]
  BY <1>3, <1>4, <1>10 DEF Types, PoolTypes
<1>13. Types'
  BY <1>2, <1>3, <1>4, <1>10, <1>11, <1>12
     DEF Types, PoolTypes, CtrTypes, QueueTypes, ProcTypes, HandTypes
<1>14. Pools'
  BY <1>2, <1>3, <1>9, <1>10, PoolsPut DEF IInv, Types
<1>15. Recalled'
  BY <1>2, <1>11, QueuedSame, RecalledKept
<1>16. ASSUME NEW e \in DynEvts PROVE Life(e)'
  <2>1. /\ InQ(e)' = InQ(e) /\ InDq(e)' = InDq(e) /\ InCur(e)' = InCur(e)
        /\ InRef(e)' = InRef(e) /\ News(e)' = News(e)
    BY <1>2, CountsSame
  <2>2. CASE e # x
    <3>1. e # arg'[p]
      BY <1>11, Constants
    <3>2. /\ InArg(e)' = InArg(e) /\ Uncounted(e)' = Uncounted(e)
          /\ Putting(e)' = Putting(e)
      BY <1>1, <1>11, <2>2, <3>1, ArgOther
    <3>3. Refs(e)' = Refs(e)
      BY <2>1, <3>2, RefsType, RefsTypeNext
    <3> QED BY <1>2, <1>12, <2>1, <2>2, <3>2, <3>3, LifeSame DEF IInv
  <2>3. CASE e = x
    <3>1. Uncounted(x)' = {}
      <4>1. \A r \in Procs : r # p => (r \in Uncounted(x)' <=> r \in Uncounted(x))
        BY <1>11 DEF OthersKept, Uncounted
      <4>2. p \notin Uncounted(x)'
        BY <1>4, <1>11, Constants DEF Uncounted
      <4>3. Uncounted(x)' \subseteq Procs
        BY DEF Uncounted
      <4> QED BY <1>5, <4>1, <4>2, <4>3
    <3>2. InArg(x)' = InArg(x)
      <4>1. \A r \in Procs : (arg'[r] = x /\ owns'[r]) <=> (arg[r] = x /\ owns[r])
        BY <1>4, <1>11, Constants DEF OthersKept
      <4>2. {r \in Procs : arg'[r] = x /\ owns'[r]}
               = {r \in Procs : arg[r] = x /\ owns[r]}
        BY <4>1
      <4> QED BY <4>2 DEF InArg
    <3>3. Refs(x)' = 0
      BY <1>5, <2>1, <2>3, <3>2, RefsType, RefsTypeNext
    <3>4. ~Allocated(x)'
      BY <1>12 DEF Allocated
    <3> QED BY <1>5, <2>1, <2>3, <3>1, <3>3, <3>4 DEF Life
  <2> QED BY <2>2, <2>3
<1>17. NoCountingAssertion' /\ pc'[p] # "main"
  BY <1>10, <1>11 DEF IInv, NoCountingAssertion
<1> QED BY <1>11, <1>13, <1>14, <1>15, <1>16, <1>17, FramePools

\* A refused POST asserts; a refused POST_X collects the event, for which no
\* reference is counted.
LEMMA PostFailsStep ==
    ASSUME IInv, NEW p \in Procs, NEW a \in Prios, NEW x \in Evts,
           NEW margin \in Margins \cup {NoMargin}, postFails(p, a, x, margin),
           "forwardX" \notin Services
    PROVE  IInv'
<1>1. /\ AtHome(p) /\ x \in AtHand(p)
      /\ UNCHANGED <<pools, free, refCtr_, q, dq, subscr, cur, ref, todo>>
  BY DEF postFails
<1>2. CASE margin = NoMargin
  <2>1. asrt' = "post_:110" /\ UNCHANGED <<new, pc, arg, owns, ret>>
    BY <1>2 DEF postFails
  <2>2. NoCountingAssertion'
    BY <2>1 DEF NoCountingAssertion
  <2> QED BY <1>1, <2>1, <2>2, OnlyAsserts
<1>3. CASE margin # NoMargin
  <2>1. /\ x \notin Forwardable(p) /\ HandOn(p, x) /\ UNCHANGED asrt
        /\ CallGc(p, x, FALSE, Home(p))
    BY <1>3 DEF postFails
  <2>2. /\ pc' = [pc EXCEPT ![p] = "gc"] /\ arg' = [arg EXCEPT ![p] = x]
        /\ owns' = [owns EXCEPT ![p] = FALSE]
        /\ ret' = [ret EXCEPT ![p] = Home(p)]
    BY <2>1 DEF CallGc
  <2>3. Types
    BY DEF IInv
  <2>4. x \in DynEvts => Good(x) /\ News(x) \subseteq {p} /\ Refs(x) = 0
    BY <1>1, <2>1, Hand
  <2>5. /\ new' \in [Procs -> DynEvts \cup {NULL}]
        /\ \A r \in Procs : r # p => new'[r] = new[r]
        /\ \A e \in DynEvts : e # x => News(e)' = News(e)
        /\ x \in DynEvts => News(x)' = {}
    BY <2>1, <2>4, HandingOn
  <2>6. /\ arg[p] = NULL /\ ~owns[p] /\ pc[p] # "main" /\ pc[p] # "put"
        /\ p \in Prios => pc[p] = "rtc" /\ cur[p] \in Evts
    BY <1>1, HomeArg
  <2>7. /\ pc' \in [Procs -> PrioPcs \cup IsrPcs] /\ pc'[p] = "gc"
        /\ \A r \in Procs : r # p => pc'[r] = pc[r]
    BY <2>2, <2>3 DEF Types, ProcTypes, PrioPcs
  <2>8. /\ ret' \in [Procs -> {"get", "rtc", "flush", "isr"}] /\ ret'[p] = Home(p)
        /\ \A r \in Procs : r # p => ret'[r] = ret[r]
    BY <2>2, <2>3, HomeIs DEF Types, ProcTypes
  <2>9. /\ arg' \in [Procs -> Evts \cup {NULL}] /\ owns' \in [Procs -> BOOLEAN]
        /\ arg'[p] = x /\ ~owns'[p]
        /\ \A r \in Procs : r # p => arg'[r] = arg[r] /\ owns'[r] = owns[r]
    BY <2>2, <2>3 DEF Types, ProcTypes
  <2>10. Types'
    BY <1>1, <2>3, <2>5, <2>7, <2>8, <2>9
       DEF Types, PoolTypes, CtrTypes, QueueTypes, ProcTypes, HandTypes, pools
  <2>11. OthersKept(p)
    BY <1>1, <2>5, <2>7, <2>8, <2>9 DEF OthersKept
  <2>12. Local(p)'
    <3>1. p \in Prios => cur'[p] # NULL
      BY <1>1, <2>6, Constants
    <3> QED BY <2>7, <2>8, <2>9, <3>1, HomeIs, LocalCollecting
  <2>13. Recalled'
    BY <1>1, <2>7, <2>11, QueuedSame, RecalledKept
  <2>14. ASSUME NEW e \in DynEvts PROVE Life(e)'
    <3>1. /\ InQ(e)' = InQ(e) /\ InDq(e)' = InDq(e) /\ InCur(e)' = InCur(e)
          /\ InRef(e)' = InRef(e)
      BY <1>1, CountsSame
    <3>2. size' = size /\ refCtr_' = refCtr_
      BY <1>1 DEF pools
    <3>3. CASE e # x
      <4>1. e # arg[p] /\ e # arg'[p]
        BY <2>6, <2>9, <3>3, Constants
      <4>2. /\ InArg(e)' = InArg(e) /\ Uncounted(e)' = Uncounted(e)
            /\ Putting(e)' = Putting(e)
        BY <2>11, <4>1, ArgOther
      <4>3. Refs(e)' = Refs(e)
        BY <3>1, <4>2, RefsType, RefsTypeNext
      <4> QED BY <2>5, <3>2, <3>3, <4>2, <4>3, LifeSame DEF IInv
    <3>4. CASE e = x
      <4>1. Good(x) /\ Refs(x) = 0 /\ x # NULL
        BY <2>4, <3>4, Constants
      <4>2. Uncounted(x)' = {p}
        <5>1. \A r \in Procs : r # p => (r \in Uncounted(x)' <=> r \in Uncounted(x))
          BY <2>9 DEF Uncounted
        <5>2. p \in Uncounted(x)'
          BY <2>9 DEF Uncounted
        <5>3. Uncounted(x)' \subseteq Procs /\ Uncounted(x) = {}
          BY <4>1 DEF Uncounted, Good
        <5> QED BY <5>1, <5>2, <5>3
      <4>3. InArg(x)' = InArg(x)
        <5>1. \A r \in Procs : (arg'[r] = x /\ owns'[r]) <=> (arg[r] = x /\ owns[r])
          BY <2>6, <2>9
        <5>2. {r \in Procs : arg'[r] = x /\ owns'[r]}
                 = {r \in Procs : arg[r] = x /\ owns[r]}
          BY <5>1
        <5> QED BY <5>2 DEF InArg
      <4>4. Refs(x)' = 0
        BY <3>1, <3>4, <4>1, <4>3, RefsType, RefsTypeNext
      <4>5. Allocated(x)' /\ refCtr_'[x] = 0
        BY <3>2, <4>1 DEF Allocated, Good
      <4>6. News(x)' = {}
        BY <2>5, <3>4
      <4> QED BY <3>4, <4>2, <4>4, <4>5, <4>6 DEF Life
    <3> QED BY <3>3, <3>4
  <2>15. NoCountingAssertion' /\ UNCHANGED <<pools, free>>
    BY <1>1, <2>1 DEF IInv, NoCountingAssertion
  <2>16. pc'[p] # "main"
    BY <2>7
  <2> QED BY <2>6, <2>10, <2>11, <2>12, <2>13, <2>14, <2>15, <2>16, Frame
<1> QED BY <1>2, <1>3

\* newX_ takes a block of the first pool that fits: nobody refers to it.
LEMMA NewStep ==
    ASSUME IInv, NEW p \in Procs, NEW n \in EvtSizes,
           NEW margin \in Margins \cup {NoMargin}, newX_(p, n, margin)
    PROVE  IInv'
<1>1. /\ AtHome(p) /\ new[p] = NULL
      /\ UNCHANGED <<QF_pool_, q, dq, subscr, pc, cur, ref, arg, owns, todo, ret>>
  BY DEF newX_
<1>2. CASE UNCHANGED <<free, poolId_, size, new, refCtr_>>
           /\ asrt' \in {"newX_:310", "newX_:320"}
  <2>1. NoCountingAssertion'
    BY <1>2 DEF NoCountingAssertion
  <2> QED BY <1>1, <1>2, <2>1, OnlyAsserts DEF pools
<1>3. ASSUME NEW idx, idx = Min(Fitting(n)), Fitting(n) # {},
             NEW x \in free \cap PoolSto[idx], free' = free \ {x},
             poolId_' = [poolId_ EXCEPT ![x] = idx],
             size' = [size EXCEPT ![x] = n], new' = [new EXCEPT ![p] = x],
             refCtr_' = [refCtr_ EXCEPT ![x] = 0], UNCHANGED asrt
      PROVE  IInv'
  <2> USE <1>3
  <2>1. Types /\ n \in Nat /\ n # 0
    BY EventsAssumption DEF IInv
  <2>2. PoolTypes' /\ Pools'
    <3>1. Takes(n, idx, x)
      BY <1>1 DEF Takes
    <3> QED BY <3>1, PoolsTake DEF IInv, Types
  <2>3. x \in DynEvts /\ x \in Evts /\ x # NULL
    BY <2>1, Constants DEF Types, PoolTypes
  <2>4. ~Allocated(x)
    BY <2>3 DEF IInv, Pools
  <2>5. Refs(x) = 0 /\ News(x) = {} /\ Uncounted(x) = {}
    BY <2>3, <2>4 DEF IInv, Life
  <2>6. /\ size' \in [DynEvts -> Nat] /\ size'[x] = n
        /\ \A e \in DynEvts : e # x => size'[e] = size[e]
    BY <2>1, <2>3 DEF Types, PoolTypes
  <2>7. /\ refCtr_' \in [Evts -> Nat] /\ refCtr_'[x] = 0
         /\ \A e \in Evts : e # x => refCtr_'[e] = refCtr_[e]
    BY <2>1, <2>3 DEF Types, CtrTypes
  <2>8. /\ new' \in [Procs -> DynEvts \cup {NULL}] /\ new'[p] = x
         /\ \A r \in Procs : r # p => new'[r] = new[r]
    BY <2>1, <2>3 DEF Types, HandTypes
  <2>9. Types'
    <3>1. CtrTypes'
      BY <2>7 DEF CtrTypes
    <3>2. QueueTypes' /\ ProcTypes' /\ HandTypes'
      BY <1>1, <2>1, <2>8 DEF Types, QueueTypes, ProcTypes, HandTypes
    <3> QED BY <2>2, <3>1, <3>2 DEF Types
  <2>10. OthersKept(p)
    BY <1>1, <2>8 DEF OthersKept
  <2>11. Local(p)' /\ pc[p] # "main" /\ pc'[p] # "main"
    BY <1>1, HomeArg, LocalKept DEF IInv
  <2>12. Recalled'
    <3>1. p \in Prios => pc'[p] # "recallDec"
      BY <1>1, HomeArg
    <3> QED BY <1>1, <2>10, <3>1, QueuedSame, RecalledKept
  <2>13. ASSUME NEW e \in DynEvts PROVE Life(e)'
    <3>1. /\ Refs(e)' = Refs(e) /\ Uncounted(e)' = Uncounted(e)
          /\ Putting(e)' = Putting(e)
      BY <1>1, CountsSame DEF Refs
    <3>2. CASE e # x
      <4>1. News(e)' = News(e)
        BY <1>1, <2>8, <3>2, Constants DEF News
      <4> QED BY <2>6, <2>7, <3>1, <3>2, <4>1, LifeSame, Constants DEF IInv
    <3>3. CASE e = x
      <4>1. News(x)' = {p}
        <5>1. \A r \in Procs : r # p => (r \in News(x)' <=> r \in News(x))
          BY <2>8 DEF News
        <5>2. p \in News(x)' /\ News(x)' \subseteq Procs
          BY <2>8 DEF News
        <5> QED BY <2>5, <5>1, <5>2
      <4>2. Allocated(x)'
        BY <2>1, <2>6 DEF Allocated
      <4> QED BY <2>5, <2>7, <3>1, <3>3, <4>1, <4>2 DEF Life
    <3> QED BY <3>2, <3>3
  <2>14. NoCountingAssertion'
    BY DEF IInv, NoCountingAssertion
  <2> QED BY <2>2, <2>9, <2>10, <2>11, <2>12, <2>13, <2>14, FramePools
<1>4. CASE Fitting(n) = {}
  BY <1>2, <1>4 DEF newX_
<1>5. CASE Fitting(n) # {}
  <2>1. PICK idx : idx = Min(Fitting(n))
    OBVIOUS
  <2>2. \/ /\ \E x \in free \cap PoolSto[idx] :
                 /\ free' = free \ {x}
                 /\ poolId_' = [poolId_ EXCEPT ![x] = idx]
                 /\ size' = [size EXCEPT ![x] = n]
                 /\ new' = [new EXCEPT ![p] = x]
                 /\ refCtr_' = [refCtr_ EXCEPT ![x] = 0]
           /\ UNCHANGED asrt
        \/ /\ asrt' = "newX_:320"
           /\ UNCHANGED <<free, poolId_, size, new, refCtr_>>
    BY <1>5, <2>1, Zenon DEF newX_
  <2> QED BY <1>2, <1>3, <1>5, <2>1, <2>2
<1> QED BY <1>4, <1>5

\* poolInit adds a pool, whose blocks belong to no other.
LEMMA PoolInitStep ==
    ASSUME IInv, NEW n \in EvtSizes, poolInit(n)
    PROVE  IInv'
<1>1. UNCHANGED <<poolId_, size, refCtr_, q, dq, subscr, pc, cur, new, ref,
                  arg, owns, todo, ret>>
  BY DEF poolInit
<1>2. CASE asrt' = "poolInit" /\ UNCHANGED <<QF_pool_, free>>
  <2>1. NoCountingAssertion'
    BY <1>2 DEF NoCountingAssertion
  <2> QED BY <1>1, <1>2, <2>1, OnlyAsserts DEF pools
<1>3. CASE /\ Len(QF_pool_) < Len(PoolSto) /\ Ascending(n)
           /\ QF_pool_' = Append(QF_pool_, n)
           /\ free' = free \cup PoolSto[Len(QF_pool_) + 1]
           /\ UNCHANGED asrt
  <2>1. PoolTypes' /\ Pools'
    BY <1>1, <1>3, PoolsInit DEF IInv, Types
  <2>2. Types'
    BY <1>1, <2>1 DEF IInv, Types, CtrTypes, QueueTypes, ProcTypes, HandTypes
  <2>3. \A p \in Procs : Local(p)'
    BY <1>1 DEF IInv, Local, InRtc
  <2>4. Recalled' /\ Started'
    BY <1>1 DEF IInv, Recalled, Started, Queued
  <2>5. ASSUME NEW e \in DynEvts PROVE Life(e)'
    <3>1. Refs(e)' = Refs(e)
      BY <1>1 DEF Refs
    <3>2. /\ News(e)' = News(e) /\ Uncounted(e)' = Uncounted(e)
          /\ Putting(e)' = Putting(e)
      BY <1>1, CountsSame
    <3> QED BY <1>1, <3>1, <3>2, LifeSame DEF IInv
  <2>6. NoCountingAssertion'
    BY <1>3 DEF IInv, NoCountingAssertion
  <2> QED BY <2>1, <2>2, <2>3, <2>4, <2>5, <2>6 DEF IInv
<1> QED BY <1>2, <1>3 DEF poolInit

-----------------------------------------------------------------------------
(***************************************************************************)
(* The theorems.                                                           *)
(***************************************************************************)
LEMMA InitInv ==
    ASSUME Init
    PROVE  IInv
<1> USE DEF Init
<1>1. Types
  <2>1. << >> \in Seq(Nat) /\ << >> \in Seq(Evts) /\ Len(<< >>) = 0
    BY EmptySeq
  <2>2. PoolTypes
    <3>1. Len(PoolSto) \in Nat
      BY EventsAssumption, LenProperties
    <3> QED BY <2>1, <3>1 DEF PoolTypes
  <2>3. CtrTypes /\ HandTypes
    BY DEF CtrTypes, HandTypes
  <2>4. QueueTypes
    BY <2>1, Constants DEF QueueTypes
  <2>5. ProcTypes
    <3>1. \A p \in Procs : Home(p) \in {"get", "rtc", "flush", "isr"}
      BY DEF Home
    <3>2. ret \in [Procs -> {"get", "rtc", "flush", "isr"}]
      BY <3>1
    <3>3. pc \in [Procs -> PrioPcs \cup IsrPcs]
      BY DEF PrioPcs
    <3>4. /\ arg \in [Procs -> Evts \cup {NULL}] /\ owns \in [Procs -> BOOLEAN]
          /\ todo \in [Procs -> SUBSET Prios] /\ subscr \subseteq Prios
      OBVIOUS
    <3> QED BY <3>2, <3>3, <3>4 DEF ProcTypes
  <2> QED BY <2>2, <2>3, <2>4, <2>5 DEF Types
<1>2. ASSUME NEW p \in Procs PROVE Local(p)
  <2>1. pc[p] = "main" /\ arg[p] = NULL /\ ~owns[p] /\ ret[p] = Home(p)
    OBVIOUS
  <2>2. p \in Prios => cur[p] = NULL
    OBVIOUS
  <2> QED BY <2>1, <2>2, HomeIs DEF Local, InRtc, PrioPcs, IsrPcs
<1>3. Recalled /\ Started /\ NoCountingAssertion
  BY Constants DEF Recalled, Started, NoCountingAssertion
<1>4. Pools
  <2>1. DOMAIN QF_pool_ = {}
    OBVIOUS
  <2>2. \A e \in DynEvts : ~Allocated(e)
    BY DEF Allocated
  <2> QED BY <2>1, <2>2 DEF Pools, Evts
<1>5. ASSUME NEW e \in DynEvts PROVE Life(e)
  <2>1. e # NULL
    BY Constants
  <2>2. ~Allocated(e)
    BY DEF Allocated
  <2>3. Places(q, Cap, e) = {} /\ Places(dq, DeferCap, e) = {}
    <3>1. \A a \in Prios : Len(q[a]) = 0 /\ Len(dq[a]) = 0
      OBVIOUS
    <3> QED BY <3>1, Constants DEF Places
  <2>4. /\ {a \in Prios : cur[a] = e} = {} /\ {a \in Prios : ref[a] = e} = {}
        /\ {p \in Procs : arg[p] = e /\ owns[p]} = {}
    BY <2>1
  <2>5. Refs(e) = 0
    <3>1. /\ InQ(e) = 0 /\ InDq(e) = 0 /\ InCur(e) = 0 /\ InRef(e) = 0
          /\ InArg(e) = 0
      BY <2>3, <2>4, FS_EmptySet DEF InQ, InDq, InCur, InRef, InArg
    <3> QED BY <3>1, RefsType
  <2>6. News(e) = {} /\ Uncounted(e) = {}
    BY <2>1 DEF News, Uncounted
  <2> QED BY <2>2, <2>5, <2>6 DEF Life
<1> QED BY <1>1, <1>2, <1>3, <1>4, <1>5 DEF IInv

\* Every step keeps the invariant.
LEMMA NextInv ==
    ASSUME IInv, [Next]_vars, "forwardX" \notin Services
    PROVE  IInv'
<1>1. CASE UNCHANGED vars
  <2>1. /\ UNCHANGED <<pools, free, refCtr_, q, dq, subscr, pc, cur, new, ref,
                       arg, owns, todo, ret>>
        /\ NoCountingAssertion'
    BY <1>1 DEF vars, pools, IInv, NoCountingAssertion
  <2> QED BY <2>1, OnlyAsserts
<1>2. CASE run
  BY <1>2, RunStep
<1>3. CASE \E n \in EvtSizes : poolInit(n)
  BY <1>3, PoolInitStep
<1>4. ASSUME NEW p \in Procs, Produce(p) PROVE IInv'
  <2>1. CASE \E n \in EvtSizes, margin \in Margins \cup {NoMargin} :
                newX_(p, n, margin)
    BY <2>1, NewStep
  <2>2. ASSUME NEW e \in Evts, Send(p, e) PROVE IInv'
    <3>1. CASE publish_(p, e)
      BY <3>1, PublishStep
    <3>2. ASSUME NEW a \in Prios, NEW margin \in Margins \cup {NoMargin},
                 post_(p, a, e, margin) \/ postFails(p, a, e, margin)
          PROVE  IInv'
      BY <3>2, PostStep, PostFailsStep
    <3> QED BY <2>2, <3>1, <3>2 DEF Send
  <2> QED BY <1>4, <2>1, <2>2 DEF Produce
<1>5. ASSUME NEW p \in Procs, multicast(p) \/ gc(p) \/ gcPut(p) PROVE IInv'
  BY <1>5, MulticastStep, GcStep, GcPutStep
<1>6. ASSUME NEW a \in Prios,
             subscribe(a) \/ unsubscribe(a) \/ get_(a) \/ rtcEnd(a) \/ defer(a)
      PROVE  IInv'
  BY <1>6, SubscribeStep, GetStep, RtcEndStep, DeferStep
<1>7. ASSUME NEW a \in Prios, \/ recall(a) \/ recallPost(a) \/ recallDec(a)
                              \/ flushDeferred(a) \/ newRef_(a) \/ deleteRef_(a)
      PROVE  IInv'
  BY <1>7, RecallStep, RecallPostStep, RecallDecStep, FlushStep, NewRefStep,
     DeleteRefStep
<1> QED BY <1>1, <1>2, <1>3, <1>4, <1>5, <1>6, <1>7 DEF Next

\* The invariant, for applications that never POST_X an event that they were
\* given: a refused POST_X would collect somebody else's reference
\* (qf_actq.cpp:200).
LEMMA Invariance ==
    ASSUME "forwardX" \notin Services
    PROVE  Spec => []IInv
<1>1. Init => IInv
  BY InitInv
<1>2. IInv /\ [Next]_vars => IInv'
  BY NextInv
<1> QED BY <1>1, <1>2, PTL DEF Spec

\* Reference counts are exact and no event leaks: post_, publish_, defer,
\* recall, newRef_ and gc change the counter exactly when they make or give
\* up a reference.
THEOREM CountsExact ==
    ASSUME "forwardX" \notin Services
    PROVE  Spec => []RefCtrExact
<1>1. IInv => RefCtrExact
  <2> SUFFICES ASSUME IInv, NEW e \in DynEvts, InUse(e)
               PROVE  /\ refCtr_[e] = Refs(e)
                      /\ Refs(e) > 0 \/ \E p \in Procs : e \in {new[p], arg[p]}
    BY DEF RefCtrExact
  <2>1. Life(e) /\ Allocated(e) /\ Putting(e) = {} /\ Refs(e) \in Nat
    BY RefsType DEF IInv, InUse
  <2>2. refCtr_[e] = Refs(e)
    BY <2>1 DEF Life
  <2>3. ASSUME Refs(e) = 0 PROVE \E p \in Procs : e \in {new[p], arg[p]}
    <3>1. PICK p \in Procs : News(e) = {p} \/ Uncounted(e) = {p}
      BY <2>1, <2>3 DEF Life
    <3>2. p \in News(e) \/ p \in Uncounted(e)
      BY <3>1
    <3> QED BY <3>2 DEF News, Uncounted
  <2> QED BY <2>1, <2>2, <2>3
<1> QED BY <1>1, Invariance, PTL

\* Nobody refers to an event that gc() has decided to recycle, and exactly
\* one thread returns its block, although the decision and the return are two
\* critical sections (qf_dyn.cpp:196-236).
THEOREM NothingDangles ==
    ASSUME "forwardX" \notin Services
    PROVE  Spec => []NoDanglingReference
<1>1. IInv => NoDanglingReference
  <2> SUFFICES ASSUME IInv, NEW e \in DynEvts, ~InUse(e)
               PROVE  /\ Refs(e) = 0
                      /\ \A p \in Procs : new[p] # e /\ (arg[p] = e => pc[p] = "put")
                      /\ Cardinality(Putting(e)) = One(Allocated(e))
    BY DEF NoDanglingReference
  <2>1. Life(e) /\ Putting(e) \subseteq Uncounted(e)
    BY PuttingUncounted DEF IInv
  <2>2. CASE ~Allocated(e)
    <3>1. Refs(e) = 0 /\ News(e) = {} /\ Uncounted(e) = {} /\ Putting(e) = {}
      BY <2>1, <2>2 DEF Life
    <3>2. \A p \in Procs : new[p] # e
      BY <3>1 DEF News
    <3>3. \A p \in Procs : arg[p] = e => pc[p] = "put"
      <4> SUFFICES ASSUME NEW p \in Procs, arg[p] = e PROVE FALSE
        OBVIOUS
      <4>1. CASE owns[p]
        BY <3>1, <4>1, HoldsArg
      <4>2. CASE ~owns[p]
        BY <3>1, <4>2 DEF Uncounted
      <4> QED BY <4>1, <4>2
    <3>4. Cardinality(Putting(e)) = 0 /\ One(Allocated(e)) = 0
      BY <2>2, <3>1, FS_EmptySet DEF One
    <3> QED BY <3>1, <3>2, <3>3, <3>4
  <2>3. CASE Allocated(e)
    <3>1. PICK p \in Procs : p \in Putting(e)
      BY <2>3 DEF InUse, Putting
    <3>2. pc[p] = "put" /\ arg[p] = e /\ ~owns[p]
      BY <3>1 DEF Putting, IInv, Local
    <3>3. Refs(e) = 0 /\ Uncounted(e) = {p} /\ News(e) = {}
      BY <3>2, InGc
    <3>4. Putting(e) = {p}
      BY <2>1, <3>1, <3>3
    <3>5. \A r \in Procs : new[r] # e
      BY <3>3 DEF News
    <3>6. \A r \in Procs : arg[r] = e => pc[r] = "put"
      <4> SUFFICES ASSUME NEW r \in Procs, arg[r] = e PROVE pc[r] = "put"
        OBVIOUS
      <4>1. ~owns[r]
        BY <3>3, HoldsArg
      <4>2. r = p
        BY <3>3, <4>1 DEF Uncounted
      <4> QED BY <3>2, <4>2
    <3>7. Cardinality(Putting(e)) = 1 /\ One(Allocated(e)) = 1
      BY <2>3, <3>4, FS_Singleton DEF One
    <3> QED BY <3>3, <3>5, <3>6, <3>7
  <2> QED BY <2>2, <2>3
<1> QED BY <1>1, Invariance, PTL

\* Neither recall()'s check that the counter is at least 2 nor put()'s check
\* that the pool has given a block away fails.
THEOREM CountingNeverAsserts ==
    ASSUME "forwardX" \notin Services
    PROVE  Spec => []NoCountingAssertion
<1>1. IInv => NoCountingAssertion
  BY DEF IInv
<1> QED BY <1>1, Invariance, PTL

\* An event is in a block of the smallest pool that fits it: newX_ takes the
\* first one, and poolInit() has made the order ascending.
THEOREM FitsSmallest == Spec => []SmallestFit
<1>1. PoolTypes /\ Pools => SmallestFit
  <2> SUFFICES ASSUME PoolTypes, Pools, NEW e \in DynEvts, Allocated(e)
               PROVE  LET i == poolId_[e]
                      IN  /\ e \in PoolSto[i] /\ size[e] <= QF_pool_[i]
                          /\ \A j \in Fitting(size[e]) : QF_pool_[i] <= QF_pool_[j]
    BY DEF SmallestFit
  <2>1. PICK i : i = poolId_[e]
    OBVIOUS
  <2>2. /\ i \in DOMAIN QF_pool_ /\ e \in PoolSto[i] /\ size[e] <= QF_pool_[i]
        /\ \A j \in Fitting(size[e]) : i <= j
    BY <2>1 DEF Pools
  <2>3. QF_pool_ \in Seq(Nat) /\ DOMAIN QF_pool_ = 1 .. Len(QF_pool_)
    BY LenProperties DEF PoolTypes
  <2>4. ASSUME NEW j \in Fitting(size[e]) PROVE QF_pool_[i] <= QF_pool_[j]
    <3>1. j \in DOMAIN QF_pool_ /\ i <= j
      BY <2>2 DEF Fitting
    <3>2. QF_pool_[i] \in Nat /\ QF_pool_[j] \in Nat
      BY <2>2, <2>3, <3>1, ElementOfSeq
    <3>3. i = j \/ i < j
      BY <2>2, <2>3, <3>1
    <3>4. i < j => QF_pool_[i] < QF_pool_[j]
      BY <2>2, <3>1 DEF Pools
    <3> QED BY <3>2, <3>3, <3>4
  <2> QED BY <2>1, <2>2, <2>4
<1>2. Init => PoolTypes /\ Pools
  BY InitInv DEF IInv, Types
<1>3. PoolTypes /\ Pools /\ [Next]_vars => PoolTypes' /\ Pools'
  BY PoolsStep
<1> QED BY <1>1, <1>2, <1>3, PTL DEF Spec
=============================================================================
