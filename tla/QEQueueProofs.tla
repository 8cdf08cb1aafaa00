--------------------------- MODULE QEQueueProofs ----------------------------
(***************************************************************************)
(* For every ring length and every set of events: the ring of QEQueue is   *)
(* consistent and implements the bounded deque of EventQueue, provided     *)
(* that the counters are wide enough for the queue and for the margins.    *)
(***************************************************************************)
EXTENDS QEQueue, SequenceTheorems, FiniteSetTheorems, TLAPS

\* qLen + 1 and every margin asked for can be represented in a QEQueueCtr.
CountersWideEnough == /\ \A n \in QLens : n + 1 < CtrMod
                      /\ \A m \in Margins \ {NoMargin} : m < CtrMod

IInv == TypeOK /\ RingConsistent

-----------------------------------------------------------------------------
\* Initially the ring is empty and consistent.
LEMMA InitIInv == ASSUME CountersWideEnough, Init PROVE IInv
<1> USE EventAssumption, CounterAssumption DEF CountersWideEnough
<1>1. m_end \in Nat /\ m_end + 1 < CtrMod /\ Inc(m_end) = m_end + 1
  BY DEF Init, Inc
<1>2. TypeOK
  <2>1. m_ring \in [0 .. (m_end - 1) -> Evts \cup {NULL}]
    BY DEF Init
  <2>2. refCtr_ \in [Evts -> Int]
    BY DEF Init
  <2>3. held \in [Evts -> 0 .. MaxHeld]
    BY DEF Init
  <2>4. posted \in BOOLEAN
    BY DEF Init
  <2>5. /\ m_frontEvt \in Evts \cup {NULL}
        /\ m_end \in QLens
        /\ m_head \in 0 .. (CtrMod - 1)
        /\ m_tail \in 0 .. (CtrMod - 1)
        /\ m_nFree \in 0 .. (CtrMod - 1)
        /\ m_nMin \in 0 .. (CtrMod - 1)
        /\ got \in Evts \cup {NULL}
        /\ asrt \in {0, 210, 300}
    BY <1>1 DEF Init
  <2> QED BY <2>1, <2>2, <2>3, <2>4, <2>5 DEF TypeOK
<1>3. RingConsistent
  BY <1>1 DEF Init, RingConsistent, nRing, nUsed, Behind
<1> QED BY <1>2, <1>3 DEF IInv

\* With an event in the front location and a free entry, the head is a slot
\* of the ring that holds no event of the queue.
LEMMA HeadFree ==
  ASSUME CountersWideEnough, IInv, m_frontEvt # NULL, m_nFree > 0
  PROVE  /\ m_end \in Nat \ {0}
         /\ nRing = m_end - m_nFree
         /\ m_head \in 0 .. (m_end - 1)
         /\ m_tail \in 0 .. (m_end - 1)
         /\ \A k \in 0 .. (nRing - 1) : Behind(k) # m_head
         /\ \A k \in 0 .. nRing : Behind(k) \in 0 .. (m_end - 1)
  BY CounterAssumption DEF IInv, TypeOK, RingConsistent, nRing, nUsed, Behind

\* A successful post() keeps the invariant.
LEMMA PostIInv ==
  ASSUME CountersWideEnough, IInv, NEW e \in Evts, NEW margin \in Margins,
         post(e, margin)
  PROVE  IInv'
<1> USE EventAssumption, CounterAssumption DEF CountersWideEnough, IInv
<1>1. /\ m_end \in Nat /\ m_end + 1 < CtrMod
      /\ m_nFree \in Nat /\ m_nFree > 0 /\ m_nFree <= m_end + 1
      /\ m_end' = m_end /\ m_tail' = m_tail /\ asrt' = 0
      /\ m_tail \in Nat /\ e # NULL
  BY DEF TypeOK, RingConsistent, post, MarginAvailable, Trunc
<1>2. m_nFree' = m_nFree - 1
  BY <1>1 DEF Dec, post, UseOneFree
<1>3. /\ m_nMin' \in 0 .. (CtrMod - 1)
      /\ m_nFree' \in 0 .. (CtrMod - 1)
  BY <1>1, <1>2 DEF Dec, post, UseOneFree, TypeOK
<1>4. refCtr_' \in [Evts -> Int]
  BY DEF TypeOK, post, AddRef
<1>5. CASE m_frontEvt = NULL
  <2>1. m_frontEvt' = e /\ m_ring' = m_ring /\ m_head' = m_head
    BY <1>5 DEF post, InsertFIFO
  <2>2. m_nFree = m_end + 1 /\ nRing = 0 /\ nRing' = 0
    BY <1>1, <1>2, <1>5, <2>1 DEF RingConsistent, nRing, nUsed
  <2>3. RingConsistent'
    BY <1>1, <1>2, <2>1, <2>2 DEF RingConsistent, Behind, TypeOK
  <2>4. TypeOK'
    BY <1>1, <1>3, <1>4, <2>1 DEF TypeOK, post
  <2> QED BY <2>3, <2>4
<1>6. CASE m_frontEvt # NULL
  <2>1. /\ m_frontEvt' = m_frontEvt
        /\ m_ring' = [m_ring EXCEPT ![m_head] = e]
        /\ m_head' = IF m_head = 0 THEN m_end - 1 ELSE m_head - 1
    BY <1>1, <1>6, HeadFree DEF post, InsertFIFO, Dec
  <2>2. nRing \in Nat /\ nRing < m_end /\ nRing' = nRing + 1
    BY <1>1, <1>2, <1>6, <2>1 DEF nRing, nUsed, RingConsistent
  <2>3. \A k : Behind(k)' = Behind(k)
    BY <1>1 DEF Behind
  <2>4. ASSUME NEW k \in 0 .. nRing PROVE m_ring'[Behind(k)] \in Evts
    <3>1. /\ m_ring \in [0 .. (m_end - 1) -> Evts \cup {NULL}]
          /\ Behind(k) \in 0 .. (m_end - 1)
      BY <1>1, <1>6, HeadFree DEF TypeOK
    <3>2. CASE k = nRing
      <4>1. Behind(k) = m_head
        BY <1>6, <3>2 DEF RingConsistent
      <4> QED BY <2>1, <3>1, <4>1
    <3>3. CASE k # nRing
      <4>1. k \in 0 .. (nRing - 1)
        BY <2>2, <3>3
      <4>2. Behind(k) # m_head /\ m_ring[Behind(k)] \in Evts
        BY <1>1, <1>6, <4>1, HeadFree DEF RingConsistent
      <4> QED BY <2>1, <3>1, <4>2
    <3> QED BY <3>2, <3>3
  <2>5. m_head' = Behind(nRing + 1)
    BY <1>1, <1>6, <2>1, <2>2, HeadFree DEF Behind, RingConsistent
  <2>6. RingConsistent'
    BY <1>1, <1>2, <1>6, <2>1, <2>2, <2>3, <2>4, <2>5 DEF RingConsistent
  <2>7. TypeOK'
    <3>1. m_ring' \in [0 .. (m_end - 1) -> Evts \cup {NULL}]
      BY <2>1 DEF TypeOK
    <3>2. m_head' \in 0 .. (CtrMod - 1)
      BY <1>1, <1>6, <2>1, HeadFree
    <3> QED BY <1>1, <1>3, <1>4, <2>1, <3>1, <3>2 DEF TypeOK, post
  <2> QED BY <2>6, <2>7
<1> QED BY <1>5, <1>6

\* Refusing a post changes nothing but the result and the assertion.
LEMMA RefusedIInv ==
  ASSUME IInv, NEW margin \in Margins, postRefused(margin)
  PROVE  IInv'
<1>1. TypeOK'
  BY DEF IInv, TypeOK, postRefused, ring
<1>2. RingConsistent'
  BY DEF IInv, RingConsistent, postRefused, ring, nRing, nUsed, Behind
<1> QED BY <1>1, <1>2 DEF IInv

\* postLIFO() keeps the invariant.
LEMMA PostLIFOIInv ==
  ASSUME CountersWideEnough, IInv, NEW e \in Evts, postLIFO(e)
  PROVE  IInv'
<1> USE EventAssumption, CounterAssumption DEF CountersWideEnough, IInv
<1>1. CASE m_nFree = 0
  <2>1. TypeOK'
    BY <1>1 DEF TypeOK, postLIFO, ring
  <2>2. RingConsistent'
    BY <1>1 DEF RingConsistent, postLIFO, ring, nRing, nUsed, Behind
  <2> QED BY <2>1, <2>2
<1>2. CASE m_nFree # 0
  <2>1. /\ m_end \in Nat /\ m_end + 1 < CtrMod
        /\ m_nFree \in Nat /\ m_nFree > 0 /\ m_nFree <= m_end + 1
        /\ m_end' = m_end /\ m_head' = m_head /\ asrt' = 0
        /\ m_tail \in Nat /\ e # NULL /\ m_frontEvt' = e
    BY <1>2 DEF TypeOK, RingConsistent, postLIFO, InsertLIFO
  <2>2. m_nFree' = m_nFree - 1
    BY <1>2, <2>1 DEF Dec, postLIFO, UseOneFree
  <2>3. /\ m_nMin' \in 0 .. (CtrMod - 1)
        /\ m_nFree' \in 0 .. (CtrMod - 1)
    BY <1>2, <2>1, <2>2 DEF Dec, postLIFO, UseOneFree, TypeOK
  <2>4. refCtr_' \in [Evts -> Int]
    BY <1>2 DEF TypeOK, postLIFO, AddRef
  <2>5. CASE m_frontEvt = NULL
    <3>1. m_ring' = m_ring /\ m_tail' = m_tail
      BY <1>2, <2>5 DEF postLIFO, InsertLIFO
    <3>2. m_nFree = m_end + 1 /\ nRing = 0 /\ nRing' = 0
      BY <2>1, <2>2, <2>5 DEF RingConsistent, nRing, nUsed
    <3>3. RingConsistent'
      BY <2>1, <2>2, <3>1, <3>2 DEF RingConsistent, Behind, TypeOK
    <3>4. TypeOK'
      BY <2>1, <2>3, <2>4, <3>1 DEF TypeOK, postLIFO
    <3> QED BY <3>3, <3>4
  <2>6. CASE m_frontEvt # NULL
    <3>1. /\ m_tail' = IF m_tail + 1 = m_end THEN 0 ELSE m_tail + 1
          /\ m_ring' = [m_ring EXCEPT ![m_tail'] = m_frontEvt]
      BY <1>2, <2>1, <2>6, HeadFree DEF postLIFO, InsertLIFO, Inc
    <3>2. nRing \in Nat /\ nRing < m_end /\ nRing' = nRing + 1
      BY <2>1, <2>2, <2>6 DEF nRing, nUsed, RingConsistent
    <3>3. /\ m_tail' \in 0 .. (m_end - 1)
          /\ \A k \in 0 .. nRing : Behind(k + 1)' = Behind(k)
          /\ Behind(0)' = m_tail'
      BY <2>1, <2>6, <3>1, <3>2, HeadFree DEF Behind
    <3>4. \A k \in 0 .. (nRing - 1) : Behind(k) # m_tail'
      BY <2>1, <2>6, <3>1, <3>2, HeadFree DEF Behind
    <3>5. \A k \in 0 .. nRing : m_ring'[Behind(k)'] \in Evts
      <4>1. m_ring'[Behind(0)'] \in Evts
        BY <2>1, <2>6, <3>1, <3>3 DEF TypeOK
      <4>2. ASSUME NEW k \in 0 .. nRing, k # 0
            PROVE  m_ring'[Behind(k)'] \in Evts
        <5>1. k - 1 \in 0 .. (nRing - 1) /\ (k - 1) + 1 = k
          BY <3>2, <4>2
        <5>2. Behind(k)' = Behind(k - 1)
          BY <3>2, <3>3, <5>1
        <5>3. m_ring'[Behind(k - 1)] = m_ring[Behind(k - 1)]
          BY <2>1, <2>6, <3>1, <3>2, <3>3, <3>4, <5>1, HeadFree DEF TypeOK
        <5> QED BY <5>1, <5>2, <5>3 DEF RingConsistent
      <4> QED BY <4>1, <4>2
    <3>6. m_head' = Behind(nRing)'
      BY <2>1, <2>6, <3>1, <3>2, HeadFree DEF Behind, RingConsistent
    <3>7. RingConsistent'
      <4>1. (nRing - 1)' = nRing
        BY <3>2
      <4>2. /\ m_nFree' \in 0 .. (m_end' + 1)
            /\ m_frontEvt' = NULL <=> m_nFree' = m_end' + 1
            /\ m_tail' = 0 \/ m_tail' < m_end'
            /\ asrt' # 410
        BY <2>1, <2>2, <2>6, <3>3 DEF RingConsistent
      <4> QED BY <3>5, <3>6, <4>1, <4>2 DEF RingConsistent
    <3>8. TypeOK'
      <4>1. m_ring' \in [0 .. (m_end - 1) -> Evts \cup {NULL}]
        BY <3>1 DEF TypeOK
      <4>2. m_tail' \in 0 .. (CtrMod - 1)
        BY <2>1, <3>3
      <4> QED BY <2>1, <2>3, <2>4, <4>1, <4>2 DEF TypeOK, postLIFO
    <3> QED BY <3>7, <3>8
  <2> QED BY <2>5, <2>6
<1> QED BY <1>1, <1>2

\* get() keeps the invariant; in particular assertion 410 cannot fire.
LEMMA GetIInv ==
  ASSUME CountersWideEnough, IInv, get
  PROVE  IInv'
<1> USE EventAssumption, CounterAssumption DEF CountersWideEnough, IInv
<1>1. CASE m_frontEvt = NULL
  <2>1. TypeOK'
    BY <1>1 DEF TypeOK, get
  <2>2. RingConsistent'
    BY <1>1 DEF RingConsistent, get, nRing, nUsed, Behind
  <2> QED BY <2>1, <2>2
<1>2. CASE m_frontEvt # NULL
  <2>1. /\ m_end \in Nat /\ m_end + 1 < CtrMod
        /\ m_nFree \in Nat /\ m_nFree <= m_end
        /\ m_end' = m_end /\ m_head' = m_head /\ m_ring' = m_ring
        /\ m_tail \in Nat /\ m_frontEvt \in Evts
    BY <1>2 DEF TypeOK, RingConsistent, get
  <2>2. m_nFree' = m_nFree + 1
    BY <1>2, <2>1 DEF Inc, get, RemoveFront
  <2>3. /\ held' \in [Evts -> 0 .. MaxHeld]
        /\ got' \in Evts \cup {NULL}
        /\ m_nFree' \in 0 .. (CtrMod - 1)
    <3>1. /\ held \in [Evts -> 0 .. MaxHeld] /\ MaxHeld \in Nat
          /\ held[m_frontEvt] < MaxHeld
          /\ held' = [held EXCEPT ![m_frontEvt] = @ + 1] /\ got' = m_frontEvt
      BY <1>2 DEF get, TypeOK
    <3>2. held[m_frontEvt] + 1 \in 0 .. MaxHeld
      BY <2>1, <3>1
    <3>3. held' \in [Evts -> 0 .. MaxHeld]
      BY <3>1, <3>2
    <3>4. m_nFree' \in 0 .. (CtrMod - 1)
      BY <2>1, <2>2
    <3> QED BY <2>1, <3>1, <3>3, <3>4
  <2>4. nRing = m_end - m_nFree
    BY <1>2, <2>1 DEF nRing, nUsed
  <2>5. CASE m_nFree' <= m_end
    <3>1. /\ m_frontEvt' = m_ring[m_tail]
          /\ m_tail' = IF m_tail = 0 THEN m_end - 1 ELSE m_tail - 1
          /\ asrt' = 0
      BY <1>2, <2>1, <2>2, <2>5 DEF get, RemoveFront, Dec, RingConsistent
    <3>2. /\ nRing \in Nat /\ nRing >= 1 /\ nRing <= m_end
          /\ m_tail < m_end /\ m_tail' \in 0 .. (m_end - 1)
      BY <2>1, <2>2, <2>4, <2>5, <3>1 DEF RingConsistent
    <3>3. m_ring[m_tail] \in Evts
      <4>1. Behind(0) = m_tail
        BY <2>1 DEF Behind
      <4> QED BY <3>2, <4>1 DEF RingConsistent
    <3>4. nRing' = nRing - 1
      BY <2>1, <2>2, <2>4, <3>1, <3>2, <3>3 DEF nRing, nUsed
    <3>5. \A k \in 0 .. (nRing - 1) : Behind(k)' = Behind(k + 1)
      BY <2>1, <3>1, <3>2 DEF Behind
    <3>6. \A k \in 0 .. (nRing - 2) : m_ring'[Behind(k)'] \in Evts
      <4>1. ASSUME NEW k \in 0 .. (nRing - 2)
            PROVE  k + 1 \in 0 .. (nRing - 1) /\ k \in 0 .. (nRing - 1)
        BY <3>2
      <4> QED BY <2>1, <3>5, <4>1 DEF RingConsistent
    <3>7. m_head' = Behind(nRing)'
      BY <2>1, <3>1, <3>2, <3>4 DEF Behind, RingConsistent
    <3>8. RingConsistent'
      <4>1. (nRing - 1)' = nRing - 2
        BY <3>2, <3>4
      <4>2. /\ m_nFree' \in 0 .. (m_end' + 1)
            /\ m_frontEvt' = NULL <=> m_nFree' = m_end' + 1
            /\ m_tail' = 0 \/ m_tail' < m_end'
            /\ asrt' # 410
        BY <2>1, <2>2, <2>5, <3>1, <3>2, <3>3
      <4> QED BY <3>6, <3>7, <4>1, <4>2 DEF RingConsistent
    <3>9. TypeOK'
      <4>1. m_tail' \in 0 .. (CtrMod - 1)
        BY <2>1, <3>2
      <4> QED BY <1>2, <2>1, <2>3, <3>1, <3>3, <4>1 DEF TypeOK, get
    <3> QED BY <3>8, <3>9
  <2>6. CASE ~(m_nFree' <= m_end)
    <3>1. m_frontEvt' = NULL /\ m_tail' = m_tail /\ m_nFree = m_end /\ asrt' = 0
      BY <1>2, <2>1, <2>2, <2>6 DEF get, RemoveFront
    <3>2. nRing = 0 /\ nRing' = 0
      BY <2>1, <2>4, <3>1 DEF nRing
    <3>3. RingConsistent'
      BY <2>1, <2>2, <3>1, <3>2 DEF RingConsistent, Behind
    <3>4. TypeOK'
      BY <2>1, <2>3, <3>1 DEF TypeOK, get
    <3> QED BY <3>3, <3>4
  <2> QED BY <2>5, <2>6
<1> QED BY <1>1, <1>2

\* Collecting a reference, and a stuttering step, leave the ring alone.
LEMMA GcIInv ==
  ASSUME IInv, NEW e \in Evts, gc(e)
  PROVE  IInv'
<1> USE EventAssumption DEF IInv
<1>1. held' \in [Evts -> 0 .. MaxHeld] /\ refCtr_' \in [Evts -> Int]
  <2>1. /\ held \in [Evts -> 0 .. MaxHeld] /\ refCtr_ \in [Evts -> Int]
        /\ MaxHeld \in Nat
    BY DEF TypeOK
  <2>2. held[e] - 1 \in 0 .. MaxHeld /\ refCtr_[e] - 1 \in Int
    BY <2>1 DEF gc
  <2>3. held' \in [Evts -> 0 .. MaxHeld]
    BY <2>1, <2>2 DEF gc
  <2> QED BY <2>1, <2>2, <2>3 DEF gc
<1>2. TypeOK'
  BY <1>1 DEF TypeOK, gc, ring
<1>3. RingConsistent'
  BY DEF RingConsistent, gc, ring, nRing, nUsed, Behind
<1> QED BY <1>2, <1>3

\* So does a step that changes nothing.
LEMMA StutterIInv == ASSUME IInv, UNCHANGED vars PROVE IInv'
<1>1. TypeOK'
  BY DEF IInv, TypeOK, vars
<1>2. RingConsistent'
  BY DEF IInv, RingConsistent, vars, nRing, nUsed, Behind
<1> QED BY <1>1, <1>2 DEF IInv

\* The invariant is inductive.
LEMMA Invariance == ASSUME CountersWideEnough PROVE Spec => []IInv
<1>1. Init => IInv
  BY InitIInv
<1>2. IInv /\ [Next]_vars => IInv'
  <2> SUFFICES ASSUME IInv, [Next]_vars PROVE IInv'
    OBVIOUS
  <2>1. ASSUME NEW e \in Evts, NEW margin \in Margins, post(e, margin)
        PROVE  IInv'
    BY <2>1, PostIInv
  <2>2. ASSUME NEW margin \in Margins, postRefused(margin) PROVE IInv'
    BY <2>2, RefusedIInv
  <2>3. ASSUME NEW e \in Evts, postLIFO(e) PROVE IInv'
    BY <2>3, PostLIFOIInv
  <2>4. ASSUME NEW e \in Evts, gc(e) PROVE IInv'
    BY <2>4, GcIInv
  <2>5. ASSUME get PROVE IInv'
    BY <2>5, GetIInv
  <2>6. ASSUME UNCHANGED vars PROVE IInv'
    BY <2>6, StutterIInv
  <2> QED BY <2>1, <2>2, <2>3, <2>4, <2>5, <2>6 DEF Next
<1> QED BY <1>1, <1>2, PTL DEF Spec

\* Every variable of the queue keeps its type, for every ring length; the
\* counters do not overflow and the queue stops only on assertion 210 or 300.
THEOREM Typing == ASSUME CountersWideEnough PROVE Spec => []TypeOK
<1>1. IInv => TypeOK
  BY DEF IInv
<1> QED BY <1>1, Invariance, PTL

\* Head, tail, free count and front location always agree, and assertion 410
\* of get() never fires.
THEOREM Consistency == ASSUME CountersWideEnough PROVE Spec => []RingConsistent
<1>1. IInv => RingConsistent
  BY DEF IInv
<1> QED BY <1>1, Invariance, PTL

-----------------------------------------------------------------------------
\* The ring read from the front is a sequence of events, one per entry that
\* is not free.
ContentsFromRing ==
  /\ Contents \in Seq(Evts)
  /\ Len(Contents) = m_end + 1 - m_nFree
  /\ \A i \in 1 .. Len(Contents) :
        Contents[i] = IF i = 1 THEN m_frontEvt ELSE m_ring[Behind(i - 2)]

\* A consistent ring can be read this way.
LEMMA ContentsSeq == IInv => ContentsFromRing
<1> SUFFICES ASSUME IInv PROVE ContentsFromRing
  OBVIOUS
<1> USE EventAssumption, CounterAssumption DEF IInv
<1>1. m_end \in Nat /\ m_nFree \in 0 .. (m_end + 1) /\ nUsed \in Nat
  BY DEF TypeOK, RingConsistent, nUsed
<1>2. CASE m_frontEvt = NULL
  BY <1>1, <1>2 DEF Contents, RingConsistent, ContentsFromRing
<1>3. CASE m_frontEvt # NULL
  <2> DEFINE elt(i) == IF i = 1 THEN m_frontEvt ELSE m_ring[Behind(i - 2)]
  <2>1. Contents = [i \in 1 .. nUsed |-> elt(i)]
    BY <1>3 DEF Contents
  <2>2. ASSUME NEW i \in 1 .. nUsed PROVE elt(i) \in Evts
    <3>1. CASE i = 1
      BY <1>3, <3>1 DEF TypeOK
    <3>2. CASE i # 1
      <4>1. i - 2 \in 0 .. (nRing - 1)
        BY <1>1, <1>3, <3>2 DEF nRing
      <4> QED BY <3>2, <4>1 DEF RingConsistent
    <3> QED BY <3>1, <3>2
  <2> HIDE DEF elt
  <2>3. Contents \in Seq(Evts)
    BY <1>1, <2>1, <2>2, IsASeq
  <2>4. Len(Contents) = nUsed
    BY <1>1, <2>1, <2>3
  <2> QED BY <2>1, <2>3, <2>4 DEF elt, nUsed, ContentsFromRing
<1> QED BY <1>2, <1>3

\* The same after a step.
LEMMA ContentsSeqNext == IInv' => ContentsFromRing'
  BY ContentsSeq, PTL

\* A FIFO post appends to the contents.
LEMMA PostAppends ==
  ASSUME CountersWideEnough, IInv, IInv', NEW e \in Evts,
         NEW margin \in Margins, post(e, margin)
  PROVE  Contents' = Append(Contents, e)
<1> USE EventAssumption, CounterAssumption DEF CountersWideEnough, IInv
<1>0. ContentsFromRing /\ ContentsFromRing'
  BY ContentsSeq, ContentsSeqNext
<1>1. /\ m_end \in Nat /\ m_nFree \in Nat /\ m_nFree > 0
      /\ m_nFree <= m_end + 1 /\ m_end' = m_end /\ m_tail' = m_tail
      /\ m_nFree' = m_nFree - 1
  BY DEF TypeOK, RingConsistent, post, MarginAvailable, Trunc, Dec, UseOneFree
<1>2. Len(Contents') = Len(Contents) + 1
  <2>1. Len(Contents') = m_end' + 1 - m_nFree'
    BY <1>0 DEF ContentsFromRing
  <2> QED BY <1>1, <2>1, <1>0 DEF ContentsFromRing
<1>3. Contents' \in Seq(Evts)
  BY <1>0 DEF ContentsFromRing
<1>4. ASSUME NEW i \in 1 .. Len(Contents')
      PROVE  Contents'[i] = Append(Contents, e)[i]
  <2>1. Contents'[i] = IF i = 1 THEN m_frontEvt' ELSE m_ring'[Behind(i - 2)']
    BY <1>4, <1>0 DEF ContentsFromRing
  <2>2. CASE m_frontEvt = NULL
    <3>1. Len(Contents) = 0 /\ i = 1 /\ m_frontEvt' = e
      BY <1>1, <1>2, <2>2, <1>0 DEF RingConsistent, post, InsertFIFO, ContentsFromRing
    <3> QED BY <2>1, <3>1, AppendProperties, <1>0 DEF ContentsFromRing
  <2>3. CASE m_frontEvt # NULL
    <3>1. /\ m_frontEvt' = m_frontEvt
          /\ m_ring' = [m_ring EXCEPT ![m_head] = e]
      BY <2>3 DEF post, InsertFIFO
    <3>2. nRing = Len(Contents) - 1 /\ nRing \in Nat
      <4>1. /\ Len(Contents) = m_end + 1 - m_nFree
            /\ m_frontEvt = NULL <=> m_nFree = m_end + 1
        BY <1>0 DEF RingConsistent, ContentsFromRing
      <4> QED BY <1>1, <2>3, <4>1 DEF nRing, nUsed
    <3>3. \A k : Behind(k)' = Behind(k)
      BY <1>1 DEF Behind
    <3>4. CASE i = 1
      BY <2>1, <3>1, <3>2, <3>4, AppendProperties, <1>0 DEF ContentsFromRing
    <3>5. CASE i > 1 /\ i <= Len(Contents)
      <4>1. i - 2 \in 0 .. (nRing - 1)
        BY <3>2, <3>5
      <4>2. m_ring'[Behind(i - 2)] = m_ring[Behind(i - 2)]
        <5>1. Behind(i - 2) # m_head /\ Behind(i - 2) \in 0 .. (m_end - 1)
          BY <1>1, <2>3, <3>2, <4>1, HeadFree
        <5> QED BY <3>1, <5>1 DEF TypeOK
      <4> QED BY <2>1, <3>2, <3>3, <3>5, <4>2, AppendProperties, <1>0 DEF ContentsFromRing
    <3>6. CASE i = Len(Contents) + 1
      <4>1. i - 2 = nRing /\ i # 1
        BY <3>2, <3>6
      <4>2. m_ring'[Behind(i - 2)] = e
        BY <1>1, <2>3, <3>1, <4>1, HeadFree DEF TypeOK, RingConsistent
      <4> QED BY <2>1, <3>2, <3>3, <3>6, <4>1, <4>2, AppendProperties, <1>0 DEF ContentsFromRing
    <3> QED BY <1>2, <3>2, <3>4, <3>5, <3>6
  <2> QED BY <2>2, <2>3
<1>5. Append(Contents, e) \in Seq(Evts) /\ Len(Append(Contents, e)) = Len(Contents) + 1
  BY <1>0, AppendProperties DEF ContentsFromRing
<1> QED BY <1>2, <1>3, <1>4, <1>5, SeqEqual

\* A LIFO post puts the event before the contents.
LEMMA PostLIFOPrepends ==
  ASSUME CountersWideEnough, IInv, IInv', NEW e \in Evts, postLIFO(e),
         m_nFree # 0
  PROVE  Contents' = <<e>> \o Contents
<1> USE EventAssumption, CounterAssumption DEF CountersWideEnough, IInv
<1>0. ContentsFromRing /\ ContentsFromRing'
  BY ContentsSeq, ContentsSeqNext
<1>1. /\ m_end \in Nat /\ m_nFree \in Nat /\ m_nFree > 0
      /\ m_nFree <= m_end + 1 /\ m_end' = m_end /\ m_frontEvt' = e
      /\ m_nFree' = m_nFree - 1 /\ m_tail \in Nat
  BY DEF TypeOK, RingConsistent, postLIFO, Dec, UseOneFree, InsertLIFO
<1>2. Len(Contents') = Len(Contents) + 1
  <2>1. Len(Contents') = m_end' + 1 - m_nFree'
    BY <1>0 DEF ContentsFromRing
  <2> QED BY <1>1, <2>1, <1>0 DEF ContentsFromRing
<1>3. Contents' \in Seq(Evts)
  BY <1>0 DEF ContentsFromRing
<1>4. /\ <<e>> \o Contents \in Seq(Evts)
      /\ Len(<<e>> \o Contents) = Len(Contents) + 1
      /\ \A i \in 1 .. (Len(Contents) + 1) :
            (<<e>> \o Contents)[i] = IF i = 1 THEN e ELSE Contents[i - 1]
  <2>1. Contents \in Seq(Evts)
    BY <1>0 DEF ContentsFromRing
  <2> QED BY <2>1, ConcatProperties
<1>5. ASSUME NEW i \in 1 .. Len(Contents')
      PROVE  Contents'[i] = (<<e>> \o Contents)[i]
  <2>1. Contents'[i] = IF i = 1 THEN m_frontEvt' ELSE m_ring'[Behind(i - 2)']
    BY <1>5, <1>0 DEF ContentsFromRing
  <2>2. CASE i = 1
    BY <1>1, <1>2, <1>4, <2>1, <2>2
  <2>3. CASE i # 1
    <3>0. /\ Len(Contents) = m_end + 1 - m_nFree
          /\ m_frontEvt = NULL <=> m_nFree = m_end + 1
      BY <1>0 DEF RingConsistent, ContentsFromRing
    <3>1. m_frontEvt # NULL
      <4>1. m_nFree # m_end + 1
        BY <1>1, <1>2, <1>5, <2>3, <3>0
      <4> QED BY <3>0, <4>1
    <3>2. /\ m_tail' = IF m_tail + 1 = m_end THEN 0 ELSE m_tail + 1
          /\ m_ring' = [m_ring EXCEPT ![m_tail'] = m_frontEvt]
      <4>1. m_tail < m_end /\ m_end + 1 < CtrMod
        <5>1. m_tail \in 0 .. (m_end - 1)
          BY <1>1, <3>1, HeadFree
        <5>2. m_end + 1 < CtrMod
          BY DEF TypeOK
        <5> QED BY <1>1, <5>1, <5>2
      <4>2. Inc(m_tail) = m_tail + 1
        BY <1>1, <4>1 DEF Inc
      <4>3. InsertLIFO(e)
        BY <1>1 DEF postLIFO
      <4> QED BY <3>1, <4>2, <4>3 DEF InsertLIFO
    <3>3. nRing = Len(Contents) - 1 /\ nRing \in Nat /\ nRing < m_end
      BY <1>1, <3>0, <3>1 DEF nRing, nUsed
    <3>4. m_tail' \in 0 .. (m_end - 1)
      BY <1>1, <3>1, <3>2, HeadFree
    <3>5. CASE i = 2
      <4>1. Behind(i - 2)' = m_tail'
        <5>1. i - 2 = 0
          BY <3>5
        <5>2. m_tail' \in Nat
          BY <1>1, <3>4
        <5>3. Behind(0)' = m_tail'
          BY <1>1, <3>2, <3>4, <5>2 DEF Behind
        <5> QED BY <5>1, <5>3
      <4>2. m_ring'[m_tail'] = m_frontEvt
        BY <3>2, <3>4 DEF TypeOK
      <4> QED BY <1>2, <1>4, <2>1, <3>3, <3>5, <4>1, <4>2, <1>0 DEF ContentsFromRing
    <3>6. CASE i # 2
      <4>1. i - 3 \in 0 .. (nRing - 1) /\ i - 1 \in 1 .. Len(Contents)
        BY <1>2, <2>3, <3>3, <3>6
      <4>2. Behind(i - 2)' = Behind(i - 3)
        BY <1>1, <3>1, <3>2, <3>3, <4>1, HeadFree DEF Behind
      <4>3. Behind(i - 3) # m_tail' /\ Behind(i - 3) \in 0 .. (m_end - 1)
        BY <1>1, <3>1, <3>2, <3>3, <4>1, HeadFree DEF Behind
      <4>4. m_ring'[Behind(i - 3)] = m_ring[Behind(i - 3)]
        BY <3>2, <4>3 DEF TypeOK
      <4>5. Contents[i - 1] = m_ring[Behind(i - 3)]
        BY <2>3, <3>6, <4>1, <1>0 DEF ContentsFromRing
      <4> QED BY <1>2, <1>4, <2>1, <2>3, <4>2, <4>4, <4>5
    <3> QED BY <3>5, <3>6
  <2> QED BY <2>2, <2>3
<1> QED BY <1>2, <1>3, <1>4, <1>5, SeqEqual

\* A get() from a queue that is not empty removes the head of the contents.
LEMMA GetTakesHead ==
  ASSUME CountersWideEnough, IInv, IInv', get, m_frontEvt # NULL
  PROVE  Contents # <<>> /\ Head(Contents) = m_frontEvt /\ Contents' = Tail(Contents)
<1> USE EventAssumption, CounterAssumption DEF CountersWideEnough, IInv
<1>0. ContentsFromRing /\ ContentsFromRing'
  BY ContentsSeq, ContentsSeqNext
<1>1. /\ m_end \in Nat /\ m_end + 1 < CtrMod
      /\ m_nFree \in Nat /\ m_nFree <= m_end
      /\ m_end' = m_end /\ m_ring' = m_ring /\ m_tail \in Nat
  BY DEF TypeOK, RingConsistent, get
<1>2. m_nFree' = m_nFree + 1
  BY <1>1 DEF Inc, get, RemoveFront
<1>3. Len(Contents) >= 1 /\ Len(Contents') = Len(Contents) - 1
  <2>1. Len(Contents') = m_end' + 1 - m_nFree'
    BY <1>0 DEF ContentsFromRing
  <2>2. Len(Contents) = m_end + 1 - m_nFree
    BY <1>0 DEF ContentsFromRing
  <2> QED BY <1>1, <1>2, <2>1, <2>2
<1>4. Contents # <<>> /\ Contents[1] = m_frontEvt
  BY <1>3, <1>0, EmptySeq DEF ContentsFromRing
<1>5. Contents' \in Seq(Evts)
  BY <1>0 DEF ContentsFromRing
<1>6. /\ Tail(Contents) \in Seq(Evts)
      /\ Len(Tail(Contents)) = Len(Contents) - 1
      /\ \A i \in 1 .. Len(Tail(Contents)) : Tail(Contents)[i] = Contents[i + 1]
  <2>1. Contents \in Seq(Evts)
    BY <1>0 DEF ContentsFromRing
  <2> QED BY <1>4, <2>1, HeadTailProperties
<1>7. ASSUME NEW i \in 1 .. Len(Contents')
      PROVE  Contents'[i] = Tail(Contents)[i]
  <2>1. Contents'[i] = IF i = 1 THEN m_frontEvt' ELSE m_ring'[Behind(i - 2)']
    BY <1>7, <1>0 DEF ContentsFromRing
  <2>2. m_nFree' <= m_end
    BY <1>1, <1>2, <1>3, <1>7, <1>0 DEF ContentsFromRing
  <2>3. /\ m_frontEvt' = m_ring[m_tail]
        /\ m_tail' = IF m_tail = 0 THEN m_end - 1 ELSE m_tail - 1
    BY <1>1, <1>2, <2>2 DEF get, RemoveFront, Dec, RingConsistent
  <2>4. Contents[i + 1] = m_ring[Behind(i - 1)]
    <3>1. i + 1 \in 1 .. Len(Contents) /\ i + 1 # 1 /\ (i + 1) - 2 = i - 1
      BY <1>3, <1>7
    <3> QED BY <3>1, <1>0 DEF ContentsFromRing
  <2>5. CASE i = 1
    <3>1. Behind(i - 1) = m_tail
      BY <1>1, <2>5 DEF Behind
    <3> QED BY <1>3, <1>6, <1>7, <2>1, <2>3, <2>4, <2>5, <3>1
  <2>6. CASE i # 1
    <3>1. Behind(i - 2)' = Behind(i - 1)
      <4>1. Len(Contents) = m_end + 1 - m_nFree
        BY <1>0 DEF ContentsFromRing
      <4>2. i \in Nat /\ i >= 2 /\ i <= m_end
        BY <1>1, <1>3, <1>7, <2>6, <4>1
      <4> QED BY <1>1, <2>3, <4>2 DEF Behind
    <3> QED BY <1>1, <1>3, <1>6, <1>7, <2>1, <2>4, <2>6, <3>1
  <2> QED BY <2>5, <2>6
<1>8. Contents' = Tail(Contents)
  BY <1>3, <1>5, <1>6, <1>7, SeqEqual
<1> QED BY <1>4, <1>8

-----------------------------------------------------------------------------
\* The free count of the code is the free count of the deque.
LEMMA FreeIsnFree == ASSUME IInv PROVE Deque!Free = m_nFree
  BY ContentsSeq, CounterAssumption
     DEF Deque!Free, ContentsFromRing, IInv, TypeOK, RingConsistent

\* post() tests its margin the way the deque does.
LEMMA FitsIsMarginAvailable ==
  ASSUME CountersWideEnough, IInv, NEW margin \in Margins
  PROVE  Deque!Fits(margin) <=> MarginAvailable(margin)
<1>1. CASE margin = NoMargin
  BY <1>1, FreeIsnFree DEF Deque!Fits, MarginAvailable
<1>2. CASE margin # NoMargin
  <2>1. margin \in Nat /\ margin < CtrMod /\ CtrMod \in Nat
    BY <1>2, EventAssumption, CounterAssumption DEF CountersWideEnough
  <2>2. Trunc(margin) = margin
    BY <2>1 DEF Trunc
  <2> QED BY <1>2, <2>2, FreeIsnFree DEF Deque!Fits, MarginAvailable
<1> QED BY <1>1, <1>2

\* The low-water mark of the code is that of the deque.
LEMMA LowWater ==
  ASSUME IInv, m_nFree > 0, UseOneFree
  PROVE  m_nMin' = Deque!Lower(m_nMin, Deque!Free - 1)
<1>1. m_nFree \in Nat /\ m_nMin \in Nat
  BY CounterAssumption DEF IInv, TypeOK
<1>2. Dec(m_nFree) = m_nFree - 1
  BY <1>1 DEF Dec
<1> QED BY <1>1, <1>2, FreeIsnFree DEF UseOneFree, Deque!Lower

\* Every step of the ring is a step of the deque or leaves it unchanged.
LEMMA StepRefines ==
  ASSUME CountersWideEnough, IInv, IInv', [Next]_vars
  PROVE  [Deque!Next]_(Deque!vars)
<1>1. ASSUME NEW e \in Evts, NEW margin \in Margins, post(e, margin)
      PROVE  Deque!Post(e, margin)
  <2>1. m_nFree > 0 /\ Deque!Fits(margin)
    <3>1. m_nFree \in Nat /\ Deque!Fits(margin)
      BY <1>1, FitsIsMarginAvailable, CounterAssumption DEF post, IInv, TypeOK
    <3>2. CASE margin = NoMargin
      BY <1>1, <3>1, <3>2 DEF post, MarginAvailable
    <3>3. CASE margin # NoMargin
      <4>1. margin \in Nat
        BY <3>3, EventAssumption
      <4> QED BY <3>1, <3>3, <4>1, FreeIsnFree DEF Deque!Fits
    <3> QED BY <3>2, <3>3
  <2>2. m_nMin' = Deque!Lower(m_nMin, Deque!Free - 1)
    BY <1>1, <2>1, LowWater DEF post
  <2>3. Contents' = Append(Contents, e)
    BY <1>1, PostAppends
  <2> QED BY <1>1, <2>1, <2>2, <2>3 DEF post, Deque!Post
<1>2. ASSUME NEW margin \in Margins, postRefused(margin)
      PROVE  Deque!Refuse(margin)
  <2>1. Contents' = Contents
    BY <1>2 DEF postRefused, ring, Contents, nUsed, Behind
  <2>2. ~Deque!Fits(margin)
    BY <1>2, FitsIsMarginAvailable DEF postRefused
  <2> QED BY <1>2, <2>1, <2>2 DEF postRefused, ring, Deque!Refuse
<1>3. ASSUME NEW e \in Evts, postLIFO(e)
      PROVE  Deque!PostLIFO(e)
  <2>1. CASE m_nFree = 0
    <3>1. Contents' = Contents
      BY <1>3, <2>1 DEF postLIFO, ring, Contents, nUsed, Behind
    <3> QED BY <1>3, <2>1, <3>1, FreeIsnFree DEF postLIFO, ring, Deque!PostLIFO
  <2>2. CASE m_nFree # 0
    <3>1. m_nFree > 0
      BY <2>2, CounterAssumption DEF IInv, TypeOK
    <3>2. m_nMin' = Deque!Lower(m_nMin, Deque!Free - 1)
      BY <1>3, <2>2, <3>1, LowWater DEF postLIFO
    <3>3. Contents' = <<e>> \o Contents
      BY <1>3, <2>2, PostLIFOPrepends
    <3> QED BY <1>3, <2>2, <3>2, <3>3, FreeIsnFree DEF postLIFO, Deque!PostLIFO
  <2> QED BY <2>1, <2>2
<1>4. ASSUME get PROVE Deque!Get
  <2>1. CASE m_frontEvt = NULL
    <3>1. Contents = <<>> /\ Contents' = <<>>
      BY <1>4, <2>1 DEF get, Contents
    <3> QED BY <1>4, <2>1, <3>1 DEF get, Deque!Get
  <2>2. CASE m_frontEvt # NULL
    <3>1. asrt' = 0
      <4>1. asrt' # 410
        BY DEF IInv, RingConsistent
      <4> QED BY <1>4, <2>2, <4>1 DEF get, RemoveFront
    <3> QED BY <1>4, <2>2, <3>1, GetTakesHead DEF get, Deque!Get
  <2> QED BY <2>1, <2>2
<1>5. ASSUME NEW e \in Evts, gc(e) PROVE UNCHANGED Deque!vars
  BY <1>5 DEF gc, ring, Contents, nUsed, Behind, Deque!vars
<1>6. ASSUME UNCHANGED vars PROVE UNCHANGED Deque!vars
  BY <1>6 DEF vars, Contents, nUsed, Behind, Deque!vars
<1> QED BY <1>1, <1>2, <1>3, <1>4, <1>5, <1>6 DEF Next, Deque!Next

\* For every ring length the ring with its front location implements the
\* bounded deque: the order of delivery, the margins, the low-water mark,
\* the results of post() and get() and the overflow assertions are its.
THEOREM Refinement == ASSUME CountersWideEnough PROVE Spec => ImplementsDeque
<1>1. Init => Deque!Init
  <2> SUFFICES ASSUME Init PROVE Deque!Init
    OBVIOUS
  <2>1. m_end \in Nat /\ m_end + 1 < CtrMod /\ Inc(m_end) = m_end + 1
    BY CounterAssumption DEF Init, Inc, CountersWideEnough
  <2> QED BY <2>1 DEF Init, Deque!Init, Contents
<1>2. IInv /\ IInv' /\ [Next]_vars => [Deque!Next]_(Deque!vars)
  BY StepRefines
<1> QED BY <1>1, <1>2, Invariance, PTL DEF Spec, ImplementsDeque, Deque!Spec

-----------------------------------------------------------------------------
(***************************************************************************)
(* Reference counters: what an operation does to the contents changes the  *)
(* number of places of an event by the references it makes or takes.       *)
(***************************************************************************)
Positions(q, e) == {k \in DOMAIN q : q[k] = e}
Is(x, e) == IF x = e THEN 1 ELSE 0

\* A sequence has finitely many positions.
LEMMA PositionsFinite ==
  ASSUME NEW q \in Seq(Evts), NEW e
  PROVE  IsFiniteSet(Positions(q, e)) /\ Cardinality(Positions(q, e)) \in Nat
<1>1. IsFiniteSet(1 .. Len(q)) /\ DOMAIN q = 1 .. Len(q)
  BY FS_Interval, LenProperties
<1>2. Positions(q, e) \in SUBSET (1 .. Len(q))
  BY <1>1 DEF Positions
<1> QED BY <1>1, <1>2, FS_Subset, FS_CardinalityType

\* An event is appended.
LEMMA AppendCounts ==
  ASSUME NEW q \in Seq(Evts), NEW x \in Evts, NEW e
  PROVE  Cardinality(Positions(Append(q, x), e))
            = Cardinality(Positions(q, e)) + Is(x, e)
<1> DEFINE r == Append(q, x)
           n == Len(q)
<1>1. /\ n \in Nat /\ DOMAIN q = 1 .. n /\ DOMAIN r = 1 .. n + 1 /\ r[n + 1] = x
      /\ \A k \in 1 .. n : r[k] = q[k]
  BY AppendProperties, LenProperties
<1> HIDE DEF r, n
<1>2. IsFiniteSet(Positions(q, e)) /\ Cardinality(Positions(q, e)) \in Nat
  BY PositionsFinite
<1>3. CASE x = e
  <2>1. Positions(r, e) = Positions(q, e) \cup {n + 1}
    BY <1>1, <1>3 DEF Positions
  <2>2. n + 1 \notin Positions(q, e)
    BY <1>1 DEF Positions
  <2>3. Cardinality(Positions(r, e)) = Cardinality(Positions(q, e)) + 1
    BY <1>2, <2>1, <2>2, FS_AddElement
  <2> QED BY <1>3, <2>3 DEF Is, r
<1>4. CASE x # e
  <2>1. Positions(r, e) = Positions(q, e)
    BY <1>1, <1>4 DEF Positions
  <2> QED BY <1>2, <1>4, <2>1 DEF Is, r
<1> QED BY <1>3, <1>4

\* r is q with x in front of it.
Before(x, q, r) == /\ DOMAIN r = 1 .. Len(q) + 1 /\ r[1] = x
                   /\ \A k \in 1 .. Len(q) : r[k + 1] = q[k]

\* An event is put in front.
LEMMA PrependCounts ==
  ASSUME NEW q \in Seq(Evts), NEW r, NEW x \in Evts, Before(x, q, r), NEW e
  PROVE  Cardinality(Positions(r, e)) = Cardinality(Positions(q, e)) + Is(x, e)
<1> DEFINE n == Len(q)
           P == Positions(q, e)
           S == {k + 1 : k \in P}
           f == [k \in P |-> k + 1]
<1>1. n \in Nat /\ DOMAIN q = 1 .. n /\ DOMAIN r = 1 .. n + 1 /\ r[1] = x
      /\ \A k \in 1 .. n : r[k + 1] = q[k]
  BY LenProperties DEF Before
<1>2. IsFiniteSet(P) /\ Cardinality(P) \in Nat /\ P \subseteq 1 .. n
  BY <1>1, PositionsFinite DEF Positions
<1>3. IsFiniteSet(S) /\ Cardinality(S) = Cardinality(P)
  <2>1. \A k \in P : k \in Nat
    BY <1>1, <1>2
  <2> HIDE DEF P
  <2>2. f \in Bijection(P, S)
    BY <2>1 DEF Bijection, Injection, Surjection, IsInjective
  <2>3. ExistsBijection(P, S)
    BY <2>2 DEF ExistsBijection
  <2> HIDE DEF S
  <2> QED BY <1>2, <2>3, FS_Bijection
<1>4. Positions(r, e) = S \cup (IF x = e THEN {1} ELSE {})
  <2>1. ASSUME NEW k \in Positions(r, e) PROVE k \in S \cup (IF x = e THEN {1} ELSE {})
    <3>1. k \in 1 .. n + 1 /\ r[k] = e
      BY <1>1 DEF Positions
    <3>2. CASE k = 1
      BY <1>1, <3>1, <3>2
    <3>3. CASE k # 1
      <4>1. k - 1 \in 1 .. n /\ (k - 1) + 1 = k
        BY <1>1, <3>1, <3>3
      <4>2. k - 1 \in P
        BY <1>1, <3>1, <4>1 DEF Positions
      <4> HIDE DEF P
      <4> QED BY <4>1, <4>2
    <3> QED BY <3>2, <3>3
  <2>2. ASSUME NEW k \in P PROVE k + 1 \in Positions(r, e)
    <3>1. k \in 1 .. n /\ q[k] = e
      BY <1>1 DEF Positions
    <3> QED BY <1>1, <3>1 DEF Positions
  <2>3. x = e => 1 \in Positions(r, e)
    BY <1>1 DEF Positions
  <2> HIDE DEF P
  <2> QED BY <2>1, <2>2, <2>3
<1>5. 1 \notin S
  <2>1. \A k \in P : k \in Nat /\ k >= 1
    BY <1>1, <1>2
  <2> HIDE DEF P
  <2> QED BY <2>1
<1> HIDE DEF S, P
<1>6. CASE x = e
  <2>1. Cardinality(S \cup {1}) = Cardinality(S) + 1
    BY <1>3, <1>5, FS_AddElement
  <2> QED BY <1>3, <1>4, <1>6, <2>1 DEF Is, P
<1>7. CASE x # e
  <2>1. Positions(r, e) = S
    BY <1>4, <1>7
  <2> QED BY <1>2, <1>3, <1>7, <2>1 DEF Is, P
<1> QED BY <1>6, <1>7

\* Initially there are no references.
LEMMA InitCounts == Init => RefCtrExact
<1> SUFFICES ASSUME Init, NEW e \in DynEvts PROVE refCtr_[e] = Occurrences(e) + held[e]
  BY DEF RefCtrExact
<1>1. {k \in DOMAIN Contents : Contents[k] = e} = {}
  BY DEF Init, Contents
<1>2. Occurrences(e) = 0
  BY <1>1, FS_EmptySet DEF Occurrences
<1> QED BY <1>2, EventAssumption DEF Init

\* Every operation counts exactly the references that it makes or takes.
LEMMA NextCounts ==
  ASSUME CountersWideEnough, IInv, IInv', RefCtrExact, [Next]_vars
  PROVE  RefCtrExact'
<1> SUFFICES ASSUME NEW d \in DynEvts
             PROVE  refCtr_'[d] = Occurrences(d)' + held'[d]
  BY DEF RefCtrExact
<1>1. /\ d \in Evts /\ refCtr_ \in [Evts -> Int] /\ held \in [Evts -> 0 .. MaxHeld]
      /\ MaxHeld \in Nat /\ refCtr_[d] = Occurrences(d) + held[d]
  BY EventAssumption DEF IInv, TypeOK, RefCtrExact
<1>2. Contents \in Seq(Evts) /\ Contents' \in Seq(Evts)
  BY ContentsSeq, ContentsSeqNext DEF ContentsFromRing
<1>3. /\ Occurrences(d) = Cardinality(Positions(Contents, d))
      /\ Occurrences(d)' = Cardinality(Positions(Contents', d))
  BY DEF Occurrences, Positions
<1>4. Occurrences(d) \in Nat /\ Occurrences(d)' \in Nat
  BY <1>2, <1>3, PositionsFinite
<1>5. ASSUME UNCHANGED <<ring, refCtr_, held>> PROVE refCtr_'[d] = Occurrences(d)' + held'[d]
  <2>1. Contents' = Contents
    BY <1>5 DEF ring, Contents, nUsed, Behind
  <2> QED BY <1>1, <1>3, <1>5, <2>1
<1>6. ASSUME NEW e \in Evts, AddRef(e), held' = held,
             Occurrences(d)' = Occurrences(d) + Is(e, d)
      PROVE  refCtr_'[d] = Occurrences(d)' + held'[d]
  <2>1. refCtr_'[d] = refCtr_[d] + Is(e, d)
    BY <1>1, <1>6 DEF AddRef, Is
  <2>2. Is(e, d) \in Nat /\ held[d] \in Nat
    BY <1>1 DEF Is
  <2> QED BY <1>1, <1>4, <1>6, <2>1, <2>2
<1>7. ASSUME NEW e \in Evts, NEW margin \in Margins, post(e, margin)
      PROVE  refCtr_'[d] = Occurrences(d)' + held'[d]
  <2>1. Contents' = Append(Contents, e)
    BY <1>7, PostAppends
  <2>2. Occurrences(d)' = Occurrences(d) + Is(e, d)
    BY <1>2, <1>3, <2>1, AppendCounts
  <2> QED BY <1>6, <1>7, <2>2 DEF post
<1>8. ASSUME NEW e \in Evts, postLIFO(e)
      PROVE  refCtr_'[d] = Occurrences(d)' + held'[d]
  <2>1. CASE m_nFree = 0
    BY <1>5, <1>8, <2>1 DEF postLIFO
  <2>2. CASE m_nFree # 0
    <3>1. Contents' = <<e>> \o Contents
      BY <1>8, <2>2, PostLIFOPrepends
    <3>2. Before(e, Contents, Contents')
      <4>1. <<e>> \in Seq(Evts) /\ Len(<<e>>) = 1 /\ <<e>>[1] = e
        OBVIOUS
      <4>2. /\ Len(Contents') = 1 + Len(Contents)
            /\ \A k \in 1 .. 1 + Len(Contents) :
                  Contents'[k] = IF k <= 1 THEN <<e>>[k] ELSE Contents[k - 1]
        BY <1>2, <3>1, <4>1, ConcatProperties
      <4>3. Len(Contents) \in Nat /\ DOMAIN Contents' = 1 .. Len(Contents')
        BY <1>2, LenProperties
      <4>4. ASSUME NEW k \in 1 .. Len(Contents) PROVE Contents'[k + 1] = Contents[k]
        <5>1. k + 1 \in 1 .. 1 + Len(Contents) /\ ~(k + 1 <= 1) /\ (k + 1) - 1 = k
          BY <4>3
        <5> QED BY <4>2, <5>1
      <4>5. Contents'[1] = e
        BY <4>1, <4>2, <4>3
      <4> QED BY <4>2, <4>3, <4>4, <4>5 DEF Before
    <3>3. Occurrences(d)' = Occurrences(d) + Is(e, d)
      BY <1>2, <1>3, <3>2, PrependCounts
    <3> QED BY <1>6, <1>8, <2>2, <3>3 DEF postLIFO
  <2> QED BY <2>1, <2>2
<1>9. ASSUME get PROVE refCtr_'[d] = Occurrences(d)' + held'[d]
  <2>1. CASE m_frontEvt = NULL
    <3>1. Contents' = Contents
      BY <1>9, <2>1 DEF get, Contents
    <3> QED BY <1>1, <1>3, <1>9, <2>1, <3>1 DEF get
  <2>2. CASE m_frontEvt # NULL
    <3>1. m_frontEvt \in Evts /\ held' = [held EXCEPT ![m_frontEvt] = @ + 1]
          /\ refCtr_' = refCtr_
      BY <1>9, <2>2 DEF get, IInv, TypeOK
    <3>2. Contents # <<>> /\ Head(Contents) = m_frontEvt /\ Contents' = Tail(Contents)
      BY <1>9, <2>2, GetTakesHead
    <3>3. Before(m_frontEvt, Contents', Contents)
      <4>1. /\ Len(Contents') = Len(Contents) - 1 /\ Len(Contents) \in Nat
            /\ Len(Contents') \in Nat /\ Contents[1] = m_frontEvt
            /\ \A k \in 1 .. Len(Contents') : Contents'[k] = Contents[k + 1]
            /\ DOMAIN Contents = 1 .. Len(Contents)
        BY <1>2, <3>2, HeadTailProperties, LenProperties
      <4> QED BY <4>1 DEF Before
    <3>4. Occurrences(d) = Occurrences(d)' + Is(m_frontEvt, d)
      BY <1>2, <1>3, <3>1, <3>3, PrependCounts
    <3>5. held'[d] = held[d] + Is(m_frontEvt, d) /\ held[d] \in Nat
      BY <1>1, <3>1 DEF Is
    <3>6. Is(m_frontEvt, d) \in Nat
      BY DEF Is
    <3> QED BY <1>1, <1>4, <3>1, <3>4, <3>5, <3>6
  <2> QED BY <2>1, <2>2
<1>10. ASSUME NEW e \in Evts, gc(e) PROVE refCtr_'[d] = Occurrences(d)' + held'[d]
  <2>1. Contents' = Contents
    BY <1>10 DEF gc, ring, Contents, nUsed, Behind
  <2>2. held'[d] = held[d] - Is(e, d) /\ held[d] \in Nat
    BY <1>1, <1>10 DEF gc, Is
  <2>3. refCtr_'[d] = refCtr_[d] - Is(e, d)
    BY <1>1, <1>10 DEF gc, Is
  <2>4. Is(e, d) \in Nat
    BY DEF Is
  <2> QED BY <1>1, <1>3, <1>4, <2>1, <2>2, <2>3, <2>4
<1>11. ASSUME NEW margin \in Margins, postRefused(margin)
       PROVE  refCtr_'[d] = Occurrences(d)' + held'[d]
  BY <1>5, <1>11 DEF postRefused
<1>12. CASE UNCHANGED vars
  BY <1>5, <1>12 DEF vars, ring
<1> QED BY <1>7, <1>8, <1>9, <1>10, <1>11, <1>12 DEF Next

\* The reference counter of every dynamic event is the number of references
\* to it, in the queue and with its receivers.
THEOREM ReferencesCounted == ASSUME CountersWideEnough PROVE Spec => []RefCtrExact
<1>1. IInv /\ IInv' /\ RefCtrExact /\ [Next]_vars => RefCtrExact'
  BY NextCounts
<1> QED BY <1>1, InitCounts, Invariance, PTL DEF Spec
=============================================================================
