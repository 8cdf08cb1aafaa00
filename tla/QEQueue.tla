------------------------------ MODULE QEQueue -------------------------------
(***************************************************************************)
(* The "raw" thread-safe event queue of QF (qf_qeq.cpp, qequeue.h): one    *)
(* front location plus a ring buffer of m_end slots.  Events are inserted  *)
(* at m_head, which moves counter-clockwise (downwards), and removed at    *)
(* m_tail; a LIFO post pushes the old front event back in at the tail.     *)
(* Every operation is one critical section and therefore one action.       *)
(*                                                                         *)
(* The counters are of type QEQueueCtr, whose width the port chooses: they *)
(* are taken modulo CtrMod (256 in most ports).                            *)
(*                                                                         *)
(* A definition marked "faulty" is a variant with a plausible bug.  No     *)
(* action uses it; replacing the definition that follows it by the variant *)
(* shows that a property would notice the bug.                             *)
(***************************************************************************)
EXTENDS Integers, Sequences, FiniteSets

CONSTANTS Evts,      \* the events (addresses) that can be posted
          DynEvts,   \* those that came from an event pool (poolId_ # 0)
          NULL,      \* the null event pointer
          NoMargin,  \* QF_NO_MARGIN
          Margins,   \* the margins posters ask for
          QLens,     \* the lengths of the qSto[] buffers given to init()
          CtrMod,    \* 2^w for a QEQueueCtr of w bits
          MaxHeld    \* bound: references one event's receivers hold at once

ASSUME EventAssumption == /\ DynEvts \subseteq Evts
                          /\ NULL \notin Evts
                          /\ NoMargin \in Margins
                          /\ NoMargin \notin Nat
                          /\ Margins \ {NoMargin} \subseteq Nat
                          /\ MaxHeld \in Nat
ASSUME CounterAssumption == /\ CtrMod \in Nat \ {0, 1}
                            /\ QLens \subseteq 0 .. (CtrMod - 1)

VARIABLES m_frontEvt,  \* the event at the front, or NULL when empty
          m_ring,      \* the ring buffer
          m_end,       \* its length
          m_head,      \* the slot the next FIFO event goes to
          m_tail,      \* the slot the next front event comes from
          m_nFree,     \* free entries, the front location included
          m_nMin,      \* the minimum of m_nFree so far
          refCtr_,     \* the reference counter of every event
          held,        \* references that receivers got and did not gc yet
          posted,      \* what the last post() returned
          got,         \* what the last get() returned
          asrt         \* id of the assertion that stopped the system, or 0

ring  == <<m_frontEvt, m_ring, m_end, m_head, m_tail, m_nFree, m_nMin>>
vars  == <<m_frontEvt, m_ring, m_end, m_head, m_tail, m_nFree, m_nMin,
           refCtr_, held, posted, got, asrt>>

(***************************************************************************)
(* Arithmetic of QEQueueCtr.                                               *)
(***************************************************************************)
Inc(x) == IF x = CtrMod - 1 THEN 0 ELSE x + 1
Dec(x) == IF x = 0 THEN CtrMod - 1 ELSE x - 1
Trunc(x) == x % CtrMod

(***************************************************************************)
(* The constructor followed by init().                                     *)
(***************************************************************************)
Init == /\ m_frontEvt = NULL
        /\ m_end \in QLens
        /\ m_ring = [i \in 0 .. (m_end - 1) |-> NULL]
        /\ m_head = 0
        /\ m_tail = 0
        /\ m_nFree = Inc(m_end)
        /\ m_nMin = m_nFree
        /\ refCtr_ = [e \in Evts |-> 0]
        /\ held = [e \in Evts |-> 0]
        /\ posted = FALSE
        /\ got = NULL
        /\ asrt = 0

\* QF_EVT_REF_CTR_INC_ for a dynamic event
AddRefLost(e) == UNCHANGED refCtr_  \* faulty: the increment is missing

AddRef(e) == refCtr_' = IF e \in DynEvts THEN [refCtr_ EXCEPT ![e] = @ + 1]
                                         ELSE refCtr_

\* faulty: the low-water mark is not kept
UseOneFreeOnly == m_nFree' = Dec(m_nFree) /\ UNCHANGED m_nMin

UseOneFree == /\ m_nFree' = Dec(m_nFree)
              /\ m_nMin' = IF m_nMin > Dec(m_nFree) THEN Dec(m_nFree)
                                                    ELSE m_nMin

MarginAvailable(margin) == \/ margin = NoMargin /\ m_nFree > 0
                           \/ margin # NoMargin /\ m_nFree > Trunc(margin)

\* faulty: the head does not wrap around
InsertFIFONoWrap(e) ==
    IF m_frontEvt = NULL
    THEN m_frontEvt' = e /\ UNCHANGED <<m_ring, m_head>>
    ELSE /\ m_ring' = [m_ring EXCEPT ![m_head] = e]
         /\ m_head' = Dec(m_head)
         /\ UNCHANGED m_frontEvt

InsertFIFO(e) ==
    IF m_frontEvt = NULL
    THEN m_frontEvt' = e /\ UNCHANGED <<m_ring, m_head>>
    ELSE /\ m_ring' = [m_ring EXCEPT ![m_head] = e]
         /\ m_head' = Dec(IF m_head = 0 THEN m_end ELSE m_head)
         /\ UNCHANGED m_frontEvt

post(e, margin) ==
    /\ asrt = 0
    /\ MarginAvailable(margin)
    /\ AddRef(e)
    /\ UseOneFree
    /\ InsertFIFO(e)
    /\ posted' = TRUE
    /\ UNCHANGED <<m_end, m_tail, held, got, asrt>>

postRefused(margin) ==
    /\ asrt = 0
    /\ ~MarginAvailable(margin)
    /\ asrt' = IF margin = NoMargin THEN 210 ELSE 0
    /\ posted' = FALSE
    /\ UNCHANGED <<ring, refCtr_, held, got>>

InsertLIFO(e) ==
    /\ m_frontEvt' = e
    /\ IF m_frontEvt = NULL
       THEN UNCHANGED <<m_ring, m_tail>>
       ELSE /\ m_tail' = IF Inc(m_tail) = m_end THEN 0 ELSE Inc(m_tail)
            /\ m_ring' = [m_ring EXCEPT ![m_tail'] = m_frontEvt]

postLIFO(e) ==
    /\ asrt = 0
    /\ IF m_nFree = 0
       THEN asrt' = 300 /\ UNCHANGED <<ring, refCtr_>>
       ELSE /\ AddRef(e)
            /\ UseOneFree
            /\ InsertLIFO(e)
            /\ UNCHANGED <<m_end, m_head, asrt>>
    /\ UNCHANGED <<held, posted, got>>

\* faulty: the last event of the ring is taken for none
RemoveFrontTooEarly ==
    /\ m_nFree' = Inc(m_nFree)
    /\ IF m_nFree' < m_end
       THEN /\ m_frontEvt' = m_ring[m_tail]
            /\ m_tail' = Dec(IF m_tail = 0 THEN m_end ELSE m_tail)
            /\ asrt' = 0
       ELSE /\ m_frontEvt' = NULL
            /\ m_tail' = m_tail
            /\ asrt' = IF m_nFree' = m_end + 1 THEN 0 ELSE 410

RemoveFront ==
    /\ m_nFree' = Inc(m_nFree)
    /\ IF m_nFree' <= m_end
       THEN /\ m_frontEvt' = m_ring[m_tail]
            /\ m_tail' = Dec(IF m_tail = 0 THEN m_end ELSE m_tail)
            /\ asrt' = 0
       ELSE /\ m_frontEvt' = NULL
            /\ m_tail' = m_tail
            /\ asrt' = IF m_nFree' = m_end + 1 THEN 0 ELSE 410

get ==
    /\ asrt = 0
    /\ got' = m_frontEvt
    /\ IF m_frontEvt = NULL
       THEN UNCHANGED <<m_frontEvt, m_tail, m_nFree, held, asrt>>
       ELSE /\ RemoveFront
            /\ held[m_frontEvt] < MaxHeld
            /\ held' = [held EXCEPT ![m_frontEvt] = @ + 1]
    /\ UNCHANGED <<m_ring, m_end, m_head, m_nMin, refCtr_, posted>>

(***************************************************************************)
(* A receiver is done with a reference and calls QF::gc() on it.           *)
(***************************************************************************)
gc(e) ==
    /\ asrt = 0
    /\ held[e] > 0
    /\ held' = [held EXCEPT ![e] = @ - 1]
    /\ refCtr_' = IF e \in DynEvts THEN [refCtr_ EXCEPT ![e] = @ - 1]
                                   ELSE refCtr_
    /\ UNCHANGED <<ring, posted, got, asrt>>

Next == \/ \E e \in Evts, margin \in Margins : post(e, margin)
        \/ \E margin \in Margins : postRefused(margin)
        \/ \E e \in Evts : postLIFO(e) \/ gc(e)
        \/ get

Spec == Init /\ [][Next]_vars

-----------------------------------------------------------------------------
(***************************************************************************)
(* Properties.                                                             *)
(***************************************************************************)
\* Types: the counters stay in range, and only assertions 210 and 300 can fire.
TypeOK == /\ m_frontEvt \in Evts \cup {NULL}
          /\ m_end \in QLens
          /\ m_ring \in [0 .. (m_end - 1) -> Evts \cup {NULL}]
          /\ m_head \in 0 .. (CtrMod - 1)
          /\ m_tail \in 0 .. (CtrMod - 1)
          /\ m_nFree \in 0 .. (CtrMod - 1)
          /\ m_nMin \in 0 .. (CtrMod - 1)
          /\ refCtr_ \in [Evts -> Int]
          /\ held \in [Evts -> 0 .. MaxHeld]
          /\ posted \in BOOLEAN
          /\ got \in Evts \cup {NULL}
          /\ asrt \in {0, 210, 300}

\* The slot that is k places behind the tail, the way get() moves m_tail.
Behind(k) == IF m_tail - k < 0 THEN m_tail - k + m_end ELSE m_tail - k

\* The number of events in the queue: all entries that are not free.
nUsed == m_end + 1 - m_nFree

\* The queue's contents, front first: the front location, then the ring
\* from the tail downwards.
Contents == IF m_frontEvt = NULL
            THEN <<>>
            ELSE [k \in 1 .. nUsed |-> IF k = 1 THEN m_frontEvt
                                                ELSE m_ring[Behind(k - 2)]]

(***************************************************************************)
(* Why the ring works: the front location is empty exactly when every      *)
(* entry is free, the head is as far behind the tail as there are events   *)
(* in the ring, and the slots in between hold events (qf_qeq.cpp moves     *)
(* m_head, m_tail and m_nFree separately and never compares them).         *)
(***************************************************************************)
nRing == IF m_frontEvt = NULL THEN 0 ELSE nUsed - 1

RingConsistent == /\ m_nFree \in 0 .. (m_end + 1)
                  /\ m_frontEvt = NULL <=> m_nFree = m_end + 1
                  /\ m_tail = 0 \/ m_tail < m_end
                  /\ m_head = Behind(nRing)
                  /\ \A k \in 0 .. (nRing - 1) : m_ring[Behind(k)] \in Evts
                  /\ asrt # 410

(***************************************************************************)
(* The ring with its front location implements the bounded deque: order    *)
(* of delivery, margins, the low-water mark and the assertions on overflow *)
(* are those of EventQueue (qf_qeq.cpp, all three operations).             *)
(***************************************************************************)
Deque == INSTANCE EventQueue WITH q <- Contents, cap <- m_end + 1,
                                  low <- m_nMin, halted <- (asrt # 0)
ImplementsDeque == Deque!Spec

\* Every dynamic event's reference counter is the number of references to
\* it: those in the queue plus those its receivers have not collected yet.
Occurrences(e) == Cardinality({k \in DOMAIN Contents : Contents[k] = e})
RefCtrExact == \A e \in DynEvts : refCtr_[e] = Occurrences(e) + held[e]
=============================================================================
