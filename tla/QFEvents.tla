------------------------------ MODULE QFEvents ------------------------------
(***************************************************************************)
(* The life of events in QF: allocation from the event pools (qf_dyn.cpp), *)
(* posting to the queues of active objects (qf_actq.cpp), publishing       *)
(* (qf_ps.cpp), deferring and recalling (qf_defer.cpp), references, and    *)
(* garbage collection at the end of every run-to-completion step.          *)
(*                                                                         *)
(* Every critical section is one action; between two critical sections of  *)
(* a thread every other thread and ISR may run, as it may in the ports to  *)
(* multithreaded operating systems.  A queue is the bounded deque that     *)
(* QEQueue implements, a pool is the set of free blocks that QMPool        *)
(* implements.                                                             *)
(*                                                                         *)
(* A definition marked "faulty" is a variant with a plausible bug.  No     *)
(* action uses it; replacing the definition that follows it by the variant *)
(* shows that a property would notice the bug.                             *)
(***************************************************************************)
EXTENDS Integers, Sequences, FiniteSets, FiniteSetsExt

CONSTANTS Prios,       \* the active objects, named by their priorities
          Isrs,        \* interrupts and threads that only produce events
          PoolSto,     \* the storages for event pools: the blocks of each
          EvtSizes,    \* the sizes of events and of the blocks of pools
          StaticEvts,  \* events that are not from a pool (poolId_ = 0)
          Cap,         \* capacity of every active object's queue
          DeferCap,    \* capacity of every deferred-event queue
          Margins,     \* the margins used with Q_NEW_X and POST_X
          NoMargin,    \* QF_NO_MARGIN
          Services,    \* the services that the active objects use
          NULL         \* the null pointer

DynEvts == UNION {PoolSto[i] : i \in DOMAIN PoolSto}
Evts  == DynEvts \cup StaticEvts
Procs == Prios \cup Isrs

ASSUME EventsAssumption ==
    /\ Prios \subseteq Nat \ {0} /\ IsFiniteSet(Prios)
    /\ IsFiniteSet(Isrs) /\ Prios \cap Isrs = {}
    /\ PoolSto \in Seq(SUBSET DynEvts)
    /\ \A i \in DOMAIN PoolSto : IsFiniteSet(PoolSto[i])
    /\ \A i, j \in DOMAIN PoolSto : i # j => PoolSto[i] \cap PoolSto[j] = {}
    /\ DynEvts \cap StaticEvts = {} /\ NULL \notin Evts
    /\ EvtSizes \subseteq Nat \ {0}
    /\ Cap \in Nat \ {0} /\ DeferCap \in Nat \ {0}
    /\ Margins \subseteq Nat /\ NoMargin \notin Nat

VARIABLES QF_pool_, \* the block sizes of the pools initialized so far
          free,     \* the free blocks of all pools
          poolId_,  \* the pool that every event is from, 0 for a static one
          refCtr_,  \* the reference counters
          q,        \* m_eQueue of every active object, front first
          dq,       \* the deferred-event queue of every active object
          subscr,   \* QF_subscrList_ of the published signal
          pc,       \* what a thread or ISR is executing
          cur,      \* the event of an active object's RTC step
          new,      \* an event allocated and not yet posted or published
          ref,      \* a reference kept with Q_NEW_REF
          arg,      \* the event that publish_, recall or gc works on
          owns,     \* arg is a reference that refCtr_ counts
          todo,     \* publish_: subscribers still to be posted to
          ret,      \* where gc() returns to
          asrt,     \* the assertion that stopped the system, or "none"
          size      \* history: the size asked for with every event in use

pools == <<QF_pool_, poolId_, size>>
vars == <<QF_pool_, free, poolId_, refCtr_, q, dq, subscr, pc, cur, new, ref,
          arg, owns, todo, ret, asrt, size>>

\* Where a process runs application code: an ISR always, an active object in
\* its RTC step.
Home(p) == IF p \in Isrs THEN "isr" ELSE "rtc"
AtHome(p) == asrt = "none" /\ pc[p] = Home(p)

Init == /\ QF_pool_ = << >> /\ free = {}
        /\ poolId_ = [e \in Evts |-> 0]
        /\ size = [e \in DynEvts |-> 0]
        /\ refCtr_ = [e \in Evts |-> 0]
        /\ q = [a \in Prios |-> <<>>]
        /\ dq = [a \in Prios |-> <<>>]
        /\ subscr = {}
        /\ pc = [p \in Procs |-> "main"]
        /\ cur = [a \in Prios |-> NULL]
        /\ new = [p \in Procs |-> NULL]
        /\ ref = [a \in Prios |-> NULL]
        /\ arg = [p \in Procs |-> NULL]
        /\ owns = [p \in Procs |-> FALSE]
        /\ todo = [p \in Procs |-> {}]
        /\ ret = [p \in Procs |-> Home(p)]
        /\ asrt = "none"

(***************************************************************************)
(* main() initializes event pools and gives control to the kernel.         *)
(***************************************************************************)
InMain == asrt = "none" /\ \A p \in Procs : pc[p] = "main"

\* "initialize event pools in ascending order of evtSize"
AscendingNot(n) == TRUE  \* faulty: not checked
Ascending(n) == QF_pool_ = << >> \/ QF_pool_[Len(QF_pool_)] < n

poolInit(n) ==
    /\ InMain
    /\ IF Len(QF_pool_) < Len(PoolSto) /\ Ascending(n)
       THEN /\ QF_pool_' = Append(QF_pool_, n)
            /\ free' = free \cup PoolSto[Len(QF_pool_) + 1]
            /\ UNCHANGED asrt
       ELSE asrt' = "poolInit" /\ UNCHANGED <<QF_pool_, free>>
    /\ UNCHANGED <<poolId_, size, refCtr_, q, dq, subscr, pc, cur, new, ref,
                   arg, owns, todo, ret>>

run ==
    /\ InMain
    /\ pc' = [p \in Procs |-> IF p \in Isrs THEN "isr" ELSE "get"]
    /\ UNCHANGED <<pools, free, refCtr_, q, dq, subscr, cur, new, ref, arg,
                   owns, todo, ret, asrt>>

-----------------------------------------------------------------------------
\* QF_EVT_REF_CTR_INC_, for an event that is from a pool.
\* faulty: the counter is set, not incremented
AddRefOnce(e) == refCtr_' = IF poolId_[e] # 0 THEN [refCtr_ EXCEPT ![e] = 1]
                                              ELSE refCtr_
AddRef(e) == refCtr_' = IF poolId_[e] # 0 THEN [refCtr_ EXCEPT ![e] = @ + 1]
                                          ELSE refCtr_

\* A thread enters gc(e); counted says whether the reference it gives up is
\* one that refCtr_ counts.
CallGc(p, e, counted, retTo) ==
    /\ pc' = [pc EXCEPT ![p] = "gc"]
    /\ arg' = [arg EXCEPT ![p] = e]
    /\ owns' = [owns EXCEPT ![p] = counted]
    /\ ret' = [ret EXCEPT ![p] = retTo]

Return(p) == /\ pc' = [pc EXCEPT ![p] = ret[p]]
             /\ arg' = [arg EXCEPT ![p] = NULL]
             /\ owns' = [owns EXCEPT ![p] = FALSE]

(***************************************************************************)
(* QF::newX_: a block of the first pool whose blocks are large enough.     *)
(* When it is refused the caller gets NULL and goes on, unless it cannot   *)
(* tolerate that.                                                          *)
(***************************************************************************)
Fitting(n) == {i \in DOMAIN QF_pool_ : n <= QF_pool_[i]}

newX_(p, evtSize, margin) ==
    LET idx == Min(Fitting(evtSize))
        avail == free \cap PoolSto[idx]
    IN  /\ AtHome(p)
        /\ new[p] = NULL
        /\ p \in Prios => "new" \in Services
        /\ IF Fitting(evtSize) = {}
           THEN /\ asrt' = "newX_:310"
                /\ UNCHANGED <<free, poolId_, size, new, refCtr_>>
           ELSE IF Cardinality(avail) > (IF margin = NoMargin THEN 0 ELSE margin)
           THEN /\ \E e \in avail : /\ free' = free \ {e}
                                    /\ poolId_' = [poolId_ EXCEPT ![e] = idx]
                                    /\ size' = [size EXCEPT ![e] = evtSize]
                                    /\ new' = [new EXCEPT ![p] = e]
                                    /\ refCtr_' = [refCtr_ EXCEPT ![e] = 0]
                /\ UNCHANGED asrt
           ELSE /\ margin = NoMargin
                /\ asrt' = "newX_:320"
                /\ UNCHANGED <<free, poolId_, size, new, refCtr_>>
        /\ UNCHANGED <<QF_pool_, q, dq, subscr, pc, cur, ref, arg, owns, todo,
                       ret>>

(***************************************************************************)
(* The events a process has at hand: the one it allocated, a static one,   *)
(* and, for forwarding, the event of its RTC step or its kept reference.   *)
(***************************************************************************)
Forwardable(p) == IF p \in Prios /\ "forward" \in Services
                  THEN {cur[p], ref[p]} \ {NULL} ELSE {}
AtHand(p) == ({new[p]} \ {NULL}) \cup StaticEvts \cup Forwardable(p)

\* The process no longer uses an event it allocated once it has handed it on.
HandOn(p, e) == new' = IF new[p] = e THEN [new EXCEPT ![p] = NULL] ELSE new

nFree(a) == Cap - Len(q[a])

(***************************************************************************)
(* QActive::post_, called with POST (NoMargin) or POST_X.                  *)
(***************************************************************************)
CanPost(a, margin) == nFree(a) > (IF margin = NoMargin THEN 0 ELSE margin)

post_(p, a, e, margin) ==
    /\ AtHome(p) /\ e \in AtHand(p)
    /\ CanPost(a, margin)
    /\ AddRef(e)
    /\ q' = [q EXCEPT ![a] = Append(@, e)]
    /\ HandOn(p, e)
    /\ UNCHANGED <<pools, free, dq, subscr, pc, cur, ref, arg, owns, todo,
                   ret, asrt>>

\* The queue cannot take the event: POST asserts, POST_X recycles the event.
postFails(p, a, e, margin) ==
    /\ AtHome(p) /\ e \in AtHand(p)
    /\ ~CanPost(a, margin)
    /\ IF margin = NoMargin
       THEN asrt' = "post_:110" /\ UNCHANGED <<new, pc, arg, owns, ret>>
       ELSE /\ e \in Forwardable(p) => "forwardX" \in Services
            /\ HandOn(p, e)
            /\ CallGc(p, e, FALSE, Home(p))
            /\ UNCHANGED asrt
    /\ UNCHANGED <<pools, free, refCtr_, q, dq, subscr, cur, ref, todo>>

(***************************************************************************)
(* QF::publish_: count a reference and copy the subscriber list, post to   *)
(* one subscriber after the other in the order of their priorities, give   *)
(* the reference up.                                                       *)
(***************************************************************************)
publish_(p, e) ==
    /\ AtHome(p) /\ e \in AtHand(p)
    /\ AddRef(e)
    /\ todo' = [todo EXCEPT ![p] = subscr]
    /\ HandOn(p, e)
    /\ IF subscr = {}
       THEN CallGc(p, e, TRUE, Home(p))
       ELSE /\ pc' = [pc EXCEPT ![p] = "multicast"]
            /\ arg' = [arg EXCEPT ![p] = e]
            /\ owns' = [owns EXCEPT ![p] = TRUE]
            /\ UNCHANGED ret
    /\ UNCHANGED <<pools, free, q, dq, subscr, cur, ref, asrt>>

multicast(p) ==
    /\ asrt = "none" /\ pc[p] = "multicast"
    /\ LET a == Max(todo[p])
           e == arg[p]
       IN IF CanPost(a, NoMargin)
          THEN /\ AddRef(e)
               /\ q' = [q EXCEPT ![a] = Append(@, e)]
               /\ todo' = [todo EXCEPT ![p] = @ \ {a}]
               /\ IF todo[p] = {a} THEN CallGc(p, e, TRUE, Home(p))
                                   ELSE UNCHANGED <<pc, arg, owns, ret>>
               /\ UNCHANGED asrt
          ELSE /\ asrt' = "post_:110"
               /\ UNCHANGED <<refCtr_, q, todo, pc, arg, owns, ret>>
    /\ UNCHANGED <<pools, free, dq, subscr, cur, new, ref>>

subscribe(a) ==
    /\ AtHome(a) /\ a \notin subscr /\ "subscribe" \in Services
    /\ subscr' = subscr \cup {a}
    /\ UNCHANGED <<pools, free, refCtr_, q, dq, pc, cur, new, ref, arg, owns,
                   todo, ret, asrt>>

unsubscribe(a) ==
    /\ AtHome(a) /\ a \in subscr /\ "subscribe" \in Services
    /\ subscr' = subscr \ {a}
    /\ UNCHANGED <<pools, free, refCtr_, q, dq, pc, cur, new, ref, arg, owns,
                   todo, ret, asrt>>

(***************************************************************************)
(* The event loop of an active object: get_(), dispatch(), gc().           *)
(***************************************************************************)
get_(a) ==
    /\ asrt = "none" /\ pc[a] = "get"
    /\ q[a] # <<>>
    /\ cur' = [cur EXCEPT ![a] = Head(q[a])]
    /\ q' = [q EXCEPT ![a] = Tail(@)]
    /\ pc' = [pc EXCEPT ![a] = "rtc"]
    /\ UNCHANGED <<pools, free, refCtr_, dq, subscr, new, ref, arg, owns,
                   todo, ret, asrt>>

\* The handler returns; it must have handed on what it allocated.
rtcEnd(a) ==
    /\ AtHome(a) /\ new[a] = NULL
    /\ cur' = [cur EXCEPT ![a] = NULL]
    /\ CallGc(a, cur[a], TRUE, "get")
    /\ UNCHANGED <<pools, free, refCtr_, q, dq, subscr, new, ref, todo, asrt>>

(***************************************************************************)
(* QF::gc: give up a reference, or recycle the event when it was the last. *)
(* The block is returned to its pool in a critical section of its own.     *)
(***************************************************************************)
MoreReferencesEarly(e) == refCtr_[e] > 2  \* faulty: recycles one too early
MoreReferencesLate(e) == refCtr_[e] > 0   \* faulty: never recycles
MoreReferences(e) == refCtr_[e] > 1

gc(p) ==
    /\ asrt = "none" /\ pc[p] = "gc"
    /\ IF poolId_[arg[p]] = 0
       THEN Return(p) /\ UNCHANGED refCtr_
       ELSE IF MoreReferences(arg[p])
            THEN /\ refCtr_' = [refCtr_ EXCEPT ![arg[p]] = @ - 1]
                 /\ Return(p)
            ELSE /\ pc' = [pc EXCEPT ![p] = "put"]
                 /\ owns' = [owns EXCEPT ![p] = FALSE]
                 /\ UNCHANGED <<refCtr_, arg>>
    /\ UNCHANGED <<pools, free, q, dq, subscr, cur, new, ref, todo, ret,
                   asrt>>

\* Assertion 410 of gc(), and 200 of put(): the pool exists, the block is from
\* its storage, and not all of its blocks are free.
Returnable(e) == LET i == poolId_[e] IN
    /\ i \in DOMAIN QF_pool_ /\ e \in PoolSto[i]
    /\ Cardinality(free \cap PoolSto[i]) < Cardinality(PoolSto[i])

gcPut(p) ==
    /\ asrt = "none" /\ pc[p] = "put"
    /\ IF Returnable(arg[p])
       THEN /\ free' = free \cup {arg[p]}
            /\ size' = [size EXCEPT ![arg[p]] = 0]
            /\ Return(p) /\ UNCHANGED asrt
       ELSE asrt' = "put:200" /\ UNCHANGED <<free, size, pc, arg, owns>>
    /\ UNCHANGED <<QF_pool_, poolId_, refCtr_, q, dq, subscr, cur, new, ref,
                   todo, ret>>

(***************************************************************************)
(* QActive::defer, recall and flushDeferred.                               *)
(***************************************************************************)
DeferFits(a) == Len(dq[a]) < DeferCap

defer(a) ==
    /\ AtHome(a) /\ "defer" \in Services
    /\ DeferFits(a)
    /\ AddRef(cur[a])
    /\ dq' = [dq EXCEPT ![a] = Append(@, cur[a])]
    /\ UNCHANGED <<pools, free, q, subscr, pc, cur, new, ref, arg, owns, todo,
                   ret, asrt>>

recall(a) ==
    /\ AtHome(a) /\ dq[a] # <<>>
    /\ arg' = [arg EXCEPT ![a] = Head(dq[a])]
    /\ owns' = [owns EXCEPT ![a] = TRUE]
    /\ dq' = [dq EXCEPT ![a] = Tail(@)]
    /\ pc' = [pc EXCEPT ![a] = "recallPost"]
    /\ UNCHANGED <<pools, free, refCtr_, q, subscr, cur, new, ref, todo, ret,
                   asrt>>

recallPost(a) ==
    /\ asrt = "none" /\ pc[a] = "recallPost"
    /\ IF nFree(a) = 0
       THEN asrt' = "postLIFO:210" /\ UNCHANGED <<refCtr_, q, pc>>
       ELSE /\ AddRef(arg[a])
            /\ q' = [q EXCEPT ![a] = <<arg[a]>> \o @]
            /\ pc' = [pc EXCEPT ![a] = "recallDec"]
            /\ UNCHANGED asrt
    /\ UNCHANGED <<pools, free, dq, subscr, cur, new, ref, arg, owns, todo,
                   ret>>

RecallCountedTight(e) == refCtr_[e] > 2  \* faulty: off by one
RecallCounted(e) == refCtr_[e] >= 2

recallDec(a) ==
    /\ asrt = "none" /\ pc[a] = "recallDec"
    /\ IF poolId_[arg[a]] # 0 => RecallCounted(arg[a])
       THEN /\ refCtr_' = IF poolId_[arg[a]] # 0
                          THEN [refCtr_ EXCEPT ![arg[a]] = @ - 1] ELSE refCtr_
            /\ pc' = [pc EXCEPT ![a] = "rtc"]
            /\ arg' = [arg EXCEPT ![a] = NULL]
            /\ owns' = [owns EXCEPT ![a] = FALSE]
            /\ UNCHANGED asrt
       ELSE asrt' = "recall:210" /\ UNCHANGED <<refCtr_, pc, arg, owns>>
    /\ UNCHANGED <<pools, free, q, dq, subscr, cur, new, ref, todo, ret>>

\* One round of flushDeferred(): take an event and collect it; the loop
\* comes back here until the deferred queue is empty.
flushDeferred(a) ==
    /\ asrt = "none"
    /\ \/ pc[a] = "flush"
       \/ AtHome(a) /\ "flush" \in Services
    /\ IF dq[a] = <<>>
       THEN /\ pc[a] = "flush"
            /\ pc' = [pc EXCEPT ![a] = "rtc"]
            /\ UNCHANGED <<dq, arg, owns, ret>>
       ELSE /\ dq' = [dq EXCEPT ![a] = Tail(@)]
            /\ CallGc(a, Head(dq[a]), TRUE, "flush")
    /\ UNCHANGED <<pools, free, refCtr_, q, subscr, cur, new, ref, todo,
                   asrt>>

(***************************************************************************)
(* QF::newRef_ and deleteRef_ (Q_NEW_REF, Q_DELETE_REF).                   *)
(***************************************************************************)
newRef_(a) ==
    /\ AtHome(a) /\ "ref" \in Services
    /\ poolId_[cur[a]] # 0 /\ ref[a] = NULL
    /\ AddRef(cur[a])
    /\ ref' = [ref EXCEPT ![a] = cur[a]]
    /\ UNCHANGED <<pools, free, q, dq, subscr, pc, cur, new, arg, owns, todo,
                   ret, asrt>>

deleteRef_(a) ==
    /\ AtHome(a) /\ ref[a] # NULL
    /\ ref' = [ref EXCEPT ![a] = NULL]
    /\ CallGc(a, ref[a], TRUE, "rtc")
    /\ UNCHANGED <<pools, free, refCtr_, q, dq, subscr, cur, new, todo, asrt>>

Send(p, e) == \/ publish_(p, e)
              \/ \E a \in Prios, margin \in Margins \cup {NoMargin} :
                    post_(p, a, e, margin) \/ postFails(p, a, e, margin)

Produce(p) == \/ \E n \in EvtSizes, margin \in Margins \cup {NoMargin} :
                    newX_(p, n, margin)
              \/ \E e \in Evts : Send(p, e)

Next == \/ run \/ \E n \in EvtSizes : poolInit(n)
        \/ \E p \in Procs : Produce(p) \/ multicast(p) \/ gc(p) \/ gcPut(p)
        \/ \E a \in Prios : \/ subscribe(a) \/ unsubscribe(a)
                            \/ get_(a) \/ rtcEnd(a)
                            \/ defer(a) \/ recall(a) \/ recallPost(a)
                            \/ recallDec(a) \/ flushDeferred(a)
                            \/ newRef_(a) \/ deleteRef_(a)

\* Threads keep running; an event handler is finite, so it returns however
\* much it sends before, and an ISR gets to the statement that sends the event
\* it allocated.
Fairness == /\ \A p \in Procs :
                  WF_vars(multicast(p)) /\ WF_vars(gc(p)) /\ WF_vars(gcPut(p))
            /\ \A a \in Prios : WF_vars(get_(a)) /\ SF_vars(rtcEnd(a))
            /\ \A p \in Isrs : SF_vars(Send(p, new[p]))

Spec == Init /\ [][Next]_vars /\ Fairness

-----------------------------------------------------------------------------
(***************************************************************************)
(* Properties.                                                             *)
(***************************************************************************)
\* The number of references to e: places in queues, RTC steps in progress,
\* kept references, and the references that publish_, recall and gc work on.
Places(f, cap, e) == {x \in Prios \X (1 .. cap) :
                         x[2] <= Len(f[x[1]]) /\ f[x[1]][x[2]] = e}
Refs(e) == Cardinality(Places(q, Cap, e)) + Cardinality(Places(dq, DeferCap, e))
           + Cardinality({a \in Prios : cur[a] = e})
           + Cardinality({a \in Prios : ref[a] = e})
           + Cardinality({p \in Procs : arg[p] = e /\ owns[p]})

One(b) == IF b THEN 1 ELSE 0

\* Whether newX_ allocated e and gc() did not return it yet; gc() may be about
\* to do so.
Allocated(e) == size[e] # 0
Putting(e) == {p \in Procs : pc[p] = "put" /\ arg[p] = e}
InUse(e) == Allocated(e) /\ Putting(e) = {}

\* The reference counter of every event in use is the number of references
\* to it, whatever interleaving of posts, publishes, recalls and collections
\* led there (QF_EVT_REF_CTR_INC_ and _DEC_ are spread over five files), and
\* none leaks: an event without references is in its allocator's hands, or
\* gc() is working on it.
RefCtrExact ==
    \A e \in DynEvts : InUse(e) =>
        /\ refCtr_[e] = Refs(e)
        /\ Refs(e) > 0 \/ \E p \in Procs : e \in {new[p], arg[p]}

\* An event that is recycled is referenced by nobody, and it is returned to
\* the pool by one thread only: gc() decides in one critical section and
\* returns the block in another (qf_dyn.cpp:196-236).
NoDanglingReference ==
    \A e \in DynEvts : ~InUse(e) =>
        /\ Refs(e) = 0
        /\ \A p \in Procs : new[p] # e /\ (arg[p] = e => pc[p] = "put")
        /\ Cardinality(Putting(e)) = One(Allocated(e))

\* An event is in a block of the smallest pool whose blocks are large enough
\* for it, and poolId_ names that pool: newX_ takes the first pool that fits
\* and relies on the order that poolInit() asserted before.
SmallestFit ==
    \A e \in DynEvts : Allocated(e) =>
        LET i == poolId_[e]
        IN  /\ e \in PoolSto[i] /\ size[e] <= QF_pool_[i]
            /\ \A j \in Fitting(size[e]) : QF_pool_[i] <= QF_pool_[j]

\* Neither recall()'s check of the counter (qf_defer.cpp:130) nor put()'s
\* checks of the block and of the number of free ones (qf_mem.cpp:178) fail.
NoCountingAssertion == asrt \notin {"recall:210", "put:200"}

\* Every event that is allocated and posted or published is recycled in the
\* end, by whichever thread happens to give up the last reference.
EventuallyRecycled ==
    \A e \in DynEvts : Allocated(e) ~> (~Allocated(e) \/ asrt # "none")
=============================================================================
