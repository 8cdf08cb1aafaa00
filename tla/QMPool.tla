------------------------------- MODULE QMPool -------------------------------
(***************************************************************************)
(* The native memory pool of QF (qf_mem.cpp, qmpool.h): init() cuts the    *)
(* storage into blocks and chains them through their first word, get()     *)
(* pops the free list and put() pushes a block back.                       *)
(*                                                                         *)
(* init() runs once, before interrupts are enabled, one action per round   *)
(* of its loops.  get() is one critical section.  put() tests its          *)
(* precondition before it enters its critical section, so it is two        *)
(* actions between which any other client may run.  A client stores its    *)
(* own data in a block it owns, the link word included.                    *)
(*                                                                         *)
(* A definition marked "faulty" is a variant with a plausible bug.  No     *)
(* action uses it; replacing the definition that follows it by the variant *)
(* shows that a property would notice the bug.                             *)
(***************************************************************************)
EXTENDS Integers, FiniteSets

CONSTANTS Clients,     \* threads and ISRs that allocate and recycle
          Margins,     \* margins passed to get()
          PoolSizes,   \* sizes of the storage given to init(), in bytes
          BlockSizes,  \* block sizes asked for, in bytes
          PtrSize,     \* sizeof(QFreeBlock)
          FastMod,     \* 2^w for a uint_fast16_t of w bits
          SizeMod,     \* 2^w for a QMPoolSize of w bits
          CtrMod,      \* 2^w for a QMPoolCtr of w bits
          NULL,        \* the null pointer
          Data         \* a word that does not hold a link

ASSUME PoolAssumption ==
    /\ PtrSize \in Nat \ {0}
    /\ {FastMod, SizeMod, CtrMod} \subseteq Nat \ {0}
    /\ PoolSizes \subseteq Nat
    /\ BlockSizes \subseteq 0 .. (FastMod - 1)
    /\ Margins \subseteq Nat
    /\ NULL # Data /\ {NULL, Data} \cap Nat = {}

VARIABLES pc,          \* how far init() is
          arg,         \* its arguments
          room,        \* its local poolSize: bytes not yet cut into blocks
          nblocks,     \* its local: pointers per block
          fb,          \* its local: the block chained last
          m_next,      \* the link word of every block, by address
          m_start, m_end, m_free_head, m_blockSize, m_nTot, m_nFree, m_nMin,
          has,         \* the blocks each client owns
          putting,     \* the block a client is in the middle of putting back
          asrt         \* id of the assertion that stopped the system, or 0

initVars == <<pc, arg, room, nblocks, fb>>
pool     == <<m_next, m_start, m_end, m_free_head, m_blockSize, m_nTot,
              m_nFree, m_nMin>>
vars     == <<pc, arg, room, nblocks, fb, m_next, m_start, m_end, m_free_head,
              m_blockSize, m_nTot, m_nFree, m_nMin, has, putting, asrt>>

\* The storage begins at address 0.
poolSto == 0

\* The constructor.
Init == /\ pc = "new"
        /\ arg = [poolSize |-> 0, blockSize |-> 0]
        /\ room = 0 /\ nblocks = 0 /\ fb = NULL
        /\ m_next = <<>>
        /\ m_start = NULL /\ m_end = NULL /\ m_free_head = NULL
        /\ m_blockSize = 0 /\ m_nTot = 0 /\ m_nFree = 0 /\ m_nMin = 0
        /\ has = [c \in Clients |-> {}]
        /\ putting = [c \in Clients |-> NULL]
        /\ asrt = 0

(***************************************************************************)
(* init(): check the arguments, round the block size up to whole pointers, *)
(* chain the blocks, terminate the chain.                                  *)
(***************************************************************************)
RoundingFitsUnchecked(blockSize) == TRUE  \* faulty: the check is missing

\* "the blockSize must not be too close to the top of the dynamic range"
RoundingFits(blockSize) == (blockSize + PtrSize) % FastMod > blockSize

initArgs(poolSize, blockSize) ==
    /\ pc = "new" /\ asrt = 0
    /\ IF poolSize >= PtrSize /\ RoundingFits(blockSize)
       THEN /\ pc' = "round"
            /\ arg' = [poolSize |-> poolSize, blockSize |-> blockSize]
            /\ room' = poolSize
            /\ nblocks' = 1
            /\ m_free_head' = poolSto
            /\ m_blockSize' = PtrSize % SizeMod
            /\ m_next' = [a \in 0 .. (poolSize - 1) |-> Data]
            /\ UNCHANGED asrt
       ELSE asrt' = 100 /\ UNCHANGED <<pc, arg, room, nblocks, m_free_head,
                                       m_blockSize, m_next>>
    /\ UNCHANGED <<fb, m_start, m_end, m_nTot, m_nFree, m_nMin, has, putting>>

MorePointersNot == nblocks' = nblocks  \* faulty: the count stays
MorePointers == nblocks' = (nblocks + 1) % FastMod

initRound ==
    /\ pc = "round" /\ asrt = 0
    /\ m_blockSize < arg.blockSize % SizeMod
    /\ m_blockSize' = (m_blockSize + PtrSize) % SizeMod
    /\ MorePointers
    /\ UNCHANGED <<pc, arg, room, fb, m_next, m_start, m_end, m_free_head,
                   m_nTot, m_nFree, m_nMin, has, putting, asrt>>

initFirst ==
    /\ pc = "round" /\ asrt = 0
    /\ m_blockSize >= arg.blockSize % SizeMod
    /\ IF room >= m_blockSize
       THEN /\ pc' = "chain"
            /\ room' = room - m_blockSize
            /\ m_nTot' = 1
            /\ fb' = m_free_head
            /\ UNCHANGED asrt
       ELSE asrt' = 110 /\ UNCHANGED <<pc, room, m_nTot, fb>>
    /\ UNCHANGED <<arg, nblocks, m_next, m_start, m_end, m_free_head,
                   m_blockSize, m_nFree, m_nMin, has, putting>>

RoomForBlock == room >= m_blockSize

initChain ==
    /\ pc = "chain" /\ asrt = 0
    /\ RoomForBlock
    /\ m_next' = [m_next EXCEPT ![fb] = fb + nblocks * PtrSize]
    /\ fb' = fb + nblocks * PtrSize
    /\ room' = room - m_blockSize
    /\ m_nTot' = (m_nTot + 1) % CtrMod
    /\ UNCHANGED <<pc, arg, nblocks, m_start, m_end, m_free_head, m_blockSize,
                   m_nFree, m_nMin, has, putting, asrt>>

initDone ==
    /\ pc = "chain" /\ asrt = 0
    /\ room < m_blockSize
    /\ m_next' = [m_next EXCEPT ![fb] = NULL]
    /\ m_nFree' = m_nTot
    /\ m_nMin' = m_nTot
    /\ m_start' = poolSto
    /\ m_end' = fb
    /\ pc' = "ready"
    /\ UNCHANGED <<arg, room, nblocks, fb, m_free_head, m_blockSize, m_nTot,
                   has, putting, asrt>>

\* faulty: the last block counts as outside
InRangeShort(b) == b # NULL /\ m_start <= b /\ b < m_end
InRange(b) == b # NULL /\ m_start <= b /\ b <= m_end

(***************************************************************************)
(* put(b): the precondition is tested outside the critical section.        *)
(***************************************************************************)
putRequire(c, b) ==
    /\ pc = "ready" /\ asrt = 0
    /\ b \in has[c] /\ putting[c] = NULL
    /\ IF m_nFree < m_nTot /\ InRange(b)
       THEN putting' = [putting EXCEPT ![c] = b] /\ UNCHANGED asrt
       ELSE asrt' = 200 /\ UNCHANGED putting
    /\ UNCHANGED <<initVars, pool, has>>

\* faulty: the list keeps its head
PushLost(b) == /\ m_next' = [m_next EXCEPT ![b] = m_free_head]
               /\ UNCHANGED m_free_head
Push(b) == /\ m_next' = [m_next EXCEPT ![b] = m_free_head]
           /\ m_free_head' = b

putLink(c) ==
    /\ asrt = 0
    /\ putting[c] # NULL
    /\ Push(putting[c])
    /\ m_nFree' = (m_nFree + 1) % CtrMod
    /\ has' = [has EXCEPT ![c] = @ \ {putting[c]}]
    /\ putting' = [putting EXCEPT ![c] = NULL]
    /\ UNCHANGED <<initVars, m_start, m_end, m_blockSize, m_nTot, m_nMin, asrt>>

(***************************************************************************)
(* get(margin).  A client that is refused gets NULL and nothing changes.   *)
(* Which assertion the free list fails, if any:                            *)
(***************************************************************************)
getAssertion == IF m_free_head = NULL THEN 310
                ELSE IF m_nFree = 1
                     THEN IF m_next[m_free_head] = NULL THEN 0 ELSE 320
                     ELSE IF m_next[m_free_head] = Data THEN 330
                     ELSE IF InRange(m_next[m_free_head]) THEN 0 ELSE 330

NewMinimumNot == m_nMin  \* faulty: the low-water mark is not kept
NewMinimum == IF m_nMin > m_nFree - 1 THEN m_nFree - 1 ELSE m_nMin

get(c, margin) ==
    /\ pc = "ready" /\ asrt = 0
    /\ putting[c] = NULL
    /\ m_nFree > margin % CtrMod
    /\ asrt' = getAssertion
    /\ IF asrt' = 0
       THEN /\ m_nFree' = m_nFree - 1
            /\ m_nMin' = NewMinimum
            /\ m_free_head' = m_next[m_free_head]
            /\ has' = [has EXCEPT ![c] = @ \cup {m_free_head}]
            /\ m_next' = [m_next EXCEPT ![m_free_head] = Data]
       ELSE UNCHANGED <<m_nFree, m_nMin, m_free_head, has, m_next>>
    /\ UNCHANGED <<initVars, m_start, m_end, m_blockSize, m_nTot, putting>>

Next == \/ \E poolSize \in PoolSizes, blockSize \in BlockSizes :
              initArgs(poolSize, blockSize)
        \/ initRound \/ initFirst \/ initChain \/ initDone
        \/ \E c \in Clients : \/ \E margin \in Margins : get(c, margin)
                              \/ \E b \in has[c] : putRequire(c, b)
                              \/ putLink(c)

\* init() is straight-line code with loops: it keeps running until it is done.
Fairness == WF_vars(initRound) /\ WF_vars(initFirst) /\ WF_vars(initChain)
            /\ WF_vars(initDone)

Spec == Init /\ [][Next]_vars /\ Fairness

-----------------------------------------------------------------------------
(***************************************************************************)
(* Properties.                                                             *)
(***************************************************************************)
Word == 0 .. (arg.poolSize - 1)

\* The block reached after n links from the head of the free list.
Walk[n \in Nat] == IF n = 0 THEN m_free_head
                   ELSE IF Walk[n - 1] \in {NULL, Data} THEN NULL
                   ELSE m_next[Walk[n - 1]]

FreeList == IF pc = "ready" THEN {Walk[n] : n \in 0 .. (m_nFree - 1)} ELSE {}
Owned == UNION {has[c] : c \in Clients}
Blocks == FreeList \cup Owned

\* The free list holds m_nFree different blocks and then ends, no block is
\* both free and owned, and none is owned twice or lost: get() and put()
\* move the head and the count in step (qf_mem.cpp:183-186, 229-258).
FreeListExact ==
    pc = "ready" =>
        /\ Walk[m_nFree] = NULL
        /\ FreeList \subseteq Word
        /\ Cardinality(FreeList) = m_nFree
        /\ FreeList \cap Owned = {}
        /\ \A c, d \in Clients : c # d => has[c] \cap has[d] = {}
        /\ Cardinality(Blocks) = m_nTot

\* Clients that only return what they got never trip put()'s precondition
\* (200), although it is evaluated outside the critical section, nor the
\* assertions about the free list in get() (310, 320, 330).
NoPoolAssertion == asrt \notin {200, 310, 320, 330}

\* Every block is as large as was asked for, aligned for a pointer, inside
\* the storage and apart from every other block (init()'s loops).
BlocksFit ==
    pc = "ready" =>
        \A b \in Blocks :
            /\ b % PtrSize = 0
            /\ b + arg.blockSize <= arg.poolSize
            /\ \A d \in Blocks \ {b} : b + arg.blockSize <= d
                                       \/ d + arg.blockSize <= b

\* The linked free list implements the set of free blocks.
AbstractPool == INSTANCE BlockPool WITH
                    blocks <- IF pc = "ready" THEN Blocks ELSE {},
                    free <- FreeList, low <- m_nMin
ImplementsPool == AbstractPool!Spec

(***************************************************************************)
(* init() rejects a block size "too close to the top of the dynamic range" *)
(* (qf_mem.cpp:107), so that rounding it up comes to an end.               *)
(***************************************************************************)
InitTerminates == (pc = "round") ~> (pc = "ready" \/ asrt # 0)
=============================================================================
