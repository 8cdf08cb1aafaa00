---------------------------- MODULE QMPoolProofs ----------------------------
(***************************************************************************)
(* For storage and blocks of every size, any number of clients and all     *)
(* margins: the free list of the memory pool is exact, its blocks fit, its *)
(* assertions never fire, and it implements the set of free blocks.        *)
(*                                                                         *)
(* The invariant follows init() up to the grid of blocks that it cuts, and *)
(* then names the free list: a sequence of different blocks of the grid,   *)
(* which together with the blocks that clients own make up all of it.      *)
(***************************************************************************)
EXTENDS QMPool, FiniteSetTheorems, WellFoundedInduction, TLAPS

\* A non-empty set of naturals has a smallest element.
LEMMA SmallestExists ==
    ASSUME NEW S, S \subseteq Nat, S # {}
    PROVE  \E x \in S : \A y \in S : x <= y
<1>1. PICK x \in S : \A y \in S : ~(<<y, x>> \in OpToRel(<, Nat))
  BY WFMin, NatLessThanWellFounded
<1>2. \A y \in S : ~(y < x)
  BY <1>1 DEF OpToRel
<1> QED BY <1>2

\* The integer types are wide enough: the size that init() rounds a block to
\* can be represented in QMPoolSize, and the number of blocks in QMPoolCtr.
TypesWideEnough ==
    /\ PtrSize < FastMod /\ PtrSize < SizeMod
    /\ \A b \in BlockSizes : RoundingFits(b) => b + PtrSize <= SizeMod
    /\ \A n \in PoolSizes : n < CtrMod * PtrSize

\* The first n blocks of the size b.
Grid(b, n) == {k * b : k \in 0 .. n - 1}
AllBlocks == Grid(m_blockSize, m_nTot)

\* The list of the links nx from head runs through f[1], ..., f[n].
Linked(nx, head, n, f) ==
    /\ head = IF n = 0 THEN NULL ELSE f[1]
    /\ \A i \in 1 .. n : nx[f[i]] = IF i = n THEN NULL ELSE f[i + 1]

Distinct(n, f) == \A i, j \in 1 .. n : f[i] = f[j] => i = j

\* The blocks of G are the free ones, f[1] to f[n], and those that one client
\* owns, each just once.
Shared(G, n, f, own) ==
    /\ Distinct(n, f)
    /\ \A c \in Clients : \A i \in 1 .. n : f[i] \notin own[c]
    /\ \A c, d \in Clients : c # d => own[c] \cap own[d] = {}
    /\ G = {f[i] : i \in 1 .. n} \cup UNION {own[c] : c \in Clients}

-----------------------------------------------------------------------------
(***************************************************************************)
(* The inductive invariant.                                                *)
(***************************************************************************)
TypeInv ==
    /\ pc \in {"new", "round", "chain", "ready"}
    /\ arg \in [poolSize : Nat, blockSize : Nat]
    /\ room \in Nat /\ nblocks \in Nat /\ m_blockSize \in Nat
    /\ m_nTot \in Nat /\ m_nFree \in Nat /\ m_nMin \in Nat
    /\ has \in [Clients -> SUBSET Nat]
    /\ putting \in [Clients -> Nat \cup {NULL}]
    /\ pc # "new" => m_next \in [Word -> Nat \cup {NULL, Data}]

\* Until init() is done nobody owns a block.
Closed == pc # "ready" => /\ has = [c \in Clients |-> {}]
                          /\ putting = [c \in Clients |-> NULL]
                          /\ m_nMin = 0
                          /\ pc # "new" => m_free_head = poolSto

\* The block size is a number of whole pointers, at most one more than needed.
Rounded == pc # "new" => /\ arg.poolSize \in PoolSizes
                         /\ arg.blockSize \in BlockSizes
                         /\ RoundingFits(arg.blockSize)
                         /\ arg.poolSize >= PtrSize
                         /\ nblocks >= 1 /\ m_blockSize = nblocks * PtrSize
                         /\ nblocks = 1 \/ m_blockSize < arg.blockSize + PtrSize
                         /\ pc = "round" => room = arg.poolSize

\* m_nTot blocks are cut off the storage, and fb is the last one.
Cut == pc \in {"chain", "ready"} =>
          /\ m_blockSize >= arg.blockSize /\ m_nTot >= 1
          /\ room + m_nTot * m_blockSize = arg.poolSize
          /\ fb = (m_nTot - 1) * m_blockSize

Chained == pc = "chain" => \A k \in 0 .. m_nTot - 2 :
                              m_next[k * m_blockSize] = (k + 1) * m_blockSize

Ready == pc = "ready" =>
            /\ m_start = poolSto /\ m_end = (m_nTot - 1) * m_blockSize
            /\ \A c \in Clients : putting[c] # NULL => putting[c] \in has[c]
            /\ \E f \in [1 .. m_nFree -> AllBlocks] :
                  /\ Linked(m_next, m_free_head, m_nFree, f)
                  /\ Shared(AllBlocks, m_nFree, f, has)

IInv == /\ TypeInv /\ Closed /\ Rounded /\ Cut /\ Chained /\ Ready
        /\ asrt \in {0, 100, 110}

-----------------------------------------------------------------------------
(***************************************************************************)
(* Arithmetic.                                                             *)
(***************************************************************************)
\* A number below the modulus is its own remainder.
LEMMA ModSmall ==
    ASSUME NEW m \in Nat \ {0}, NEW x \in 0 .. m - 1 PROVE x % m = x
OBVIOUS

\* A sum that passes the modulus wraps below its first summand.
LEMMA ModWraps ==
    ASSUME NEW m \in Nat \ {0}, NEW x \in 0 .. m - 1, NEW y \in 0 .. m - 1,
           (x + y) % m > x
    PROVE  x + y < m
<1> SUFFICES ASSUME x + y >= m PROVE FALSE
  OBVIOUS
<1>1. x + y - m \in 0 .. m - 1 /\ x + y - m <= x
  OBVIOUS
<1>2. (x + y) % m = x + y - m
  OBVIOUS
<1> QED BY <1>1, <1>2

\* Products grow by at least one factor.
LEMMA Multiples ==
    ASSUME NEW b \in Nat, NEW k \in Nat, NEW j \in Nat, k < j
    PROVE  k * b + b <= j * b /\ k * b \in Nat /\ j * b \in Nat
<1>1. PICK d \in Nat : j = k + 1 + d
  <2>1. j - k - 1 \in Nat /\ j = k + 1 + (j - k - 1)
    OBVIOUS
  <2> QED BY <2>1
<1>2. j * b = k * b + b + d * b
  BY <1>1
<1>3. d * b \in Nat /\ k * b \in Nat
  OBVIOUS
<1> QED BY <1>2, <1>3

\* Two blocks of the grid do not overlap.
LEMMA GridApart ==
    ASSUME NEW b \in Nat, NEW k \in Nat, NEW j \in Nat, k # j
    PROVE  k * b + b <= j * b \/ j * b + b <= k * b
<1>1. CASE k < j
  BY <1>1, Multiples
<1>2. CASE j < k
  BY <1>2, Multiples
<1> QED BY <1>1, <1>2

\* A list of n different elements has n elements.
LEMMA RangeCardinality ==
    ASSUME NEW n \in Nat, NEW f, Distinct(n, f), NEW R, R = {f[i] : i \in 1 .. n}
    PROVE  IsFiniteSet(R) /\ Cardinality(R) = n
<1> DEFINE g == [i \in 1 .. n |-> f[i]]
<1>1. g \in Bijection(1 .. n, R)
  BY DEF Distinct, Bijection, Injection, Surjection, IsInjective
<1>2. ExistsBijection(1 .. n, R)
  BY <1>1 DEF ExistsBijection
<1>3. IsFiniteSet(1 .. n) /\ Cardinality(1 .. n) = n
  BY FS_Interval
<1> QED BY <1>2, <1>3, FS_Bijection

\* The grid has as many elements as blocks.
LEMMA GridCardinality ==
    ASSUME NEW b \in Nat \ {0}, NEW n \in Nat
    PROVE  IsFiniteSet(Grid(b, n)) /\ Cardinality(Grid(b, n)) = n
<1> DEFINE f == [i \in 1 .. n |-> (i - 1) * b]
<1>1. Distinct(n, f)
  <2> SUFFICES ASSUME NEW i \in 1 .. n, NEW j \in 1 .. n, i # j, f[i] = f[j]
               PROVE  FALSE
    BY DEF Distinct
  <2>1. (i - 1) * b + b <= (j - 1) * b \/ (j - 1) * b + b <= (i - 1) * b
    BY GridApart
  <2> QED BY <2>1
<1>2. Grid(b, n) = {f[i] : i \in 1 .. n}
  <2>1. ASSUME NEW k \in 0 .. n - 1 PROVE k * b \in {f[i] : i \in 1 .. n}
    <3>1. k + 1 \in 1 .. n /\ f[k + 1] = k * b
      OBVIOUS
    <3> QED BY <3>1
  <2>2. ASSUME NEW i \in 1 .. n PROVE f[i] \in Grid(b, n)
    <3>1. i - 1 \in 0 .. n - 1 /\ f[i] = (i - 1) * b
      OBVIOUS
    <3> QED BY <3>1 DEF Grid
  <2> HIDE DEF f
  <2> QED BY <2>1, <2>2 DEF Grid
<1> HIDE DEF f
<1> QED BY <1>1, <1>2, RangeCardinality

-----------------------------------------------------------------------------
(***************************************************************************)
(* The free list.                                                          *)
(***************************************************************************)
\* get() takes the first block of the list for client c.
LEMMA TakeFirst ==
    ASSUME NEW G, NEW D, G \subseteq D, NEW V, NEW nx \in [D -> V], NEW head,
           NEW n \in Nat \ {0}, NEW f \in [1 .. n -> G],
           NEW own \in [Clients -> SUBSET Nat], NEW c \in Clients,
           Linked(nx, head, n, f), Shared(G, n, f, own)
    PROVE  \E f2 \in [1 .. n - 1 -> G] :
              /\ Linked([nx EXCEPT ![head] = Data], nx[head], n - 1, f2)
              /\ Shared(G, n - 1, f2, [own EXCEPT ![c] = @ \cup {head}])
<1> DEFINE f2 == [i \in 1 .. n - 1 |-> f[i + 1]]
           nx2 == [nx EXCEPT ![head] = Data]
           own2 == [own EXCEPT ![c] = @ \cup {head}]
<1>1. head = f[1] /\ 1 \in 1 .. n /\ head \in G
  BY DEF Linked
<1>2. \A i \in 1 .. n - 1 : /\ i + 1 \in 1 .. n /\ f2[i] = f[i + 1]
                            /\ f[i + 1] # head /\ f[i + 1] \in G
  BY <1>1 DEF Shared, Distinct
<1>3. f2 \in [1 .. n - 1 -> G]
  BY <1>2
<1>4. Linked(nx2, nx[head], n - 1, f2)
  <2>1. nx[head] = IF n - 1 = 0 THEN NULL ELSE f2[1]
    <3>1. nx[head] = IF 1 = n THEN NULL ELSE f[2]
      BY <1>1 DEF Linked
    <3> QED BY <3>1
  <2>2. ASSUME NEW i \in 1 .. n - 1
        PROVE  nx2[f2[i]] = IF i = n - 1 THEN NULL ELSE f2[i + 1]
    <3>1. nx2[f2[i]] = nx[f[i + 1]]
      BY <1>2
    <3>2. nx[f[i + 1]] = IF i + 1 = n THEN NULL ELSE f[i + 1 + 1]
      BY <1>2 DEF Linked
    <3>3. i # n - 1 => f2[i + 1] = f[i + 1 + 1]
      OBVIOUS
    <3> HIDE DEF f2, nx2
    <3> QED BY <3>1, <3>2, <3>3
  <2> HIDE DEF f2, nx2
  <2> QED BY <2>1, <2>2 DEF Linked
<1>5. Shared(G, n - 1, f2, own2)
  <2>1. \A d \in Clients : own2[d] = IF d = c THEN own[d] \cup {head} ELSE own[d]
    OBVIOUS
  <2>2. Distinct(n - 1, f2)
    BY <1>2 DEF Shared, Distinct
  <2>3. \A d \in Clients : \A i \in 1 .. n - 1 : f2[i] \notin own2[d]
    BY <1>2, <2>1 DEF Shared
  <2>4. \A d \in Clients : head \notin own[d]
    BY <1>1 DEF Shared
  <2>5. \A d, e \in Clients : d # e => own2[d] \cap own2[e] = {}
    <3> SUFFICES ASSUME NEW d \in Clients, NEW e \in Clients, d # e
                 PROVE  own2[d] \cap own2[e] = {}
      OBVIOUS
    <3>1. own[d] \cap own[e] = {} /\ head \notin own[d] /\ head \notin own[e]
      BY <2>4 DEF Shared
    <3> HIDE DEF own2
    <3> QED BY <2>1, <3>1
  <2>6. {f[i] : i \in 1 .. n} = {head} \cup {f2[i] : i \in 1 .. n - 1}
    <3>1. ASSUME NEW i \in 1 .. n
          PROVE  f[i] \in {head} \cup {f2[j] : j \in 1 .. n - 1}
      <4>1. CASE i = 1
        BY <1>1, <4>1
      <4>2. CASE i # 1
        <5>1. i - 1 \in 1 .. n - 1 /\ f2[i - 1] = f[i]
          BY <4>2
        <5> QED BY <5>1
      <4> QED BY <4>1, <4>2
    <3>2. \A i \in 1 .. n - 1 : f2[i] \in {f[j] : j \in 1 .. n}
      BY <1>2
    <3> HIDE DEF f2
    <3> QED BY <1>1, <3>1, <3>2
  <2>7. UNION {own2[d] : d \in Clients} = {head} \cup UNION {own[d] : d \in Clients}
    <3> HIDE DEF own2
    <3>1. head \in own2[c]
      BY <2>1
    <3>2. \A d \in Clients : own[d] \subseteq own2[d] /\ own2[d] \subseteq own[d] \cup {head}
      BY <2>1
    <3>3. ASSUME NEW x, x \in UNION {own2[d] : d \in Clients}
          PROVE  x \in {head} \cup UNION {own[d] : d \in Clients}
      <4>1. PICK d \in Clients : x \in own2[d]
        BY <3>3
      <4> QED BY <3>2, <4>1
    <3>4. ASSUME NEW x, x \in {head} \cup UNION {own[d] : d \in Clients}
          PROVE  x \in UNION {own2[d] : d \in Clients}
      <4>1. PICK d \in Clients : x \in own2[d]
        BY <3>1, <3>2, <3>4
      <4> QED BY <4>1
    <3> QED BY <3>3, <3>4
  <2> HIDE DEF f2, own2
  <2> QED BY <2>2, <2>3, <2>5, <2>6, <2>7 DEF Shared
<1> QED BY <1>3, <1>4, <1>5

\* put() puts block b of client c in front of the list.
LEMMA PutFirst ==
    ASSUME NEW G, NEW D, G \subseteq D, NEW V, NEW nx \in [D -> V], NEW head,
           NEW n \in Nat, NEW f \in [1 .. n -> G],
           NEW own \in [Clients -> SUBSET Nat], NEW c \in Clients,
           NEW b \in own[c],
           Linked(nx, head, n, f), Shared(G, n, f, own)
    PROVE  \E f2 \in [1 .. n + 1 -> G] :
              /\ Linked([nx EXCEPT ![b] = head], b, n + 1, f2)
              /\ Shared(G, n + 1, f2, [own EXCEPT ![c] = @ \ {b}])
<1> DEFINE f2 == [i \in 1 .. n + 1 |-> IF i = 1 THEN b ELSE f[i - 1]]
           nx2 == [nx EXCEPT ![b] = head]
           own2 == [own EXCEPT ![c] = @ \ {b}]
<1>1. b \in G
  BY DEF Shared
<1>2. \A i \in 1 .. n : /\ i + 1 \in 1 .. n + 1 /\ f2[i + 1] = f[i]
                        /\ f[i] # b /\ f[i] \in G
  BY DEF Shared
<1>3. f2[1] = b /\ 1 \in 1 .. n + 1
  OBVIOUS
<1>4. \A i \in 1 .. n + 1 : i # 1 => i - 1 \in 1 .. n /\ f2[i] = f[i - 1]
  OBVIOUS
<1>5. f2 \in [1 .. n + 1 -> G]
  BY <1>1, <1>2
<1>6. Linked(nx2, b, n + 1, f2)
  <2>1. ASSUME NEW i \in 1 .. n + 1
        PROVE  nx2[f2[i]] = IF i = n + 1 THEN NULL ELSE f2[i + 1]
    <3>1. CASE i = 1
      <4>1. nx2[f2[i]] = head
        BY <1>1, <1>3, <3>1
      <4>2. n # 0 => f2[2] = f[1]
        BY <1>4
      <4> HIDE DEF f2, nx2
      <4> QED BY <3>1, <4>1, <4>2 DEF Linked
    <3>2. CASE i # 1
      <4>1. i - 1 \in 1 .. n /\ f2[i] = f[i - 1]
        BY <1>4, <3>2
      <4>2. nx2[f2[i]] = nx[f[i - 1]]
        BY <1>2, <4>1
      <4>3. nx[f[i - 1]] = IF i - 1 = n THEN NULL ELSE f[i - 1 + 1]
        BY <4>1 DEF Linked
      <4>4. i # n + 1 => f2[i + 1] = f[i - 1 + 1]
        BY <4>1
      <4> HIDE DEF f2, nx2
      <4> QED BY <4>2, <4>3, <4>4
    <3> QED BY <3>1, <3>2
  <2> HIDE DEF f2, nx2
  <2> QED BY <1>3, <2>1 DEF Linked
<1>7. Shared(G, n + 1, f2, own2)
  <2>1. \A d \in Clients : own2[d] = IF d = c THEN own[d] \ {b} ELSE own[d]
    OBVIOUS
  <2>2. \A d \in Clients : b \notin own2[d]
    <3> HIDE DEF own2
    <3> QED BY <2>1 DEF Shared
  <2>3. Distinct(n + 1, f2)
    <3> SUFFICES ASSUME NEW i \in 1 .. n + 1, NEW j \in 1 .. n + 1, f2[i] = f2[j]
                 PROVE  i = j
      BY DEF Distinct
    <3> HIDE DEF f2
    <3>1. CASE i = 1 \/ j = 1
      BY <1>2, <1>3, <1>4, <3>1
    <3>2. CASE i # 1 /\ j # 1
      <4>1. i - 1 \in 1 .. n /\ j - 1 \in 1 .. n /\ f[i - 1] = f[j - 1]
        BY <1>4, <3>2
      <4>2. i - 1 = j - 1
        BY <4>1 DEF Shared, Distinct
      <4> QED BY <4>2
    <3> QED BY <3>1, <3>2
  <2>4. \A d \in Clients : \A i \in 1 .. n + 1 : f2[i] \notin own2[d]
    <3> SUFFICES ASSUME NEW d \in Clients, NEW i \in 1 .. n + 1 PROVE f2[i] \notin own2[d]
      OBVIOUS
    <3> HIDE DEF f2, own2
    <3>1. CASE i = 1
      BY <1>3, <2>2, <3>1
    <3>2. CASE i # 1
      <4>1. i - 1 \in 1 .. n /\ f2[i] = f[i - 1]
        BY <1>4, <3>2
      <4>2. f[i - 1] \notin own[d]
        BY <4>1 DEF Shared
      <4> QED BY <2>1, <4>1, <4>2
    <3> QED BY <3>1, <3>2
  <2>5. \A d, e \in Clients : d # e => own2[d] \cap own2[e] = {}
    <3> HIDE DEF own2
    <3> QED BY <2>1 DEF Shared
  <2>6. {f2[i] : i \in 1 .. n + 1} = {b} \cup {f[i] : i \in 1 .. n}
    <3>1. ASSUME NEW i \in 1 .. n + 1
          PROVE  f2[i] \in {b} \cup {f[j] : j \in 1 .. n}
      <4>1. CASE i = 1
        BY <1>3, <4>1
      <4>2. CASE i # 1
        <5>1. i - 1 \in 1 .. n /\ f2[i] = f[i - 1]
          BY <1>4, <4>2
        <5> HIDE DEF f2
        <5> QED BY <5>1
      <4> QED BY <4>1, <4>2
    <3>2. \A i \in 1 .. n : f[i] \in {f2[j] : j \in 1 .. n + 1}
      <4> HIDE DEF f2
      <4> QED BY <1>2
    <3>3. b \in {f2[j] : j \in 1 .. n + 1}
      BY <1>3
    <3> HIDE DEF f2
    <3> QED BY <3>1, <3>2, <3>3
  <2>7. {b} \cup UNION {own2[d] : d \in Clients} = UNION {own[d] : d \in Clients}
    <3> HIDE DEF own2
    <3>1. \A d \in Clients : own2[d] \subseteq own[d] /\ own[d] \subseteq own2[d] \cup {b}
      BY <2>1
    <3>2. ASSUME NEW x, x \in {b} \cup UNION {own2[d] : d \in Clients}
          PROVE  x \in UNION {own[d] : d \in Clients}
      <4>1. PICK d \in Clients : x \in own[d]
        BY <3>1, <3>2
      <4> QED BY <4>1
    <3>3. ASSUME NEW x, x \in UNION {own[d] : d \in Clients}
          PROVE  x \in {b} \cup UNION {own2[d] : d \in Clients}
      <4>1. PICK d \in Clients : x \in own[d]
        BY <3>3
      <4> QED BY <3>1, <4>1
    <3> QED BY <3>2, <3>3
  <2> HIDE DEF f2, own2
  <2> QED BY <2>3, <2>4, <2>5, <2>6, <2>7 DEF Shared
<1> QED BY <1>5, <1>6, <1>7

\* While a client owns a block, fewer than all blocks are free.
LEMMA OwnedNotFree ==
    ASSUME NEW G, NEW n \in Nat, NEW m \in Nat, NEW f \in [1 .. n -> G],
           NEW own, Shared(G, n, f, own),
           IsFiniteSet(G), Cardinality(G) = m,
           NEW c \in Clients, NEW b \in own[c]
    PROVE  n < m
<1> DEFINE R == {f[i] : i \in 1 .. n}
<1>1. IsFiniteSet(R) /\ Cardinality(R) = n
  BY RangeCardinality DEF Shared
<1>2. b \in G /\ R \in SUBSET (G \ {b})
  BY DEF Shared
<1>3. IsFiniteSet(G \ {b}) /\ Cardinality(G \ {b}) = m - 1
  BY <1>2, FS_RemoveElement
<1>4. Cardinality(R) <= Cardinality(G \ {b})
  <2> HIDE DEF R
  <2> QED BY <1>2, <1>3, FS_Subset
<1> QED BY <1>1, <1>3, <1>4

-----------------------------------------------------------------------------
(***************************************************************************)
(* init() keeps the invariant.                                             *)
(***************************************************************************)
\* What the precondition of init() and the widths of the types guarantee.
LEMMA Widths ==
    ASSUME TypesWideEnough, NEW b \in BlockSizes, RoundingFits(b)
    PROVE  /\ b \in Nat /\ b + PtrSize < FastMod /\ b + PtrSize <= SizeMod
           /\ b % SizeMod = b
<1>1. b \in 0 .. FastMod - 1 /\ PtrSize \in 0 .. FastMod - 1 /\ PtrSize \in Nat \ {0}
      /\ FastMod \in Nat \ {0} /\ SizeMod \in Nat \ {0}
  BY PoolAssumption DEF TypesWideEnough
<1>2. b + PtrSize < FastMod
  BY <1>1, ModWraps DEF RoundingFits
<1>3. b + PtrSize <= SizeMod
  BY DEF TypesWideEnough
<1>4. b \in 0 .. SizeMod - 1
  BY <1>1, <1>3
<1> QED BY <1>1, <1>2, <1>3, <1>4, ModSmall

\* So many blocks as fit into the storage can be counted.
LEMMA BlocksCounted ==
    ASSUME TypesWideEnough, NEW p \in PoolSizes, NEW n \in Nat, NEW q \in Nat \ {0},
           n * (q * PtrSize) <= p
    PROVE  n < CtrMod
<1>1. p \in Nat /\ PtrSize \in Nat \ {0} /\ CtrMod \in Nat \ {0} /\ p < CtrMod * PtrSize
  BY PoolAssumption DEF TypesWideEnough
<1> SUFFICES ASSUME CtrMod <= n PROVE FALSE
  BY <1>1
<1>2. PtrSize <= q * PtrSize
  <2>1. CASE q = 1
    BY <1>1, <2>1
  <2>2. CASE 1 < q
    BY <1>1, <2>2, Multiples
  <2> QED BY <2>1, <2>2
<1>3. CtrMod * PtrSize <= n * PtrSize
  <2>1. CASE CtrMod = n
    BY <1>1, <2>1
  <2>2. CASE CtrMod < n
    BY <1>1, <2>2, Multiples
  <2> QED BY <1>1, <2>1, <2>2
<1>4. n * PtrSize <= n * (q * PtrSize)
  <2> DEFINE w == q * PtrSize
  <2>1. w \in Nat /\ PtrSize <= w
    BY <1>1, <1>2
  <2> HIDE DEF w
  <2>2. PICK d \in Nat : w = PtrSize + d
    <3>1. w - PtrSize \in Nat /\ w = PtrSize + (w - PtrSize)
      BY <1>1, <2>1
    <3> QED BY <3>1
  <2>3. n * w = n * PtrSize + n * d /\ n * d \in Nat /\ n * PtrSize \in Nat
    BY <1>1, <2>2
  <2>4. n * PtrSize <= n * w
    BY <2>3
  <2> QED BY <2>4 DEF w
<1>5. n * PtrSize \in Nat /\ CtrMod * PtrSize \in Nat /\ n * (q * PtrSize) \in Nat
  BY <1>1
<1> QED BY <1>1, <1>3, <1>4, <1>5

\* The constructor.
LEMMA InitInv == Init => IInv
BY DEF Init, IInv, TypeInv, Closed, Rounded, Cut, Chained, Ready

\* init() begins.
LEMMA ArgsInv ==
    ASSUME TypesWideEnough, IInv, NEW poolSize \in PoolSizes, NEW blockSize \in BlockSizes,
           initArgs(poolSize, blockSize)
    PROVE  IInv'
<1>1. poolSize \in Nat /\ blockSize \in Nat /\ PtrSize \in Nat \ {0} /\ SizeMod \in Nat \ {0}
      /\ PtrSize % SizeMod = PtrSize
  BY PoolAssumption, ModSmall DEF TypesWideEnough
<1>2. CASE poolSize >= PtrSize /\ RoundingFits(blockSize)
  <2>1. /\ pc' = "round" /\ arg' = [poolSize |-> poolSize, blockSize |-> blockSize]
        /\ room' = poolSize /\ nblocks' = 1 /\ m_free_head' = poolSto
        /\ m_blockSize' = PtrSize /\ asrt' = asrt
        /\ m_next' = [a \in 0 .. (poolSize - 1) |-> Data]
    BY <1>1, <1>2 DEF initArgs
  <2>2. arg'.poolSize = poolSize /\ arg'.blockSize = blockSize
    BY <2>1
  <2>3. TypeInv'
    BY <1>1, <2>1, <2>2 DEF initArgs, IInv, TypeInv, Word
  <2>4. Closed' /\ Rounded' /\ Cut' /\ Chained' /\ Ready'
    BY <1>1, <1>2, <2>1, <2>2
       DEF initArgs, IInv, Closed, Rounded, Cut, Chained, Ready, RoundingFits
  <2> QED BY <2>1, <2>3, <2>4 DEF IInv
<1>3. CASE ~(poolSize >= PtrSize /\ RoundingFits(blockSize))
  <2>1. asrt' = 100 /\ UNCHANGED <<initVars, pool, has, putting>>
    BY <1>3 DEF initArgs, initVars, pool
  <2> QED BY <2>1 DEF initArgs, IInv, initVars, pool, TypeInv, Closed, Rounded, Cut,
                      Chained, Ready, Word
<1> QED BY <1>2, <1>3

\* The block size grows by a pointer.
LEMMA RoundInv == ASSUME TypesWideEnough, IInv, initRound PROVE IInv'
<1> DEFINE bs == arg.blockSize
<1>1. /\ bs \in Nat /\ bs + PtrSize < FastMod /\ bs + PtrSize <= SizeMod
      /\ bs % SizeMod = bs
  BY Widths DEF initRound, IInv, Rounded
<1>2. PtrSize \in Nat \ {0} /\ FastMod \in Nat \ {0} /\ SizeMod \in Nat \ {0}
  BY PoolAssumption
<1>3. /\ nblocks \in Nat /\ nblocks >= 1 /\ m_blockSize = nblocks * PtrSize
      /\ m_blockSize \in Nat /\ m_blockSize < bs /\ pc = "round"
  BY <1>1 DEF initRound, IInv, Rounded, TypeInv
<1>4. nblocks <= nblocks * PtrSize
  <2>1. CASE PtrSize = 1
    BY <1>3, <2>1
  <2>2. CASE 1 < PtrSize
    <3>1. 1 * nblocks + nblocks <= PtrSize * nblocks
      BY <1>2, <1>3, <2>2, Multiples
    <3>2. PtrSize * nblocks = nblocks * PtrSize
      BY <1>2, <1>3
    <3> QED BY <1>2, <1>3, <3>1, <3>2
  <2> QED BY <1>2, <2>1, <2>2
<1>5. m_blockSize' = m_blockSize + PtrSize
  <2>1. m_blockSize + PtrSize \in 0 .. SizeMod - 1
    BY <1>1, <1>2, <1>3
  <2> QED BY <1>2, <2>1, ModSmall DEF initRound
<1>6. nblocks' = nblocks + 1
  <2>1. nblocks + 1 \in 0 .. FastMod - 1
    BY <1>1, <1>2, <1>3, <1>4
  <2> QED BY <1>2, <2>1, ModSmall DEF initRound, MorePointers
<1>7. (nblocks + 1) * PtrSize = nblocks * PtrSize + PtrSize
  BY <1>2, <1>3
<1>8. TypeInv'
  BY <1>2, <1>3, <1>5, <1>6 DEF initRound, IInv, TypeInv, Word
<1>9. Rounded'
  BY <1>1, <1>2, <1>3, <1>5, <1>6, <1>7 DEF initRound, IInv, Rounded, RoundingFits
<1> QED BY <1>3, <1>8, <1>9 DEF initRound, IInv, Closed, Cut, Chained, Ready

\* The first block is cut off.
LEMMA FirstInv == ASSUME TypesWideEnough, IInv, initFirst PROVE IInv'
<1>1. arg.blockSize % SizeMod = arg.blockSize
  BY Widths DEF initFirst, IInv, Rounded
<1>2. /\ m_blockSize \in Nat /\ room \in Nat /\ arg.blockSize \in Nat
      /\ m_blockSize >= arg.blockSize /\ room = arg.poolSize
      /\ arg.poolSize \in Nat /\ m_free_head = 0
  BY <1>1 DEF initFirst, IInv, Rounded, TypeInv, Closed, poolSto
<1>3. CASE room >= m_blockSize
  <2>1. /\ pc' = "chain" /\ room' = room - m_blockSize /\ m_nTot' = 1 /\ fb' = 0
        /\ asrt' = asrt /\ UNCHANGED <<m_blockSize, arg>>
    BY <1>2, <1>3 DEF initFirst
  <2>2. room' \in Nat /\ room' + m_blockSize' = arg'.poolSize
    BY <1>2, <1>3, <2>1
  <2>3. 1 * m_blockSize' = m_blockSize' /\ (1 - 1) * m_blockSize' = 0
    BY <1>2, <2>1
  <2>4. TypeInv'
    BY <1>2, <2>1, <2>2 DEF initFirst, IInv, TypeInv, Word
  <2>5. Cut'
    BY <1>2, <2>1, <2>2, <2>3 DEF Cut
  <2>6. Chained'
    BY <2>1 DEF Chained
  <2>7. Closed' /\ Rounded' /\ Ready'
    BY <2>1 DEF initFirst, IInv, Closed, Rounded, Ready, RoundingFits
  <2> QED BY <2>1, <2>4, <2>5, <2>6, <2>7 DEF IInv
<1>4. CASE ~(room >= m_blockSize)
  <2>1. asrt' = 110 /\ UNCHANGED <<initVars, pool, has, putting>>
    BY <1>4 DEF initFirst, initVars, pool
  <2> QED BY <2>1 DEF initFirst, IInv, initVars, pool, TypeInv, Closed, Rounded, Cut,
                      Chained, Ready, Word, RoundingFits
<1> QED BY <1>3, <1>4

\* The blocks cut so far lie in the storage, the last one first of the rest.
LEMMA GridInside ==
    ASSUME IInv, pc \in {"chain", "ready"}
    PROVE  /\ m_blockSize \in Nat \ {0} /\ m_blockSize >= PtrSize
           /\ m_nTot \in Nat \ {0}
           /\ \A k \in 0 .. m_nTot - 1 :
                 /\ k * m_blockSize \in Word
                 /\ k * m_blockSize + m_blockSize <= arg.poolSize
                 /\ k * m_blockSize <= (m_nTot - 1) * m_blockSize
           /\ AllBlocks \subseteq Word
<1>1. /\ nblocks \in Nat /\ nblocks >= 1 /\ m_blockSize = nblocks * PtrSize
      /\ m_nTot \in Nat /\ m_nTot >= 1 /\ room \in Nat /\ m_blockSize \in Nat
      /\ room + m_nTot * m_blockSize = arg.poolSize /\ arg.poolSize \in Nat
  BY DEF IInv, TypeInv, Rounded, Cut
<1>2. PtrSize \in Nat \ {0}
  BY PoolAssumption
<1>3. m_blockSize >= PtrSize
  <2>1. CASE nblocks = 1
    BY <1>1, <1>2, <2>1
  <2>2. CASE 1 < nblocks
    <3>1. 1 * PtrSize + PtrSize <= nblocks * PtrSize
      BY <1>1, <1>2, <2>2, Multiples
    <3> QED BY <1>1, <1>2, <3>1
  <2> QED BY <1>1, <2>1, <2>2
<1>4. ASSUME NEW k \in 0 .. m_nTot - 1
      PROVE  /\ k * m_blockSize \in Word
             /\ k * m_blockSize + m_blockSize <= arg.poolSize
             /\ k * m_blockSize <= (m_nTot - 1) * m_blockSize
  <2>1. k * m_blockSize + m_blockSize <= m_nTot * m_blockSize /\ k * m_blockSize \in Nat
        /\ m_nTot * m_blockSize \in Nat
    BY <1>1, Multiples
  <2>2. (m_nTot - 1) * m_blockSize = m_nTot * m_blockSize - m_blockSize
    BY <1>1
  <2>3. k * m_blockSize \in 0 .. arg.poolSize - 1
    BY <1>1, <1>2, <1>3, <2>1
  <2> QED BY <1>1, <2>1, <2>2, <2>3 DEF Word
<1>5. AllBlocks \subseteq Word
  BY <1>4 DEF AllBlocks, Grid
<1> QED BY <1>1, <1>2, <1>3, <1>4, <1>5

\* One more block is chained.
LEMMA ChainInv == ASSUME TypesWideEnough, IInv, initChain PROVE IInv'
<1> DEFINE b == m_blockSize
           n == m_nTot
<1>1. /\ pc = "chain" /\ asrt = 0 /\ room >= b /\ room \in Nat /\ arg.poolSize \in Nat
      /\ nblocks \in Nat \ {0} /\ b = nblocks * PtrSize /\ fb = (n - 1) * b
      /\ room + n * b = arg.poolSize
      /\ m_next \in [Word -> Nat \cup {NULL, Data}]
      /\ arg.poolSize \in PoolSizes
  BY DEF initChain, RoomForBlock, IInv, TypeInv, Rounded, Cut
<1>2. b \in Nat \ {0} /\ n \in Nat \ {0} /\ fb \in Word
  <2>1. n - 1 \in 0 .. n - 1
    BY GridInside, <1>1
  <2> QED BY <1>1, <2>1, GridInside
<1>3. /\ (n - 1) * b \in Nat /\ n * b \in Nat /\ n * b = (n - 1) * b + b
      /\ (n + 1) * b = n * b + b
  <2> HIDE DEF n, b
  <2> QED BY <1>2
<1>4. n + 1 < CtrMod
  <2>1. (n + 1) * b <= arg.poolSize
    BY <1>1, <1>2, <1>3
  <2>2. (n + 1) * (nblocks * PtrSize) <= arg.poolSize
    BY <1>1, <2>1
  <2>3. n + 1 \in Nat
    BY <1>2
  <2> HIDE DEF n
  <2> QED BY <1>1, <2>2, <2>3, BlocksCounted
<1>5. m_nTot' = n + 1
  <2>1. n + 1 \in 0 .. CtrMod - 1 /\ CtrMod \in Nat \ {0}
    BY <1>2, <1>4, PoolAssumption
  <2> QED BY <2>1, ModSmall DEF initChain
<1>6. /\ fb' = n * b /\ m_next' = [m_next EXCEPT ![fb] = n * b]
      /\ room' = room - b /\ UNCHANGED <<m_blockSize, arg, pc, asrt>>
  BY <1>1, <1>3 DEF initChain
<1>7. room' \in Nat /\ room' + (n + 1) * b = arg.poolSize
  BY <1>1, <1>2, <1>3, <1>6
<1>8. TypeInv'
  <2>1. m_next' \in [Word -> Nat \cup {NULL, Data}] /\ Word' = Word
    <3>1. n * b \in Nat /\ Word' = Word
      BY <1>3, <1>6 DEF Word
    <3> HIDE DEF n, b
    <3> QED BY <1>1, <1>6, <3>1
  <2>2. m_nTot' \in Nat
    BY <1>2, <1>5
  <2> QED BY <1>6, <1>7, <2>1, <2>2 DEF initChain, IInv, TypeInv
<1>9. Cut'
  <2>1. m_nTot' - 1 = n /\ m_nTot' >= 1
    BY <1>2, <1>5
  <2>2. m_blockSize >= arg.blockSize
    BY <1>1 DEF IInv, Cut
  <2> QED BY <1>5, <1>6, <1>7, <2>1, <2>2 DEF Cut
<1>10. Chained'
  <2> SUFFICES ASSUME NEW k \in 0 .. n - 1
               PROVE  m_next'[k * b] = (k + 1) * b
    <3>1. m_nTot' - 2 = n - 1 /\ m_blockSize' = b
      BY <1>2, <1>5, <1>6
    <3> HIDE DEF n
    <3> QED BY <3>1 DEF Chained
  <2>1. CASE k = n - 1
    <3>1. k * b = fb /\ (k + 1) * b = n * b
      BY <1>1, <1>2, <2>1
    <3> QED BY <1>1, <1>2, <1>6, <3>1
  <2>2. CASE k # n - 1
    <3>1. k \in 0 .. n - 2
      BY <1>2, <2>2
    <3>2. k * b + b <= (n - 1) * b /\ k * b \in Nat
      BY <1>2, <3>1, Multiples
    <3>3. k * b # fb
      BY <1>1, <1>2, <1>3, <3>2
    <3>4. k * b \in Word
      BY <1>1, GridInside
    <3>5. m_next[k * b] = (k + 1) * b
      BY <1>1, <3>1 DEF IInv, Chained
    <3> HIDE DEF b, n
    <3> QED BY <1>1, <1>6, <3>3, <3>4, <3>5
  <2> QED BY <2>1, <2>2
<1>11. Closed' /\ Rounded' /\ Ready'
  BY <1>1, <1>6 DEF initChain, IInv, Closed, Rounded, Ready, RoundingFits
<1> QED BY <1>1, <1>6, <1>8, <1>9, <1>10, <1>11 DEF IInv

\* The chain is terminated: all blocks are free, in the order of the grid.
LEMMA DoneInv == ASSUME IInv, initDone PROVE IInv'
<1> DEFINE b == m_blockSize
           n == m_nTot
           f == [i \in 1 .. n |-> (i - 1) * b]
           nx == [m_next EXCEPT ![fb] = NULL]
<1>1. /\ pc = "chain" /\ asrt = 0 /\ pc' = "ready" /\ asrt' = 0
      /\ m_next' = nx /\ m_nFree' = n /\ m_nMin' = n /\ m_start' = 0 /\ m_end' = fb
      /\ UNCHANGED <<arg, room, nblocks, fb, m_free_head, m_blockSize, m_nTot,
                     has, putting>>
      /\ fb = (n - 1) * b /\ m_free_head = 0
      /\ m_next \in [Word -> Nat \cup {NULL, Data}]
      /\ has = [c \in Clients |-> {}] /\ putting = [c \in Clients |-> NULL]
  BY DEF initDone, IInv, TypeInv, Cut, Closed, poolSto
<1>2. b \in Nat \ {0} /\ n \in Nat \ {0} /\ fb \in Word
  <2>1. n - 1 \in 0 .. n - 1
    BY GridInside, <1>1
  <2> QED BY <1>1, <2>1, GridInside
<1>3. ASSUME NEW i \in 1 .. n
      PROVE  i - 1 \in 0 .. n - 1 /\ f[i] = (i - 1) * b /\ f[i] \in Word
             /\ f[i] \in AllBlocks
  <2>1. i - 1 \in 0 .. n - 1 /\ f[i] = (i - 1) * b
    BY <1>2
  <2>2. (i - 1) * b \in Word
    BY <1>1, <2>1, GridInside
  <2>3. (i - 1) * b \in AllBlocks
    BY <2>1 DEF AllBlocks, Grid
  <2> QED BY <2>1, <2>2, <2>3
<1>4. f \in [1 .. n -> AllBlocks]
  BY <1>3
<1>5. Linked(nx, 0, n, f)
  <2>1. f[1] = 0 /\ n # 0
    BY <1>2
  <2>2. ASSUME NEW i \in 1 .. n PROVE nx[f[i]] = IF i = n THEN NULL ELSE f[i + 1]
    <3>1. CASE i = n
      <4>1. f[i] = fb
        BY <1>1, <1>3, <3>1
      <4> QED BY <1>1, <1>2, <3>1, <4>1
    <3>2. CASE i # n
      <4>1. i - 1 \in 0 .. n - 2 /\ i + 1 \in 1 .. n /\ i - 1 < n - 1
            /\ i - 1 \in Nat /\ n - 1 \in Nat
        BY <1>2, <3>2
      <4>2. m_next[(i - 1) * b] = (i - 1 + 1) * b
        BY <1>1, <4>1 DEF IInv, Chained
      <4>3. f[i + 1] = (i - 1 + 1) * b
        BY <4>1
      <4>4. (i - 1) * b + b <= (n - 1) * b /\ (i - 1) * b \in Nat /\ (n - 1) * b \in Nat
        BY <1>2, <4>1, Multiples
      <4>5. f[i] # fb
        BY <1>1, <1>2, <1>3, <4>4
      <4>6. nx[f[i]] = m_next[f[i]]
        BY <1>1, <1>3, <4>5
      <4> HIDE DEF f, nx, b, n
      <4> QED BY <1>3, <3>2, <4>2, <4>3, <4>6
    <3> QED BY <3>1, <3>2
  <2> HIDE DEF f, nx, n
  <2> QED BY <2>1, <2>2 DEF Linked
<1>6. Shared(AllBlocks, n, f, has)
  <2>1. Distinct(n, f)
    <3> SUFFICES ASSUME NEW i \in 1 .. n, NEW j \in 1 .. n, i # j, f[i] = f[j]
                 PROVE  FALSE
      BY DEF Distinct
    <3>1. i - 1 \in Nat /\ j - 1 \in Nat /\ i - 1 # j - 1
      BY <1>2
    <3>2. (i - 1) * b + b <= (j - 1) * b \/ (j - 1) * b + b <= (i - 1) * b
      BY <1>2, <3>1, GridApart
    <3>3. (i - 1) * b \in Nat /\ (j - 1) * b \in Nat
      BY <1>2, <3>1
    <3> QED BY <1>2, <1>3, <3>2, <3>3
  <2>2. \A c \in Clients : has[c] = {}
    BY <1>1
  <2>3. AllBlocks = {f[i] : i \in 1 .. n}
    <3>1. ASSUME NEW k \in 0 .. n - 1 PROVE k * b \in {f[i] : i \in 1 .. n}
      <4>1. k + 1 \in 1 .. n /\ f[k + 1] = (k + 1 - 1) * b /\ k + 1 - 1 = k
        BY <1>2
      <4> HIDE DEF f, b, n
      <4> QED BY <4>1
    <3> HIDE DEF f
    <3> QED BY <1>3, <3>1 DEF AllBlocks, Grid
  <2>4. UNION {has[c] : c \in Clients} = {}
    BY <2>2
  <2> HIDE DEF f, n
  <2> QED BY <2>1, <2>2, <2>3, <2>4 DEF Shared
<1>7. Ready'
  <2>1. AllBlocks' = AllBlocks
    BY <1>1 DEF AllBlocks
  <2>2. \A c \in Clients : putting[c] = NULL
    BY <1>1
  <2>3. \E g \in [1 .. m_nFree' -> AllBlocks'] :
              /\ Linked(m_next', m_free_head', m_nFree', g)
              /\ Shared(AllBlocks', m_nFree', g, has')
    <3> HIDE DEF f, n, nx
    <3> QED BY <1>1, <1>4, <1>5, <1>6, <2>1
  <2> QED BY <1>1, <2>2, <2>3 DEF Ready, poolSto
<1>8. TypeInv'
  BY <1>1, <1>2 DEF IInv, TypeInv, Word
<1>9. Rounded' /\ Cut' /\ Chained' /\ Closed'
  BY <1>1 DEF IInv, Rounded, Cut, Chained, Closed, RoundingFits
<1> QED BY <1>1, <1>7, <1>8, <1>9 DEF IInv

-----------------------------------------------------------------------------
(***************************************************************************)
(* get() and put() keep the invariant.                                     *)
(***************************************************************************)
\* What get() and put() find.
LEMMA ReadyFacts ==
    ASSUME IInv, pc = "ready"
    PROVE  /\ AllBlocks \subseteq Word
           /\ \A g \in AllBlocks : g \in Nat /\ InRange(g)
           /\ IsFiniteSet(AllBlocks) /\ Cardinality(AllBlocks) = m_nTot
           /\ m_nTot \in Nat
           /\ \A c \in Clients : has[c] \subseteq AllBlocks
<1>1. /\ m_blockSize \in Nat \ {0} /\ m_nTot \in Nat \ {0}
      /\ \A k \in 0 .. m_nTot - 1 : k * m_blockSize \in Word
                                    /\ k * m_blockSize <= (m_nTot - 1) * m_blockSize
      /\ AllBlocks \subseteq Word
  BY GridInside
<1>2. ASSUME NEW g \in AllBlocks PROVE g \in Nat /\ InRange(g)
  <2>1. PICK k \in 0 .. m_nTot - 1 : g = k * m_blockSize
    BY DEF AllBlocks, Grid
  <2>2. g \in Word /\ g <= (m_nTot - 1) * m_blockSize
    BY <1>1, <2>1
  <2>3. g \in Nat
    BY <2>2 DEF Word, IInv, TypeInv
  <2> QED BY <2>2, <2>3, PoolAssumption DEF InRange, IInv, Ready, poolSto
<1>3. IsFiniteSet(AllBlocks) /\ Cardinality(AllBlocks) = m_nTot
  BY <1>1, GridCardinality DEF AllBlocks
<1>4. \A c \in Clients : has[c] \subseteq AllBlocks
  BY DEF IInv, Ready, Shared
<1> QED BY <1>1, <1>2, <1>3, <1>4

\* The precondition of put() holds of a block that the client owns.
LEMMA PutAllowed ==
    ASSUME IInv, pc = "ready", NEW c \in Clients, NEW b \in has[c]
    PROVE  m_nFree < m_nTot /\ InRange(b)
<1>1. PICK f \in [1 .. m_nFree -> AllBlocks] : Shared(AllBlocks, m_nFree, f, has)
  BY DEF IInv, Ready
<1>2. m_nFree \in Nat
  BY DEF IInv, TypeInv
<1>3. m_nFree < m_nTot
  <2> HIDE DEF AllBlocks
  <2> QED BY <1>1, <1>2, ReadyFacts, OwnedNotFree
<1> QED BY <1>3, ReadyFacts

\* The first half of put().
LEMMA PutRequireInv ==
    ASSUME IInv, NEW c \in Clients, NEW b \in has[c], putRequire(c, b)
    PROVE  IInv'
<1>1. /\ putting' = [putting EXCEPT ![c] = b] /\ asrt' = asrt
      /\ UNCHANGED <<initVars, pool, has>> /\ pc = "ready"
  BY PutAllowed DEF putRequire
<1>2. b \in Nat
  BY DEF IInv, TypeInv
<1>3. TypeInv'
  BY <1>1, <1>2 DEF IInv, TypeInv, initVars, pool, Word
<1>4. Ready'
  <2>1. AllBlocks' = AllBlocks
    BY <1>1 DEF AllBlocks, pool
  <2>2. ASSUME NEW d \in Clients, putting'[d] # NULL PROVE putting'[d] \in has'[d]
    BY <1>1, <2>2 DEF IInv, TypeInv, Ready
  <2>3. /\ m_start' = m_start /\ m_end' = m_end /\ m_nTot' = m_nTot /\ m_nFree' = m_nFree
        /\ m_blockSize' = m_blockSize /\ m_next' = m_next /\ m_free_head' = m_free_head
        /\ has' = has /\ pc' = pc
    BY <1>1 DEF initVars, pool
  <2> QED BY <1>1, <2>1, <2>2, <2>3 DEF IInv, Ready
<1>5. Closed' /\ Rounded' /\ Cut' /\ Chained'
  BY <1>1 DEF IInv, Closed, Rounded, Cut, Chained, initVars, pool, RoundingFits
<1> QED BY <1>1, <1>3, <1>4, <1>5 DEF IInv

\* The second half of put(): the block goes to the front of the list.
LEMMA PutLinkInv ==
    ASSUME TypesWideEnough, IInv, NEW c \in Clients, putLink(c)
    PROVE  IInv' /\ m_nFree' = m_nFree + 1
<1> DEFINE b == putting[c]
           G == AllBlocks
<1>1. pc = "ready"
  BY DEF putLink, IInv, Closed
<1>2. b \in has[c] /\ b \in Nat /\ m_nFree \in Nat
  BY <1>1 DEF putLink, IInv, Ready, TypeInv
<1>3. /\ m_next' = [m_next EXCEPT ![b] = m_free_head] /\ m_free_head' = b
      /\ has' = [has EXCEPT ![c] = @ \ {b}] /\ putting' = [putting EXCEPT ![c] = NULL]
      /\ m_nFree' = (m_nFree + 1) % CtrMod
      /\ UNCHANGED <<pc, arg, room, nblocks, fb, m_start, m_end, m_blockSize, m_nTot,
                     m_nMin, asrt>>
  BY DEF putLink, Push, initVars
<1>4. m_nFree' = m_nFree + 1
  <2>1. m_nFree < m_nTot
    BY <1>1, <1>2, PutAllowed
  <2>2. m_nTot * (nblocks * PtrSize) <= arg.poolSize
    BY <1>1 DEF IInv, TypeInv, Rounded, Cut
  <2>3. m_nTot \in Nat /\ nblocks \in Nat \ {0} /\ arg.poolSize \in PoolSizes
    BY <1>1 DEF IInv, TypeInv, Rounded
  <2>4. m_nTot < CtrMod
    BY <2>2, <2>3, BlocksCounted
  <2>5. m_nFree + 1 \in 0 .. CtrMod - 1 /\ CtrMod \in Nat \ {0}
    BY <1>2, <2>1, <2>3, <2>4, PoolAssumption
  <2> QED BY <1>3, <2>5, ModSmall
<1>5. /\ m_next \in [Word -> Nat \cup {NULL, Data}] /\ G \subseteq Word
      /\ has \in [Clients -> SUBSET Nat] /\ b \in Word
      /\ putting \in [Clients -> Nat \cup {NULL}]
  <2>1. b \in G
    BY <1>1, <1>2, ReadyFacts
  <2> HIDE DEF b, G
  <2> QED BY <1>1, <2>1, ReadyFacts DEF IInv, TypeInv, G
<1>6. PICK f \in [1 .. m_nFree -> G] : /\ Linked(m_next, m_free_head, m_nFree, f)
                                       /\ Shared(G, m_nFree, f, has)
  BY <1>1 DEF IInv, Ready
<1>7. \E f2 \in [1 .. m_nFree + 1 -> G] :
         /\ Linked([m_next EXCEPT ![b] = m_free_head], b, m_nFree + 1, f2)
         /\ Shared(G, m_nFree + 1, f2, [has EXCEPT ![c] = @ \ {b}])
  <2> HIDE DEF b, G
  <2> QED BY <1>2, <1>5, <1>6, PutFirst
<1>8. Ready'
  <2>1. AllBlocks' = G
    BY <1>3 DEF AllBlocks
  <2>2. ASSUME NEW d \in Clients, putting'[d] # NULL PROVE putting'[d] \in has'[d]
    <3>1. d # c /\ putting'[d] = putting[d] /\ has'[d] = has[d]
      BY <1>3, <1>5, <2>2
    <3> QED BY <1>1, <2>2, <3>1 DEF IInv, Ready
  <2>3. \E f2 \in [1 .. m_nFree' -> AllBlocks'] :
           /\ Linked(m_next', m_free_head', m_nFree', f2)
           /\ Shared(AllBlocks', m_nFree', f2, has')
    <3> HIDE DEF b, G
    <3> QED BY <1>3, <1>4, <1>7, <2>1
  <2> QED BY <1>1, <1>3, <2>2, <2>3 DEF IInv, Ready
<1>9. TypeInv'
  <2>1. m_next' \in [Word -> Nat \cup {NULL, Data}] /\ Word' = Word
    <3>1. m_free_head \in Nat \cup {NULL}
      <4>1. CASE m_nFree = 0
        BY <1>6, <4>1 DEF Linked
      <4>2. CASE m_nFree # 0
        <5>1. m_free_head \in G
          BY <1>2, <1>6, <4>2 DEF Linked
        <5> QED BY <1>1, <5>1, ReadyFacts
      <4> QED BY <4>1, <4>2
    <3> HIDE DEF b
    <3> QED BY <1>3, <1>5, <3>1 DEF Word
  <2>2. has' \in [Clients -> SUBSET Nat] /\ putting' \in [Clients -> Nat \cup {NULL}]
    <3> HIDE DEF b
    <3> QED BY <1>3, <1>5
  <2>3. m_nFree' \in Nat
    BY <1>2, <1>4
  <2> QED BY <1>3, <2>1, <2>2, <2>3 DEF IInv, TypeInv
<1>10. Closed' /\ Rounded' /\ Cut' /\ Chained'
  BY <1>1, <1>3 DEF IInv, Closed, Rounded, Cut, Chained, RoundingFits
<1> QED BY <1>3, <1>4, <1>8, <1>9, <1>10 DEF IInv

\* The free list passes the assertions of get().
LEMMA GetAllowed ==
    ASSUME IInv, pc = "ready", m_nFree > 0
    PROVE  getAssertion = 0 /\ m_free_head \in AllBlocks
<1>1. PICK f \in [1 .. m_nFree -> AllBlocks] : Linked(m_next, m_free_head, m_nFree, f)
  BY DEF IInv, Ready
<1>2. m_nFree \in Nat /\ 1 \in 1 .. m_nFree
  BY DEF IInv, TypeInv
<1>3. m_free_head = f[1] /\ m_free_head \in AllBlocks /\ m_free_head # NULL
  BY <1>1, <1>2, ReadyFacts, PoolAssumption DEF Linked
<1>4. m_next[m_free_head] = IF 1 = m_nFree THEN NULL ELSE f[2]
  BY <1>1, <1>2, <1>3 DEF Linked
<1>5. m_nFree # 1 => f[2] \in AllBlocks
  BY <1>1, <1>2
<1>6. m_nFree # 1 => f[2] # Data /\ InRange(f[2])
  BY <1>5, ReadyFacts, PoolAssumption
<1> QED BY <1>3, <1>4, <1>6 DEF getAssertion

\* get() takes the first block of the list.
LEMMA GetInv ==
    ASSUME IInv, NEW c \in Clients, NEW margin \in Margins, get(c, margin)
    PROVE  /\ IInv' /\ m_nFree > margin % CtrMod
           /\ m_nFree' = m_nFree - 1 /\ m_nMin' = NewMinimum
<1> DEFINE h == m_free_head
           G == AllBlocks
<1>1. pc = "ready" /\ m_nFree \in Nat /\ margin % CtrMod \in Nat
      /\ m_nFree > margin % CtrMod /\ m_nMin \in Nat
  <2>1. margin \in Nat /\ CtrMod \in Nat \ {0}
    BY PoolAssumption
  <2>2. margin % CtrMod \in Nat
    BY <2>1
  <2> QED BY <2>2 DEF get, IInv, TypeInv
<1>2. getAssertion = 0 /\ h \in G
  BY <1>1, GetAllowed
<1>3. /\ m_nFree' = m_nFree - 1 /\ m_nMin' = NewMinimum
      /\ m_free_head' = m_next[h] /\ has' = [has EXCEPT ![c] = @ \cup {h}]
      /\ m_next' = [m_next EXCEPT ![h] = Data] /\ asrt' = 0
      /\ UNCHANGED <<pc, arg, room, nblocks, fb, m_start, m_end, m_blockSize, m_nTot,
                     putting>>
  BY <1>2 DEF get, initVars
<1>4. /\ m_next \in [Word -> Nat \cup {NULL, Data}] /\ G \subseteq Word
      /\ has \in [Clients -> SUBSET Nat] /\ h \in Word /\ h \in Nat
      /\ putting \in [Clients -> Nat \cup {NULL}]
  <2> HIDE DEF G
  <2> QED BY <1>1, <1>2, ReadyFacts DEF IInv, TypeInv, G
<1>5. PICK f \in [1 .. m_nFree -> G] : /\ Linked(m_next, h, m_nFree, f)
                                       /\ Shared(G, m_nFree, f, has)
  BY <1>1 DEF IInv, Ready
<1>6. \E f2 \in [1 .. m_nFree - 1 -> G] :
         /\ Linked([m_next EXCEPT ![h] = Data], m_next[h], m_nFree - 1, f2)
         /\ Shared(G, m_nFree - 1, f2, [has EXCEPT ![c] = @ \cup {h}])
  <2>1. m_nFree \in Nat \ {0}
    BY <1>1
  <2> HIDE DEF h, G
  <2> QED BY <1>4, <1>5, <2>1, TakeFirst
<1>7. Ready'
  <2>1. AllBlocks' = G
    BY <1>3 DEF AllBlocks
  <2>2. ASSUME NEW d \in Clients, putting'[d] # NULL PROVE putting'[d] \in has'[d]
    <3>1. putting'[d] = putting[d] /\ has[d] \subseteq has'[d]
      BY <1>3, <1>4
    <3> QED BY <1>1, <2>2, <3>1 DEF IInv, Ready
  <2>3. \E f2 \in [1 .. m_nFree' -> AllBlocks'] :
           /\ Linked(m_next', m_free_head', m_nFree', f2)
           /\ Shared(AllBlocks', m_nFree', f2, has')
    <3> HIDE DEF h, G
    <3> QED BY <1>3, <1>6, <2>1
  <2> QED BY <1>1, <1>3, <2>2, <2>3 DEF IInv, Ready
<1>8. TypeInv'
  <2>1. m_next' \in [Word -> Nat \cup {NULL, Data}] /\ Word' = Word
    <3> HIDE DEF h
    <3> QED BY <1>3, <1>4 DEF Word
  <2>2. has' \in [Clients -> SUBSET Nat]
    <3> HIDE DEF h
    <3> QED BY <1>3, <1>4
  <2>3. m_nFree' \in Nat /\ m_nMin' \in Nat
    BY <1>1, <1>3 DEF NewMinimum
  <2> QED BY <1>3, <2>1, <2>2, <2>3 DEF IInv, TypeInv
<1>9. Closed' /\ Rounded' /\ Cut' /\ Chained'
  BY <1>1, <1>3 DEF IInv, Closed, Rounded, Cut, Chained, RoundingFits
<1> QED BY <1>1, <1>3, <1>7, <1>8, <1>9 DEF IInv

\* Every step keeps the invariant.
LEMMA NextInv == ASSUME TypesWideEnough, IInv, [Next]_vars PROVE IInv'
<1>1. ASSUME NEW poolSize \in PoolSizes, NEW blockSize \in BlockSizes,
             initArgs(poolSize, blockSize)
      PROVE  IInv'
  BY <1>1, ArgsInv
<1>2. ASSUME NEW c \in Clients, NEW margin \in Margins, get(c, margin) PROVE IInv'
  BY <1>2, GetInv
<1>3. ASSUME NEW c \in Clients, NEW b \in has[c], putRequire(c, b) PROVE IInv'
  BY <1>3, PutRequireInv
<1>4. ASSUME NEW c \in Clients, putLink(c) PROVE IInv'
  BY <1>4, PutLinkInv
<1>5. CASE UNCHANGED vars
  BY <1>5 DEF vars, IInv, TypeInv, Closed, Rounded, Cut, Chained, Ready, Word, AllBlocks,
              RoundingFits
<1> QED BY <1>1, <1>2, <1>3, <1>4, <1>5, RoundInv, FirstInv, ChainInv, DoneInv DEF Next

\* The invariant holds in every reachable state.
LEMMA Invariance == ASSUME TypesWideEnough PROVE Spec => []IInv
<1>1. IInv /\ [Next]_vars => IInv'
  BY NextInv
<1> QED BY <1>1, InitInv, PTL DEF Spec

-----------------------------------------------------------------------------
(***************************************************************************)
(* The properties.                                                         *)
(***************************************************************************)
\* Walking the links finds the blocks of the list, and then its end.
LEMMA WalkIs ==
    ASSUME m_nFree \in Nat, NEW f \in [1 .. m_nFree -> Nat],
           Linked(m_next, m_free_head, m_nFree, f)
    PROVE  \A n \in Nat : Walk[n] = IF n < m_nFree THEN f[n + 1] ELSE NULL
<1> DEFINE walk == Walk
           closed == [n \in Nat |-> IF n < m_nFree THEN f[n + 1] ELSE NULL]
<1>1. closed = [n \in Nat |-> IF n = 0 THEN m_free_head
                              ELSE IF closed[n - 1] \in {NULL, Data} THEN NULL
                              ELSE m_next[closed[n - 1]]]
  <2>1. ASSUME NEW n \in Nat
        PROVE  closed[n] = IF n = 0 THEN m_free_head
                           ELSE IF closed[n - 1] \in {NULL, Data} THEN NULL
                           ELSE m_next[closed[n - 1]]
    <3>1. CASE n = 0
      BY <3>1 DEF Linked
    <3>2. CASE n # 0 /\ n - 1 < m_nFree
      <4>1. closed[n - 1] = f[n] /\ n \in 1 .. m_nFree
        BY <3>2
      <4>2. closed[n - 1] \notin {NULL, Data}
        BY <4>1, PoolAssumption
      <4>3. m_next[f[n]] = closed[n]
        BY <4>1 DEF Linked
      <4> HIDE DEF closed
      <4> QED BY <3>2, <4>1, <4>2, <4>3
    <3>3. CASE n # 0 /\ ~(n - 1 < m_nFree)
      BY <3>3
    <3> QED BY <3>1, <3>2, <3>3
  <2>2. closed = [n \in Nat |-> closed[n]]
    OBVIOUS
  <2> HIDE DEF closed
  <2> QED BY <2>1, <2>2
<1>2. walk = [n \in Nat |-> IF n = 0 THEN m_free_head
                            ELSE IF walk[n - 1] \in {NULL, Data} THEN NULL
                            ELSE m_next[walk[n - 1]]]
  <2> HIDE DEF closed
  <2> QED BY <1>1, Zenon DEF Walk
<1> DEFINE Bad == {n \in Nat : walk[n] # closed[n]}
<1>3. Bad = {}
  <2> SUFFICES ASSUME Bad # {} PROVE FALSE
    OBVIOUS
  <2>1. PICK n \in Bad : \A j \in Bad : n <= j
    <3>1. Bad \subseteq Nat
      OBVIOUS
    <3> HIDE DEF Bad
    <3> QED BY <3>1, SmallestExists
  <2>2. n \in Nat /\ walk[n] # closed[n]
    OBVIOUS
  <2> HIDE DEF closed, walk
  <2>3. n # 0
    BY <1>1, <1>2, <2>2
  <2>4. n - 1 \in Nat /\ n - 1 \notin Bad
    <3>1. n - 1 \in Nat /\ ~(n <= n - 1)
      BY <2>2, <2>3
    <3> HIDE DEF Bad
    <3> QED BY <2>1, <3>1
  <2>5. walk[n - 1] = closed[n - 1]
    BY <2>4
  <2> QED BY <1>1, <1>2, <2>2, <2>3, <2>5
<1> SUFFICES ASSUME NEW n \in Nat
             PROVE  walk[n] = IF n < m_nFree THEN f[n + 1] ELSE NULL
  OBVIOUS
<1>4. walk[n] = closed[n]
  <2> HIDE DEF walk, closed
  <2> QED BY <1>3
<1> HIDE DEF walk
<1> QED BY <1>4

\* What Walk and FreeList read out of the links, in terms of the invariant.
Reading ==
    pc = "ready" => /\ Walk[m_nFree] = NULL /\ Blocks = AllBlocks
                    /\ \E f \in [1 .. m_nFree -> AllBlocks] :
                          /\ Linked(m_next, m_free_head, m_nFree, f)
                          /\ Shared(AllBlocks, m_nFree, f, has)
                          /\ FreeList = {f[i] : i \in 1 .. m_nFree}

\* The invariant says what the free list is.
LEMMA ReadingHolds == IInv => Reading
<1> SUFFICES ASSUME IInv, pc = "ready" PROVE Reading
  BY DEF Reading
<1>1. PICK f \in [1 .. m_nFree -> AllBlocks] : /\ Linked(m_next, m_free_head, m_nFree, f)
                                               /\ Shared(AllBlocks, m_nFree, f, has)
  BY DEF IInv, Ready
<1>2. m_nFree \in Nat /\ f \in [1 .. m_nFree -> Nat]
  BY <1>1, ReadyFacts DEF IInv, TypeInv
<1>3. \A n \in Nat : Walk[n] = IF n < m_nFree THEN f[n + 1] ELSE NULL
  BY <1>1, <1>2, WalkIs
<1>4. FreeList = {f[i] : i \in 1 .. m_nFree}
  <2>1. FreeList = {Walk[n] : n \in 0 .. (m_nFree - 1)}
    BY DEF FreeList
  <2>2. ASSUME NEW n \in 0 .. m_nFree - 1 PROVE Walk[n] \in {f[i] : i \in 1 .. m_nFree}
    <3>1. n \in Nat /\ n < m_nFree /\ n + 1 \in 1 .. m_nFree
      BY <1>2
    <3> QED BY <1>3, <3>1
  <2>3. ASSUME NEW i \in 1 .. m_nFree PROVE f[i] \in {Walk[n] : n \in 0 .. (m_nFree - 1)}
    <3>1. i - 1 \in Nat /\ i - 1 \in 0 .. (m_nFree - 1) /\ i - 1 < m_nFree /\ i - 1 + 1 = i
      BY <1>2
    <3>2. Walk[i - 1] = f[i]
      BY <1>3, <3>1
    <3> QED BY <3>1, <3>2
  <2> QED BY <2>1, <2>2, <2>3
<1>5. Walk[m_nFree] = NULL
  BY <1>2, <1>3
<1>6. Blocks = AllBlocks
  BY <1>1, <1>4 DEF Blocks, Owned, Shared
<1> QED BY <1>1, <1>4, <1>5, <1>6 DEF Reading

\* The free list holds m_nFree different blocks and then ends, no block is
\* free and owned, owned twice or lost: get() and put() move the head and the
\* count in step.
THEOREM FreeListKept == ASSUME TypesWideEnough PROVE Spec => []FreeListExact
<1>1. IInv => FreeListExact
  <2> SUFFICES ASSUME IInv, pc = "ready"
               PROVE  /\ Walk[m_nFree] = NULL
                      /\ FreeList \subseteq Word
                      /\ Cardinality(FreeList) = m_nFree
                      /\ FreeList \cap Owned = {}
                      /\ \A c, d \in Clients : c # d => has[c] \cap has[d] = {}
                      /\ Cardinality(Blocks) = m_nTot
    BY DEF FreeListExact
  <2>1. Walk[m_nFree] = NULL /\ Blocks = AllBlocks /\ m_nFree \in Nat
    BY ReadingHolds DEF Reading, IInv, TypeInv
  <2>2. PICK f \in [1 .. m_nFree -> AllBlocks] :
           /\ Shared(AllBlocks, m_nFree, f, has)
           /\ FreeList = {f[i] : i \in 1 .. m_nFree}
    BY ReadingHolds DEF Reading
  <2>3. FreeList \subseteq Word
    BY <2>2, ReadyFacts
  <2>4. Cardinality(FreeList) = m_nFree
    <3> HIDE DEF FreeList
    <3> QED BY <2>1, <2>2, RangeCardinality DEF Shared
  <2>5. FreeList \cap Owned = {}
    BY <2>2 DEF Owned, Shared
  <2>6. \A c, d \in Clients : c # d => has[c] \cap has[d] = {}
    BY <2>2 DEF Shared
  <2>7. Cardinality(Blocks) = m_nTot
    BY <2>1, ReadyFacts
  <2> QED BY <2>1, <2>3, <2>4, <2>5, <2>6, <2>7
<1> QED BY <1>1, Invariance, PTL

\* put()'s precondition and the assertions on the free list in get() never
\* fail, however the critical sections of the clients interleave.
THEOREM PoolNeverAsserts == ASSUME TypesWideEnough PROVE Spec => []NoPoolAssertion
<1>1. IInv => NoPoolAssertion
  BY DEF IInv, NoPoolAssertion
<1> QED BY <1>1, Invariance, PTL

\* A multiple leaves no remainder.
LEMMA MultipleMod == ASSUME NEW k \in Nat, NEW n \in Nat \ {0} PROVE (k * n) % n = 0
OBVIOUS

\* The loops of init() cut blocks that are as large as was asked for, aligned
\* for a pointer, inside the storage and apart from each other.
THEOREM BlocksInStorage == ASSUME TypesWideEnough PROVE Spec => []BlocksFit
<1>1. IInv => BlocksFit
  <2> SUFFICES ASSUME IInv, pc = "ready", NEW x \in Blocks
               PROVE  /\ x % PtrSize = 0
                      /\ x + arg.blockSize <= arg.poolSize
                      /\ \A d \in Blocks \ {x} : x + arg.blockSize <= d
                                                 \/ d + arg.blockSize <= x
    BY DEF BlocksFit
  <2>1. /\ Blocks = AllBlocks /\ m_blockSize \in Nat /\ arg.blockSize \in Nat
        /\ arg.poolSize \in Nat /\ m_blockSize >= arg.blockSize
        /\ m_blockSize = nblocks * PtrSize /\ nblocks \in Nat /\ m_nTot \in Nat
    BY ReadingHolds DEF Reading, IInv, TypeInv, Cut, Rounded
  <2>2. PtrSize \in Nat \ {0}
    BY PoolAssumption
  <2>3. PICK k \in 0 .. m_nTot - 1 : x = k * m_blockSize
    BY <2>1 DEF AllBlocks, Grid
  <2>4. x \in Nat /\ x + m_blockSize <= arg.poolSize
    BY <2>1, <2>3, GridInside
  <2>5. x % PtrSize = 0
    <3>1. x = (k * nblocks) * PtrSize /\ k * nblocks \in Nat
      BY <2>1, <2>2, <2>3
    <3>2. PICK j \in Nat : x = j * PtrSize
      BY <3>1
    <3> QED BY ONLY <2>2, <3>2, MultipleMod
  <2>6. ASSUME NEW d \in Blocks \ {x}
        PROVE  x + arg.blockSize <= d \/ d + arg.blockSize <= x
    <3>1. PICK j \in 0 .. m_nTot - 1 : d = j * m_blockSize
      BY <2>1 DEF AllBlocks, Grid
    <3>2. j # k /\ j \in Nat /\ k \in Nat /\ d \in Nat
      BY <2>1, <2>3, <3>1
    <3>3. k * m_blockSize + m_blockSize <= j * m_blockSize
          \/ j * m_blockSize + m_blockSize <= k * m_blockSize
      BY <2>1, <3>2, GridApart
    <3>4. x + m_blockSize <= d \/ d + m_blockSize <= x
      BY <2>3, <3>1, <3>3
    <3> QED BY <2>1, <2>4, <3>2, <3>4
  <2>7. x + arg.blockSize <= arg.poolSize
    BY <2>1, <2>4
  <2> QED BY <2>5, <2>6, <2>7
<1> QED BY <1>1, Invariance, PTL

-----------------------------------------------------------------------------
(***************************************************************************)
(* The linked list implements the set of free blocks.                      *)
(***************************************************************************)
\* The blocks on the list are the ones that no client owns.
ListIsSet ==
    pc = "ready" => /\ Blocks = AllBlocks /\ FreeList = AllBlocks \ Owned
                    /\ Cardinality(FreeList) = m_nFree

\* The invariant implies it.
LEMMA ListIsSetHolds == IInv => ListIsSet
<1> SUFFICES ASSUME IInv, pc = "ready" PROVE ListIsSet
  BY DEF ListIsSet
<1>1. Blocks = AllBlocks /\ m_nFree \in Nat
  BY ReadingHolds DEF Reading, IInv, TypeInv
<1>2. PICK f \in [1 .. m_nFree -> AllBlocks] :
         /\ Shared(AllBlocks, m_nFree, f, has)
         /\ FreeList = {f[i] : i \in 1 .. m_nFree}
  BY ReadingHolds DEF Reading
<1>3. FreeList = AllBlocks \ Owned
  <2>1. AllBlocks = FreeList \cup Owned
    BY <1>2 DEF Shared, Owned
  <2>2. FreeList \cap Owned = {}
    BY <1>2 DEF Owned, Shared
  <2> HIDE DEF FreeList, Owned, AllBlocks
  <2> QED BY <2>1, <2>2
<1>4. Cardinality(FreeList) = m_nFree
  <2> HIDE DEF FreeList
  <2> QED BY <1>1, <1>2, RangeCardinality DEF Shared
<1> QED BY <1>1, <1>3, <1>4 DEF ListIsSet

\* The margins can be represented in QMPoolCtr.
MarginsFit == \A m \in Margins : m < CtrMod

\* BlockPool counts as this module does.
LEMMA SameCardinality ==
    ASSUME NEW S PROVE AbstractPool!Cardinality(S) = Cardinality(S)
BY Zenon DEF AbstractPool!Cardinality, Cardinality

\* The end of init() starts the abstract pool with all blocks.
LEMMA DoneRefines ==
    ASSUME IInv, IInv', ListIsSet', initDone
    PROVE  AbstractPool!Next
<1> DEFINE B == IF pc = "ready" THEN Blocks ELSE {}
<1>1. pc = "chain" /\ pc' = "ready" /\ has' = has /\ m_nMin' = m_nTot /\ m_nTot' = m_nTot
      /\ m_blockSize' = m_blockSize
  BY DEF initDone
<1>2. Owned' = {}
  BY <1>1 DEF IInv, Closed, Owned
<1>3. Blocks' = AllBlocks' /\ FreeList' = AllBlocks'
  BY <1>1, <1>2 DEF ListIsSet
<1>4. AllBlocks' = AllBlocks /\ Cardinality(AllBlocks) = m_nTot /\ AllBlocks # {}
  <2>1. m_blockSize \in Nat \ {0} /\ m_nTot \in Nat \ {0}
    BY <1>1, GridInside
  <2>2. Cardinality(AllBlocks) = m_nTot
    BY <2>1, GridCardinality DEF AllBlocks
  <2>3. 0 * m_blockSize \in AllBlocks
    BY <2>1 DEF AllBlocks, Grid
  <2> QED BY <1>1, <2>2, <2>3 DEF AllBlocks
<1>5. B = {} /\ B' = AllBlocks
  BY <1>1, <1>3, <1>4
<1>6. FreeList' = B' /\ m_nMin' = Cardinality(B')
  <2> HIDE DEF B, AllBlocks, FreeList
  <2> QED BY <1>1, <1>3, <1>4, <1>5
<1> HIDE DEF AllBlocks, FreeList
<1>7. m_nMin' = AbstractPool!Cardinality(B')
  BY <1>6, SameCardinality
<1> QED BY <1>4, <1>5, <1>6, <1>7 DEF AbstractPool!Next, AbstractPool!Start

\* get() takes a free block of the abstract pool.
LEMMA GetRefines ==
    ASSUME MarginsFit, IInv, ListIsSet, ListIsSet',
           NEW c \in Clients, NEW margin \in Margins, get(c, margin)
    PROVE  AbstractPool!Next
<1> DEFINE h == m_free_head
<1>1. /\ m_nFree > margin % CtrMod /\ m_nFree' = m_nFree - 1 /\ m_nMin' = NewMinimum
      /\ m_nFree \in Nat /\ m_nMin \in Nat /\ pc = "ready"
  BY GetInv DEF IInv, TypeInv, get
<1>2. margin % CtrMod = margin /\ margin \in Nat
  <2>1. margin \in 0 .. CtrMod - 1 /\ CtrMod \in Nat \ {0}
    BY PoolAssumption DEF MarginsFit
  <2> QED BY <2>1, ModSmall
<1>3. /\ getAssertion = 0 /\ h \in AllBlocks
  BY <1>1, <1>2, GetAllowed
<1>4. /\ has' = [has EXCEPT ![c] = @ \cup {h}] /\ pc' = pc
      /\ UNCHANGED <<m_blockSize, m_nTot>> /\ has \in [Clients -> SUBSET Nat]
  BY <1>3 DEF get, initVars, IInv, TypeInv
<1>5. Owned' = Owned \cup {h}
  <2>1. \A d \in Clients : has'[d] = IF d = c THEN has[d] \cup {h} ELSE has[d]
    BY <1>4
  <2>2. ASSUME NEW x \in Owned' PROVE x \in Owned \cup {h}
    <3>1. PICK d \in Clients : x \in has'[d]
      BY DEF Owned
    <3> QED BY <2>1, <3>1 DEF Owned
  <2>3. ASSUME NEW x \in Owned \cup {h} PROVE x \in Owned'
    <3>1. PICK d \in Clients : x \in has'[d]
      <4>1. CASE x = h
        BY <2>1, <4>1
      <4>2. CASE x # h
        BY <2>1, <4>2 DEF Owned
      <4> QED BY <4>1, <4>2
    <3> QED BY <3>1 DEF Owned
  <2> QED BY <2>2, <2>3
<1>6. /\ Blocks = AllBlocks /\ FreeList = AllBlocks \ Owned
      /\ Blocks' = AllBlocks /\ FreeList' = AllBlocks \ Owned'
      /\ Cardinality(FreeList) = m_nFree
  <2>1. AllBlocks' = AllBlocks
    BY <1>4 DEF AllBlocks
  <2> QED BY <1>1, <1>4, <2>1 DEF ListIsSet
<1>7. h \in FreeList
  <2>1. PICK f \in [1 .. m_nFree -> AllBlocks] :
           /\ Linked(m_next, m_free_head, m_nFree, f)
           /\ Shared(AllBlocks, m_nFree, f, has)
    BY <1>1 DEF IInv, Ready
  <2>2. h = f[1] /\ 1 \in 1 .. m_nFree
    BY <1>1, <1>2, <2>1 DEF Linked
  <2>3. \A d \in Clients : h \notin has[d]
    BY <2>1, <2>2 DEF Shared
  <2>4. h \notin Owned
    BY <2>3 DEF Owned
  <2> HIDE DEF h, FreeList, Owned, AllBlocks
  <2> QED BY <1>3, <1>6, <2>4
<1>8. FreeList' = FreeList \ {h}
  <2> HIDE DEF h, FreeList, Owned, AllBlocks
  <2> QED BY <1>5, <1>6
<1>9. m_nMin' = IF Cardinality(FreeList) - 1 < m_nMin THEN Cardinality(FreeList) - 1
                                                     ELSE m_nMin
  BY <1>1, <1>6 DEF NewMinimum
<1>10. \E m \in Margins : Cardinality(FreeList) > m
  BY <1>1, <1>2, <1>6
<1> HIDE DEF h, FreeList, Owned, AllBlocks, Blocks
<1>11. AbstractPool!Get(h)
  <2>1. AbstractPool!Cardinality(FreeList) = Cardinality(FreeList)
    BY SameCardinality
  <2> QED BY <1>1, <1>4, <1>6, <1>7, <1>8, <1>9, <1>10, <2>1 DEF AbstractPool!Get
<1> QED BY <1>1, <1>3, <1>6, <1>11 DEF AbstractPool!Next

\* The second half of put() returns the block to the abstract pool.
LEMMA PutRefines ==
    ASSUME IInv, ListIsSet, ListIsSet', NEW c \in Clients, putLink(c)
    PROVE  AbstractPool!Next
<1> DEFINE b == putting[c]
<1>1. pc = "ready"
  BY DEF putLink, IInv, Closed
<1>2. b \in has[c] /\ b \in AllBlocks
  <2>1. b \in has[c]
    BY <1>1 DEF putLink, IInv, Ready
  <2> QED BY <1>1, <2>1, ReadyFacts
<1>3. /\ has' = [has EXCEPT ![c] = @ \ {b}] /\ pc' = pc /\ m_nMin' = m_nMin
      /\ UNCHANGED <<m_blockSize, m_nTot>> /\ has \in [Clients -> SUBSET Nat]
  BY DEF putLink, initVars, IInv, TypeInv
<1>4. \A d, e \in Clients : d # e => has[d] \cap has[e] = {}
  BY <1>1 DEF IInv, Ready, Shared
<1>5. Owned' = Owned \ {b} /\ b \in Owned
  <2>1. \A d \in Clients : has'[d] = IF d = c THEN has[d] \ {b} ELSE has[d]
    BY <1>3
  <2>2. ASSUME NEW x \in Owned' PROVE x \in Owned /\ x # b
    <3>1. PICK d \in Clients : x \in has'[d]
      BY DEF Owned
    <3>2. x \in has[d]
      BY <2>1, <3>1
    <3>3. x # b
      BY <1>2, <1>4, <2>1, <3>1, <3>2
    <3> QED BY <3>2, <3>3 DEF Owned
  <2>3. ASSUME NEW x \in Owned, x # b PROVE x \in Owned'
    <3>1. PICK d \in Clients : x \in has[d]
      BY DEF Owned
    <3>2. x \in has'[d]
      BY <2>1, <2>3, <3>1
    <3> QED BY <3>2 DEF Owned
  <2>4. b \in Owned
    BY <1>2 DEF Owned
  <2> QED BY <2>2, <2>3, <2>4
<1>6. /\ Blocks = AllBlocks /\ FreeList = AllBlocks \ Owned
      /\ Blocks' = AllBlocks /\ FreeList' = AllBlocks \ Owned'
  <2>1. AllBlocks' = AllBlocks
    BY <1>3 DEF AllBlocks
  <2> QED BY <1>1, <1>3, <2>1 DEF ListIsSet
<1> HIDE DEF b, FreeList, Owned, AllBlocks, Blocks
<1>7. FreeList' = FreeList \cup {b} /\ b \in AllBlocks \ FreeList
  BY <1>2, <1>5, <1>6
<1>8. AbstractPool!Put(b)
  BY <1>1, <1>3, <1>6, <1>7 DEF AbstractPool!Put
<1> QED BY <1>1, <1>2, <1>6, <1>8 DEF AbstractPool!Next

\* Every step of the list is a step of the abstract pool, or none.
LEMMA StepRefines ==
    ASSUME TypesWideEnough, MarginsFit, IInv, IInv', ListIsSet, ListIsSet', [Next]_vars
    PROVE  [AbstractPool!Next]_(AbstractPool!vars)
<1>1. ASSUME pc # "ready", pc' # "ready", m_nMin' = m_nMin
      PROVE  UNCHANGED AbstractPool!vars
  <2>1. FreeList = {} /\ FreeList' = {}
    BY <1>1 DEF FreeList
  <2> HIDE DEF FreeList
  <2> QED BY <1>1, <2>1 DEF AbstractPool!vars
<1>2. ASSUME pc = "ready", UNCHANGED <<pc, has, m_blockSize, m_nTot, m_nMin>>
      PROVE  UNCHANGED AbstractPool!vars
  <2>1. AllBlocks' = AllBlocks /\ Owned' = Owned
    BY <1>2 DEF AllBlocks, Owned
  <2> HIDE DEF FreeList, AllBlocks, Owned, Blocks
  <2> QED BY <1>2, <2>1 DEF ListIsSet, AbstractPool!vars
<1>3. ASSUME NEW poolSize \in PoolSizes, NEW blockSize \in BlockSizes,
             initArgs(poolSize, blockSize)
      PROVE  UNCHANGED AbstractPool!vars
  BY <1>1, <1>3 DEF initArgs
<1>4. CASE initRound \/ initFirst \/ initChain
  BY <1>1, <1>4 DEF initRound, initFirst, initChain
<1>5. ASSUME NEW c \in Clients, NEW b \in has[c], putRequire(c, b)
      PROVE  UNCHANGED AbstractPool!vars
  BY <1>2, <1>5 DEF putRequire, initVars, pool
<1>6. CASE UNCHANGED vars
  BY <1>1, <1>2, <1>6 DEF vars
<1>7. CASE initDone
  BY <1>7, DoneRefines
<1>8. ASSUME NEW c \in Clients, NEW margin \in Margins, get(c, margin)
      PROVE  AbstractPool!Next
  BY <1>8, GetRefines
<1>9. ASSUME NEW c \in Clients, putLink(c) PROVE AbstractPool!Next
  BY <1>9, PutRefines
<1> QED BY <1>3, <1>4, <1>5, <1>6, <1>7, <1>8, <1>9 DEF Next

\* The linked free list of qf_mem.cpp implements the set of free blocks, with
\* its margins and its low-water mark.
THEOREM PoolRefinement ==
    ASSUME TypesWideEnough, MarginsFit
    PROVE  Spec => ImplementsPool
<1>1. Init => AbstractPool!Init
  BY DEF Init, AbstractPool!Init, FreeList
<1>2. IInv /\ IInv' /\ ListIsSet /\ ListIsSet' /\ [Next]_vars
        => [AbstractPool!Next]_(AbstractPool!vars)
  BY StepRefines
<1> QED BY <1>1, <1>2, Invariance, ListIsSetHolds, PTL
        DEF Spec, ImplementsPool, AbstractPool!Spec
=============================================================================
