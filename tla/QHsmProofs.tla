----------------------------- MODULE QHsmProofs -----------------------------
(***************************************************************************)
(* Proofs about the event processor for hierarchical state machines, for   *)
(* every hierarchy, with any number of states, and every MAX_NEST_DEPTH_.  *)
(*                                                                         *)
(* First what Chain computes: the recursive function exists because super- *)
(* states have smaller numbers (ChainsExist), and a chain has the form     *)
(* that Form says.  Then Up, the set of states on a chain.  The invariant  *)
(* HInv says for every program counter which states are entered, always    *)
(* as Up of one state: entry and exit change them one by one, and the      *)
(* cases of hsm_tran differ only in where on the target's chain they stop. *)
(***************************************************************************)
EXTENDS QHsm, SequenceTheorems, WellFoundedInduction, TLAPS

\* A non-empty set of naturals has a smallest element.
LEMMA SmallestExists ==
    ASSUME NEW S, S \subseteq Nat, S # {}
    PROVE  \E x \in S : \A y \in S : x <= y
<1>1. PICK x \in S : \A y \in S : ~(<<y, x>> \in OpToRel(<, Nat))
  BY WFMin, NatLessThanWellFounded
<1>2. \A y \in S : ~(y < x)
  BY <1>1 DEF OpToRel
<1> QED BY <1>2

\* The hierarchy: superstates are numbered before their substates.
Hierarchy == super \in [States -> 0 .. N - 1] /\ \A x \in States : super[x] < x

\* The function of which Chain takes the value.
ChainFrom(su) == CHOOSE c : c = [y \in 0 .. N |-> IF y = top THEN <<top>>
                                                  ELSE <<y>> \o c[su[y]]]

\* The chains depend on the hierarchy only.
LEMMA ChainSame == ASSUME super' = super PROVE \A x : Chain(x)' = Chain(x)
<1> SUFFICES ASSUME NEW x PROVE Chain(x)' = Chain(x)
  OBVIOUS
<1>1. Chain(x) = ChainFrom(super)[x]
  BY DEF Chain, ChainFrom
<1>2. Chain(x)' = ChainFrom(super')[x]
  BY DEF Chain, ChainFrom
<1> QED BY <1>1, <1>2

\* g has the superstates of the first n states.
Chains(g, n) == /\ g \in [0 .. n -> Seq(Nat)]
                /\ \A y \in 0 .. n : g[y] = IF y = top THEN <<top>>
                                            ELSE <<y>> \o g[super[y]]

\* There is such a function for every n: the smallest n without one could be
\* had from the one for n - 1.
LEMMA ChainsExist ==
    ASSUME Hierarchy, NEW n \in 0 .. N
    PROVE  \E g : Chains(g, n)
<1> DEFINE Bad == {k \in 0 .. N : ~ \E g : Chains(g, k)}
<1> SUFFICES ASSUME Bad # {} PROVE FALSE
  OBVIOUS
<1>0. N \in Nat
  BY HsmAssumption
<1>1. Bad \subseteq Nat
  BY <1>0
<1>2. PICK k \in Bad : \A j \in Bad : k <= j
  <2> HIDE DEF Bad
  <2> QED BY <1>1, SmallestExists
<1>3. k \in 0 .. N /\ ~ \E g : Chains(g, k)
  OBVIOUS
<1>4. CASE k = 0
  <2> DEFINE g == [y \in 0 .. 0 |-> <<top>>]
  <2>1. <<top>> \in Seq(Nat)
    BY DEF top
  <2>2. Chains(g, 0)
    BY <2>1 DEF Chains, top
  <2> QED BY <1>3, <1>4, <2>2
<1>5. CASE k > 0
  <2>1. k - 1 \in 0 .. N /\ k - 1 \notin Bad
    BY <1>0, <1>2, <1>3, <1>5
  <2>2. PICK h : Chains(h, k - 1)
    BY <2>1
  <2>3. super[k] \in 0 .. k - 1 /\ h[super[k]] \in Seq(Nat)
    <3>1. k \in States
      BY <1>0, <1>3, <1>5 DEF States
    <3>2. super[k] \in 0 .. k - 1
      BY <1>0, <3>1 DEF Hierarchy, States
    <3> QED BY <2>2, <3>2 DEF Chains
  <2> DEFINE v == <<k>> \o h[super[k]]
             g == [y \in 0 .. k |-> IF y = k THEN v ELSE h[y]]
  <2>4. v \in Seq(Nat)
    <3>1. <<k>> \in Seq(Nat)
      BY <1>0, <1>3
    <3> QED BY <2>3, <3>1, ConcatProperties
  <2> HIDE DEF v
  <2>5. g \in [0 .. k -> Seq(Nat)]
    <3> SUFFICES ASSUME NEW y \in 0 .. k, y # k PROVE h[y] \in Seq(Nat)
      BY <2>4
    <3>1. y \in 0 .. k - 1
      BY <1>0, <1>3
    <3> QED BY <2>2, <3>1 DEF Chains
  <2>6. ASSUME NEW y \in 0 .. k
        PROVE  g[y] = IF y = top THEN <<top>> ELSE <<y>> \o g[super[y]]
    <3>1. CASE y = k
      <4>1. g[super[k]] = h[super[k]]
        BY <1>0, <1>3, <2>3
      <4>2. k # top /\ g[k] = v
        BY <1>0, <1>3, <1>5 DEF top
      <4>3. v = <<k>> \o g[super[k]]
        BY <4>1 DEF v
      <4> QED BY <3>1, <4>2, <4>3
    <3>2. CASE y # k /\ y # top
      <4>1. y \in 0 .. k - 1 /\ y \in States
        BY <1>0, <1>3, <3>2 DEF States, top
      <4>2. super[y] \in 0 .. k - 1 /\ super[y] # k
        BY <1>0, <1>3, <4>1 DEF Hierarchy, States
      <4>3. super[y] \in 0 .. k /\ g[super[y]] = h[super[y]]
        BY <1>0, <1>3, <4>2
      <4>4. h[y] = <<y>> \o h[super[y]]
        BY <2>2, <3>2, <4>1 DEF Chains
      <4> QED BY <3>2, <4>3, <4>4
    <3>3. CASE y # k /\ y = top
      <4>1. y \in 0 .. k - 1
        BY <1>0, <1>3, <3>3 DEF States, top
      <4> QED BY <2>2, <3>3, <4>1 DEF Chains
    <3> QED BY <3>1, <3>2, <3>3
  <2>7. Chains(g, k)
    <3> HIDE DEF g
    <3> QED BY <2>5, <2>6 DEF Chains
  <2> QED BY <1>3, <2>7
<1> QED BY <1>0, <1>3, <1>4, <1>5

\* The chain of a state is the state and then the chain of its superstate.
LEMMA ChainStep ==
    ASSUME Hierarchy
    PROVE  /\ Chain(top) = <<top>>
           /\ \A x \in States : Chain(x) = <<x>> \o Chain(super[x])
<1>0. N \in Nat
  BY HsmAssumption
<1>1. PICK g : Chains(g, N)
  BY <1>0, ChainsExist
<1>2. g = [y \in 0 .. N |-> IF y = top THEN <<top>> ELSE <<y>> \o g[super[y]]]
  BY <1>1 DEF Chains
<1> DEFINE c == ChainFrom(super)
<1>3. c = [y \in 0 .. N |-> IF y = top THEN <<top>> ELSE <<y>> \o c[super[y]]]
  BY <1>2 DEF ChainFrom
<1>4. \A x : Chain(x) = c[x]
  BY DEF Chain, ChainFrom
<1> HIDE DEF c
<1>5. c[top] = <<top>>
  BY <1>0, <1>3 DEF top
<1>6. ASSUME NEW x \in States PROVE c[x] = <<x>> \o c[super[x]]
  <2>1. x \in 0 .. N /\ x # top
    BY <1>0 DEF States, top
  <2> QED BY <1>3, <2>1
<1> QED BY <1>4, <1>5, <1>6

\* The chain of x begins with x, goes from each state to its superstate and
\* ends with top; what follows a state on it is the chain of that state.
Form(x) ==
    /\ Chain(x) \in Seq(0 .. x) /\ Len(Chain(x)) > 0
    /\ Chain(x)[1] = x /\ Chain(x)[Len(Chain(x))] = top
    /\ \A i \in 1 .. Len(Chain(x)) - 1 : /\ Chain(x)[i] \in States
                                         /\ Chain(x)[i + 1] = super[Chain(x)[i]]
    /\ \A i \in 1 .. Len(Chain(x)) :
           LET d == Chain(Chain(x)[i])
           IN  /\ Len(d) = Len(Chain(x)) - i + 1
               /\ \A j \in 1 .. Len(d) : d[j] = Chain(x)[i + j - 1]

\* The smallest state of another form would have a superstate of that form.
LEMMA ChainForm ==
    ASSUME Hierarchy, NEW x \in 0 .. N
    PROVE  Form(x)
<1> DEFINE Bad == {k \in 0 .. N : ~ Form(k)}
<1> SUFFICES ASSUME Bad # {} PROVE FALSE
  OBVIOUS
<1>0. N \in Nat
  BY HsmAssumption
<1>1. Bad \subseteq Nat
  BY <1>0
<1>2. PICK k \in Bad : \A j \in Bad : k <= j
  <2> HIDE DEF Bad
  <2> QED BY <1>1, SmallestExists
<1>3. k \in 0 .. N /\ ~ Form(k)
  OBVIOUS
<1>4. CASE k = top
  <2>1. Chain(top) = <<top>>
    BY ChainStep
  <2>2. <<top>> \in Seq(0 .. top) /\ Len(<<top>>) = 1 /\ <<top>>[1] = top
    BY DEF top
  <2>3. Form(top)
    <3> DEFINE c == <<top>>
    <3>1. \A i \in 1 .. Len(c) : i = 1 /\ c[i] = top
      BY <2>2
    <3>2. \A i \in 1 .. Len(c) : /\ Len(c) = Len(c) - i + 1
                                  /\ \A j \in 1 .. Len(c) : c[j] = c[i + j - 1]
      BY <2>2, <3>1
    <3>3. 1 .. Len(c) - 1 = {}
      BY <2>2
    <3>4. \A i \in 1 .. Len(c) : Chain(c[i]) = c
      BY <2>1, <3>1
    <3> HIDE DEF c
    <3>5. Chain(top) = c
      BY <2>1 DEF c
    <3>6. c \in Seq(0 .. top) /\ Len(c) > 0 /\ c[1] = top /\ c[Len(c)] = top
      BY <2>2 DEF c
    <3>7. ASSUME NEW i \in 1 .. Len(Chain(top))
          PROVE  LET d == Chain(Chain(top)[i])
                 IN  /\ Len(d) = Len(Chain(top)) - i + 1
                     /\ \A j \in 1 .. Len(d) : d[j] = Chain(top)[i + j - 1]
      <4>1. Chain(Chain(top)[i]) = c
        BY <3>4, <3>5
      <4> QED BY <3>2, <3>5, <4>1
    <3>8. \A i \in 1 .. Len(Chain(top)) - 1 :
              Chain(top)[i] \in States /\ Chain(top)[i + 1] = super[Chain(top)[i]]
      BY <3>3, <3>5
    <3> QED BY <3>5, <3>6, <3>7, <3>8 DEF Form
  <2> QED BY <1>3, <1>4, <2>3
<1>5. CASE k # top
  <2> DEFINE y == super[k]  c == Chain(k)  b == Chain(y)
  <2>1. k \in States /\ y \in 0 .. N /\ y < k /\ y \in Nat /\ k \in Nat
    BY <1>0, <1>3, <1>5 DEF States, top, Hierarchy
  <2>2. Form(y)
    <3>1. y \notin Bad
      BY <1>1, <1>2, <2>1
    <3> QED BY <2>1, <3>1
  <2>3. b \in Seq(0 .. y) /\ Len(b) \in Nat /\ Len(b) > 0 /\ b[1] = y /\ b[Len(b)] = top
    BY <2>2 DEF Form
  <2>3a. b \in Seq(0 .. k)
    <3>1. \A i \in 1 .. Len(b) : b[i] \in 0 .. y
      BY <2>3, ElementOfSeq
    <3>2. \A i \in 1 .. Len(b) : b[i] \in 0 .. k
      BY <2>1, <3>1
    <3>3. b = [i \in 1 .. Len(b) |-> b[i]]
      BY <2>3
    <3> QED BY <2>3, <3>2, <3>3
  <2>4. c = <<k>> \o b
    BY <2>1, ChainStep
  <2>5. <<k>> \in Seq(0 .. k) /\ Len(<<k>>) = 1 /\ <<k>>[1] = k
    BY <2>1
  <2>6. c \in Seq(0 .. k) /\ Len(c) = Len(b) + 1
    <3> HIDE DEF c, b
    <3> QED BY <2>3, <2>3a, <2>4, <2>5, ConcatProperties
  <2>7. c[1] = k /\ \A i \in 1 .. Len(b) : c[i + 1] = b[i]
    <3> HIDE DEF c, b
    <3> QED BY <2>3, <2>3a, <2>4, <2>5
  <2>7a. \A i \in 2 .. Len(c) : i - 1 \in 1 .. Len(b) /\ c[i] = b[i - 1]
    <3> HIDE DEF c, b
    <3> SUFFICES ASSUME NEW i \in 2 .. Len(c)
                 PROVE  i - 1 \in 1 .. Len(b) /\ c[i] = b[i - 1]
      OBVIOUS
    <3>1. i - 1 \in 1 .. Len(b) /\ (i - 1) + 1 = i
      BY <2>3, <2>6
    <3> QED BY <2>7, <3>1
  <2>8. c[Len(c)] = top
    <3> HIDE DEF c, b
    <3> QED BY <2>3, <2>6, <2>7
  <2>9. ASSUME NEW i \in 1 .. Len(c) - 1
        PROVE  c[i] \in States /\ c[i + 1] = super[c[i]]
    <3>1. CASE i = 1
      <4>1. c[2] = y
        <5> HIDE DEF c, b
        <5>1. 2 \in 2 .. Len(c)
          BY <2>3, <2>6
        <5> QED BY <2>3, <2>7a, <5>1
      <4> QED BY <2>1, <2>7, <3>1, <4>1
    <3>2. CASE i # 1
      <4>1. /\ i - 1 \in 1 .. Len(b) - 1 /\ i + 1 \in 2 .. Len(c)
            /\ i \in 2 .. Len(c) /\ (i + 1) - 1 = (i - 1) + 1
        <5> HIDE DEF c, b
        <5> QED BY <2>3, <2>6, <3>2
      <4>2. b[i - 1] \in States /\ b[(i - 1) + 1] = super[b[i - 1]]
        BY <2>2, <4>1 DEF Form
      <4> QED BY <2>7a, <4>1, <4>2
    <3> QED BY <3>1, <3>2
  <2>10. ASSUME NEW i \in 1 .. Len(c)
         PROVE  /\ Len(Chain(c[i])) = Len(c) - i + 1
                /\ \A j \in 1 .. Len(Chain(c[i])) : Chain(c[i])[j] = c[i + j - 1]
    <3>1. CASE i = 1
      <4>1. Chain(c[i]) = c
        BY <2>7, <3>1
      <4> HIDE DEF c
      <4> QED BY <2>3, <2>6, <3>1, <4>1
    <3>2. CASE i # 1
      <4>1. i \in 2 .. Len(c)
        <5> HIDE DEF c
        <5> QED BY <2>3, <2>6, <3>2
      <4>2. i - 1 \in 1 .. Len(b) /\ c[i] = b[i - 1]
        BY <2>7a, <4>1
      <4>3. /\ Len(Chain(b[i - 1])) = Len(b) - (i - 1) + 1
            /\ \A j \in 1 .. Len(Chain(b[i - 1])) : Chain(b[i - 1])[j] = b[(i - 1) + j - 1]
        BY <2>2, <4>2 DEF Form
      <4> DEFINE d == Chain(c[i])
      <4>4. d = Chain(b[i - 1])
        BY <4>2
      <4>5. Len(d) = Len(c) - i + 1
        <5> HIDE DEF c, b, d
        <5> QED BY <2>3, <2>6, <4>1, <4>3, <4>4
      <4>6. ASSUME NEW j \in 1 .. Len(d) PROVE d[j] = c[i + j - 1]
        <5> HIDE DEF c, b, d
        <5>1. i + j - 1 \in 2 .. Len(c) /\ (i + j - 1) - 1 = (i - 1) + j - 1
          BY <2>3, <2>6, <4>1, <4>5
        <5>2. c[i + j - 1] = b[(i + j - 1) - 1]
          BY <2>7a, <5>1
        <5> QED BY <4>3, <4>4, <5>1, <5>2
      <4> QED BY <4>5, <4>6
    <3> QED BY <3>1, <3>2
  <2>11. Form(k)
    <3>1. Len(c) > 0
      <4> HIDE DEF c, b
      <4> QED BY <2>3, <2>6
    <3> QED BY <2>6, <2>7, <2>8, <2>9, <2>10, <3>1 DEF Form
  <2> QED BY <1>3, <2>11
<1> QED BY <1>4, <1>5

\* Find finds a position on a chain, if there is one.
LEMMA FindChain ==
    ASSUME Hierarchy, NEW x \in 0 .. N, NEW y
    PROVE  LET c == Chain(x)
               f == Find(c, y)
           IN  \/ f = 0 /\ \A i \in 1 .. Len(c) : c[i] # y
               \/ f \in 1 .. Len(c) /\ c[f] = y
<1> DEFINE c == Chain(x)
<1>1. DOMAIN c = 1 .. Len(c)
  BY ChainForm DEF Form
<1> HIDE DEF c
<1>2. CASE \E i \in 1 .. Len(c) : c[i] = y
  <2>1. Find(c, y) = CHOOSE i \in DOMAIN c : c[i] = y
    BY <1>1, <1>2 DEF Find
  <2>2. Find(c, y) \in 1 .. Len(c) /\ c[Find(c, y)] = y
    BY <1>1, <1>2, <2>1
  <2> QED BY <2>2 DEF c
<1>3. CASE ~ \E i \in 1 .. Len(c) : c[i] = y
  <2>1. Find(c, y) = 0
    BY <1>1, <1>3 DEF Find
  <2> QED BY <1>3, <2>1 DEF c
<1> QED BY <1>2, <1>3

\* The states that x is in, in terms of positions on its chain.
LEMMA UpIs ==
    ASSUME Hierarchy, NEW x \in 0 .. N, NEW y
    PROVE  /\ y \in Up(x) <=> y \in States /\ \E i \in 1 .. Len(Chain(x)) : Chain(x)[i] = y
           /\ y \in Up(x) \cup {top} <=> \E i \in 1 .. Len(Chain(x)) : Chain(x)[i] = y
           /\ y \in Up(x) \cup {top} <=> Find(Chain(x), y) > 0
           /\ y \in Up(x) \cup {top} => /\ Find(Chain(x), y) \in 1 .. Len(Chain(x))
                                        /\ Chain(x)[Find(Chain(x), y)] = y
<1> DEFINE c == Chain(x)  f == Find(c, y)
<1>1. \/ f = 0 /\ \A i \in 1 .. Len(c) : c[i] # y
      \/ f \in 1 .. Len(c) /\ c[f] = y
  BY FindChain
<1>2. Len(c) \in Nat /\ Len(c) > 0 /\ c[Len(c)] = top
  BY ChainForm DEF Form
<1>3. \A i \in 1 .. Len(c) : c[i] \in States \cup {top}
  <2> SUFFICES ASSUME NEW i \in 1 .. Len(c), i # Len(c) PROVE c[i] \in States
    BY <1>2
  <2>1. i \in 1 .. Len(c) - 1
    <3> HIDE DEF c
    <3> QED BY <1>2
  <2> QED BY <2>1, ChainForm DEF Form
<1>4. y \in Up(x) <=> y \in States /\ f > 0
  BY DEF Up
<1> HIDE DEF c, f
<1>5. top \notin States
  BY HsmAssumption DEF top, States
<1>6. f > 0 <=> \E i \in 1 .. Len(c) : c[i] = y
  BY <1>1, <1>2
<1>7. y = top => f > 0
  <2>1. Len(c) \in 1 .. Len(c)
    BY <1>2
  <2> QED BY <1>2, <1>6, <2>1
<1>8. y \in Up(x) \cup {top} <=> f > 0
  <2>1. f > 0 => y \in States \cup {top}
    BY <1>3, <1>6
  <2> QED BY <1>4, <1>7, <2>1
<1>9. f > 0 => f \in 1 .. Len(c) /\ c[f] = y
  BY <1>1
<1> QED BY <1>4, <1>6, <1>8, <1>9 DEF c, f

\* Up(x) is x and what its superstate is in.
LEMMA UpStep ==
    ASSUME Hierarchy
    PROVE  /\ Up(top) = {}
           /\ \A x \in States : Up(x) = {x} \cup Up(super[x])
<1>0. N \in Nat /\ top \in 0 .. N /\ top \notin States
  BY HsmAssumption DEF top, States
<1>1. Up(top) = {}
  <2> SUFFICES ASSUME NEW y \in Up(top) PROVE FALSE
    OBVIOUS
  <2>1. y \in States /\ \E i \in 1 .. Len(Chain(top)) : Chain(top)[i] = y
    BY <1>0, UpIs
  <2>2. Chain(top) = <<top>>
    BY ChainStep
  <2>3. Len(<<top>>) = 1 /\ <<top>>[1] = top
    OBVIOUS
  <2>4. \A i \in 1 .. Len(<<top>>) : <<top>>[i] = top
    BY <2>3
  <2> QED BY <1>0, <2>1, <2>2, <2>4
<1>2. ASSUME NEW x \in States PROVE Up(x) = {x} \cup Up(super[x])
  <2> DEFINE c == Chain(x)  u == super[x]  b == Chain(u)
  <2>1. x \in 0 .. N /\ u \in 0 .. N /\ x # top
    BY <1>0 DEF Hierarchy, States
  <2>2. Len(c) \in Nat /\ Len(c) > 1
    <3>1. Len(c) \in Nat /\ Len(c) > 0 /\ c[1] = x /\ c[Len(c)] = top
      BY <2>1, ChainForm DEF Form
    <3>2. Len(c) # 1
      BY <2>1, <3>1
    <3>3. \A n \in Nat : n > 0 /\ n # 1 => n > 1
      OBVIOUS
    <3> QED BY <3>1, <3>2, <3>3
  <2>3. 2 \in 1 .. Len(c) /\ 1 \in 1 .. Len(c) /\ 1 \in 1 .. Len(c) - 1
    <3> HIDE DEF c
    <3> QED BY <2>2
  <2>4. c[1] = x /\ c[2] = u
    <3>1. c[1] = x
      BY <2>1, ChainForm DEF Form
    <3>2. c[1 + 1] = super[c[1]]
      BY <2>1, <2>3, ChainForm DEF Form
    <3> QED BY <3>1, <3>2
  <2>5. Len(b) = Len(c) - 2 + 1 /\ \A j \in 1 .. Len(b) : b[j] = c[2 + j - 1]
    <3>1. /\ Len(Chain(c[2])) = Len(c) - 2 + 1
          /\ \A j \in 1 .. Len(Chain(c[2])) : Chain(c[2])[j] = c[2 + j - 1]
      BY <2>1, <2>3, ChainForm DEF Form
    <3> QED BY <2>4, <3>1
  <2>6. ASSUME NEW y \in States
        PROVE  (\E i \in 1 .. Len(c) : c[i] = y)
                 <=> (y = x \/ \E j \in 1 .. Len(b) : b[j] = y)
    <3> HIDE DEF c, b, u
    <3>1. ASSUME NEW i \in 1 .. Len(c), c[i] = y, y # x
          PROVE  \E j \in 1 .. Len(b) : b[j] = y
      <4>1. i # 1
        BY <2>4, <3>1
      <4>2. i - 1 \in 1 .. Len(b) /\ 2 + (i - 1) - 1 = i
        BY <2>2, <2>5, <4>1
      <4>3. b[i - 1] = c[2 + (i - 1) - 1]
        BY <2>5, <4>2
      <4> QED BY <3>1, <4>2, <4>3
    <3>2. ASSUME NEW j \in 1 .. Len(b), b[j] = y
          PROVE  \E i \in 1 .. Len(c) : c[i] = y
      <4>1. 2 + j - 1 \in 1 .. Len(c)
        BY <2>2, <2>5
      <4> QED BY <2>5, <3>2, <4>1
    <3>3. y = x => \E i \in 1 .. Len(c) : c[i] = y
      BY <2>3, <2>4
    <3>4. (\E j \in 1 .. Len(b) : b[j] = y) => \E i \in 1 .. Len(c) : c[i] = y
      BY <3>2
    <3>5. (\E i \in 1 .. Len(c) : c[i] = y) /\ y # x => \E j \in 1 .. Len(b) : b[j] = y
      BY <3>1
    <3> QED BY <3>3, <3>4, <3>5
  <2>7. ASSUME NEW y PROVE y \in Up(x) <=> y \in {x} \cup Up(u)
    <3>1. y \in Up(x) <=> y \in States /\ \E i \in 1 .. Len(c) : c[i] = y
      BY <2>1, UpIs
    <3>2. y \in Up(u) <=> y \in States /\ \E i \in 1 .. Len(b) : b[i] = y
      BY <2>1, UpIs
    <3> QED BY <2>6, <3>1, <3>2
  <2> QED BY <2>7
<1> QED BY <1>1, <1>2

\* Superstates have smaller numbers, and the superstates of a superstate of x
\* are superstates of x.
LEMMA UpOrder ==
    ASSUME Hierarchy, NEW x \in 0 .. N, NEW y \in Up(x)
    PROVE  y \in States /\ y <= x /\ Up(y) \subseteq Up(x)
<1> DEFINE c == Chain(x)
<1>0. N \in Nat
  BY HsmAssumption
<1>1. y \in States /\ \E i \in 1 .. Len(c) : c[i] = y
  BY UpIs
<1>2. PICK i \in 1 .. Len(c) : c[i] = y
  BY <1>1
<1>3. c[i] \in 0 .. x
  <2>1. c \in Seq(0 .. x)
    BY ChainForm DEF Form
  <2> QED BY <2>1, ElementOfSeq
<1>4. /\ Len(Chain(c[i])) = Len(c) - i + 1
      /\ \A j \in 1 .. Len(Chain(c[i])) : Chain(c[i])[j] = c[i + j - 1]
  BY ChainForm DEF Form
<1>5. Len(c) \in Nat
  BY ChainForm DEF Form
<1>6. ASSUME NEW z \in Up(y) PROVE z \in Up(x)
  <2>1. y \in 0 .. N
    BY <1>0, <1>1 DEF States
  <2>2. z \in States /\ \E j \in 1 .. Len(Chain(y)) : Chain(y)[j] = z
    BY <2>1, UpIs
  <2>3. PICK j \in 1 .. Len(Chain(y)) : Chain(y)[j] = z
    BY <2>2
  <2>4. Len(Chain(y)) = Len(c) - i + 1 /\ z = c[i + j - 1]
    BY <1>2, <1>4, <2>3
  <2>5. i + j - 1 \in 1 .. Len(c)
    <3> HIDE DEF c
    <3> QED BY <1>5, <2>4
  <2> QED BY <2>2, <2>4, <2>5, UpIs
<1>7. y <= x
  BY <1>0, <1>2, <1>3
<1> QED BY <1>1, <1>6, <1>7

\* x against its superstate: what the superstate of x is in does not include x.
LEMMA UpStrict ==
    ASSUME Hierarchy, NEW x \in States
    PROVE  /\ x \in Up(x) /\ super[x] \in 0 .. N /\ x \notin Up(super[x])
           /\ Up(x) \ {x} = Up(super[x])
           /\ super[x] \in Up(x) \cup {top}
           /\ super[x] \in States <=> super[x] # top
           /\ \A y \in Up(x) : y \in States /\ super[y] # x
<1>0. N \in Nat /\ x \in Nat /\ x \in 0 .. N
  BY HsmAssumption DEF States
<1>1. super[x] \in 0 .. N /\ super[x] < x
  BY <1>0 DEF Hierarchy, States
<1>2. Up(x) = {x} \cup Up(super[x])
  BY UpStep
<1>3. x \notin Up(super[x])
  <2> SUFFICES ASSUME x \in Up(super[x]) PROVE FALSE
    OBVIOUS
  <2>1. x <= super[x]
    BY <1>1, UpOrder
  <2> QED BY <1>0, <1>1, <2>1
<1>4. super[x] \in States <=> super[x] # top
  BY <1>0, <1>1 DEF States, top
<1>5. super[x] \in Up(x) \cup {top}
  <2>1. super[x] \in States => super[x] \in Up(super[x])
    <3> SUFFICES ASSUME super[x] \in States PROVE super[x] \in Up(super[x])
      OBVIOUS
    <3> QED BY UpStep
  <2> QED BY <1>2, <1>4, <2>1
<1>6. ASSUME NEW y \in Up(x) PROVE y \in States /\ super[y] # x
  <2>1. y \in States /\ y <= x
    BY <1>0, UpOrder
  <2>2. super[y] \in 0 .. N /\ super[y] < y /\ y \in Nat
    BY <1>0, <2>1 DEF Hierarchy, States
  <2> QED BY <1>0, <2>1, <2>2
<1> QED BY <1>1, <1>2, <1>3, <1>4, <1>5, <1>6

-----------------------------------------------------------------------------
(***************************************************************************)
(* The inductive invariant: which states are entered, for every program    *)
(* counter.                                                                *)
(***************************************************************************)
\* Before the initial transition, and between two events.
Idle == /\ pc = "constructed" => entered = {}
        /\ pc = "stable" => /\ m_state \in States /\ m_temp = m_state
                            /\ entered = Up(m_state)

\* The target of a transition is reached; its initial transition comes next.
Drilling == pc = "drill" => t \in States /\ entered = Up(t)

\* The event climbs from the current state.
Searching == pc = "search" => /\ t = m_state /\ t \in States /\ s \in Up(t) \cup {top}
                              /\ entered = Up(t) /\ kept = Up(t)

\* The states up to the source of the transition are exited.
Exiting == pc = "exit" => /\ t \in States /\ s \in Up(t)
                          /\ target \in States /\ path = <<target>>
                          /\ entered = Up(t) /\ kept = Up(t)

\* The states above the source are exited.  None of them is above the target.
Climbing == pc = "climb" => /\ target \in States /\ path = Chain(target)
                            /\ s \in States /\ s # target
                            /\ t \in States /\ t \notin Up(target)
                            /\ Up(s) \cap Up(target) = Up(t) \cap Up(target)
                            /\ entered = Up(t) /\ kept = Up(t)

\* The path is the beginning of the chain of the target; the part of the chain
\* after the ip states that are to be entered is entered.
Entering ==
    pc \in {"enter", "deeper"} =>
        /\ target \in States
        /\ ip \in 0 .. Len(Chain(target)) - 1
        /\ \A i \in 1 .. ip : path[i] = Chain(target)[i]
        /\ entered = Up(Chain(target)[ip + 1])
        /\ pc = "enter" => kept = Common(s, target)

HInv == /\ Hierarchy /\ EntryExitOrder /\ NoPathOverflow
        /\ Idle /\ Drilling /\ Searching /\ Exiting /\ Climbing /\ Entering

-----------------------------------------------------------------------------
\* What the hierarchy determines does not change.
LEMMA SameHierarchy ==
    ASSUME super' = super
    PROVE  /\ Hierarchy' <=> Hierarchy
           /\ \A x : Chain(x)' = Chain(x) /\ Up(x)' = Up(x)
           /\ \A x, y : Common(x, y)' = Common(x, y)
           /\ asrt' = asrt /\ NoPathOverflow => NoPathOverflow'
<1>1. Hierarchy' <=> Hierarchy
  BY DEF Hierarchy
<1>2. \A x : Chain(x)' = Chain(x)
  BY ChainSame
<1>3. ASSUME NEW x PROVE Up(x)' = Up(x)
  BY <1>2 DEF Up
<1>4. ASSUME NEW x, NEW y PROVE Common(x, y)' = Common(x, y)
  BY <1>3 DEF Common
<1>5. asrt' = asrt /\ NoPathOverflow => NoPathOverflow'
  BY <1>2 DEF NoPathOverflow
<1> QED BY <1>1, <1>2, <1>3, <1>4, <1>5

\* The path from x up to a superstate y of x: its states are the ones on the
\* chain before y.
LEMMA PathToIs ==
    ASSUME Hierarchy, NEW x \in States, NEW y, Find(Chain(x), y) > 1
    PROVE  LET c == Chain(x)
               k == Find(c, y) - 1
           IN  /\ k \in 1 .. Len(c) - 1 /\ c[k + 1] = y
               /\ Len(PathTo(x, y)) = k /\ PathTo(x, y)[1] = x
               /\ \A i \in 1 .. k : PathTo(x, y)[i] = c[i]
<1> DEFINE c == Chain(x)  f == Find(c, y)
<1>0. x \in 0 .. N
  BY HsmAssumption DEF States
<1>1. \/ f = 0 /\ \A i \in 1 .. Len(c) : c[i] # y
      \/ f \in 1 .. Len(c) /\ c[f] = y
  BY <1>0, FindChain
<1>2. c \in Seq(0 .. x) /\ c[1] = x
  BY <1>0, ChainForm DEF Form
<1>3. PathTo(x, y) = SubSeq(c, 1, f - 1)
  BY DEF PathTo
<1>4. f > 1
  OBVIOUS
<1> HIDE DEF c, f
<1>5. Len(c) \in Nat
  BY <1>2
<1>6. f \in 1 .. Len(c) /\ c[f] = y /\ f \in Nat
  BY <1>1, <1>4
<1>7. f - 1 \in 1 .. Len(c) - 1 /\ f - 1 \in 1 .. Len(c) /\ (f - 1) + 1 = f
  BY <1>4, <1>5, <1>6
<1>8. /\ Len(SubSeq(c, 1, f - 1)) = f - 1
      /\ \A i \in 1 .. f - 1 : SubSeq(c, 1, f - 1)[i] = c[i]
  BY <1>2, <1>5, <1>7
<1>9. 1 \in 1 .. f - 1
  BY <1>7
<1> QED BY <1>2, <1>3, <1>6, <1>7, <1>8, <1>9 DEF c, f

\* The chain of a state that is not top: top is a place on it after the first.
LEMMA TopFound ==
    ASSUME Hierarchy, NEW x \in States
    PROVE  Find(Chain(x), top) > 1 /\ x \in 0 .. N
<1>0. x \in 0 .. N /\ x # top
  BY HsmAssumption DEF States, top
<1>1. Find(Chain(x), top) \in 1 .. Len(Chain(x)) /\ Chain(x)[Find(Chain(x), top)] = top
  BY <1>0, UpIs
<1>2. Chain(x)[1] = x /\ Len(Chain(x)) \in Nat
  BY <1>0, ChainForm DEF Form
<1>3. Find(Chain(x), top) # 1
  BY <1>0, <1>1, <1>2
<1>4. \A n \in Nat : \A f \in 1 .. n : f # 1 => f > 1
  OBVIOUS
<1> QED BY <1>0, <1>1, <1>2, <1>3, <1>4

\* The first two places on a chain.
LEMMA ChainStart ==
    ASSUME Hierarchy, NEW x \in States
    PROVE  /\ Chain(x)[1] = x /\ Chain(x)[2] = super[x]
           /\ Len(Chain(x)) \in Nat
           /\ 0 \in 0 .. Len(Chain(x)) - 1 /\ 1 \in 0 .. Len(Chain(x)) - 1
<1>1. x \in 0 .. N /\ Find(Chain(x), top) > 1
  BY TopFound
<1>2. Find(Chain(x), top) \in 1 .. Len(Chain(x))
  BY <1>1, UpIs
<1>3. /\ Chain(x)[1] = x /\ Len(Chain(x)) \in Nat
      /\ \A i \in 1 .. Len(Chain(x)) - 1 : Chain(x)[i + 1] = super[Chain(x)[i]]
  BY <1>1, ChainForm DEF Form
<1>4. \A n \in Nat : \A f \in 1 .. n :
          f > 1 => 1 \in 1 .. n - 1 /\ 0 \in 0 .. n - 1 /\ 1 \in 0 .. n - 1
  OBVIOUS
<1>5. /\ 1 \in 1 .. Len(Chain(x)) - 1
      /\ 0 \in 0 .. Len(Chain(x)) - 1 /\ 1 \in 0 .. Len(Chain(x)) - 1
  BY <1>1, <1>2, <1>3, <1>4
<1>6. Chain(x)[1 + 1] = super[Chain(x)[1]]
  BY <1>3, <1>5
<1> QED BY <1>3, <1>5, <1>6

\* An exit of x, when exactly the superstates of x are entered, is in order.
LEMMA ExitInOrder ==
    ASSUME Hierarchy, legal, NEW x \in States, entered = Up(x), kept = Up(x), Exit(x)
    PROVE  legal' /\ entered' = Up(super[x]) /\ kept' = Up(super[x])
<1>1. /\ x \in Up(x) /\ Up(x) \ {x} = Up(super[x])
      /\ \A y \in Up(x) : y \in States /\ super[y] # x
  BY UpStrict
<1> QED BY <1>1 DEF Exit

\* After an exit, with or without an exit action, t becomes its superstate.
LEMMA ReturnsSuper ==
    \A x : \A r \in ExitReturns : NextUp(x, r) = super[x]
BY DEF NextUp, AfterExit, ExitReturns

-----------------------------------------------------------------------------
\* The constructor establishes the invariant.
LEMMA HInvInit == Init => HInv
<1> SUFFICES ASSUME Init PROVE HInv
  OBVIOUS
<1>1. Hierarchy
  BY DEF Init, Hierarchy
<1> QED BY <1>1 DEF Init, HInv, EntryExitOrder, NoPathOverflow, Idle, Drilling,
     Searching, Exiting, Climbing, Entering

\* What HInv and a step that leaves the hierarchy alone have in common.
LEMMA HInvFrame ==
    ASSUME HInv, super' = super
    PROVE  /\ Hierarchy /\ Hierarchy'
           /\ asrt' = asrt => NoPathOverflow'
           /\ legal /\ (legal' => EntryExitOrder')
           /\ \A x : Chain(x)' = Chain(x) /\ Up(x)' = Up(x)
           /\ \A x, y : Common(x, y)' = Common(x, y)
<1>1. Hierarchy /\ legal /\ NoPathOverflow
  BY DEF HInv, EntryExitOrder
<1> QED BY <1>1, SameHierarchy DEF EntryExitOrder

\* EnterBelow leads to a path for which Entering holds.
LEMMA EnterBelowStep ==
    ASSUME HInv, super' = super, UNCHANGED <<t, history>>,
           pc \in {"constructed", "drill"}, asrt = "none",
           NEW x \in States, NEW y, Find(Chain(x), y) > 1, entered = Up(y),
           EnterBelow(PathTo(x, y))
    PROVE  HInv'
<1>0. /\ Hierarchy /\ Hierarchy'
      /\ asrt' = asrt => NoPathOverflow'
      /\ legal /\ (legal' => EntryExitOrder')
      /\ \A z : Chain(z)' = Chain(z) /\ Up(z)' = Up(z)
  BY HInvFrame
<1> DEFINE c == Chain(x)  k == Find(c, y) - 1
<1>1. /\ k \in 1 .. Len(c) - 1 /\ c[k + 1] = y
      /\ Len(PathTo(x, y)) = k /\ PathTo(x, y)[1] = x
      /\ \A i \in 1 .. k : PathTo(x, y)[i] = c[i]
  BY <1>0, PathToIs
<1>2. EntryExitOrder' /\ entered' = entered /\ t' = t /\ path' = PathTo(x, y) /\ ip' = k
  BY <1>0, <1>1 DEF EnterBelow, history
<1>3. Len(c) \in Nat
  BY <1>0, TopFound, ChainForm DEF Form
<1>4. CASE PathFits(k)
  <2>1. pc' = "deeper" /\ asrt' = asrt
    BY <1>1, <1>4 DEF EnterBelow
  <2>2. target' = x /\ Chain(target)' = c
    BY <1>0, <1>1, <1>2 DEF target
  <2>3. k \in 0 .. Len(c) - 1
    <3> HIDE DEF k, c
    <3> QED BY <1>1, <1>3
  <2>4. Entering'
    <3>1. entered' = Up(Chain(target)[ip + 1])'
      <4>1. (Chain(target)[ip + 1])' = y
        BY <1>1, <1>2, <2>2
      <4> QED BY <1>0, <1>2, <4>1
    <3> QED BY <1>1, <1>2, <2>1, <2>2, <2>3, <3>1 DEF Entering
  <2> QED BY <1>0, <1>2, <2>1, <2>4 DEF HInv, Idle, Drilling, Searching, Exiting, Climbing
<1>5. CASE ~PathFits(k)
  <2>1. pc' = pc
    BY <1>1, <1>5 DEF EnterBelow
  <2>2. NoPathOverflow'
    <3>1. Len(c) > MAX_NEST_DEPTH_
      <4> HIDE DEF k, c
      <4> QED BY <1>1, <1>3, <1>5, HsmAssumption DEF PathFits
    <3>2. Len(Chain(x)') > MAX_NEST_DEPTH_
      BY <1>0, <3>1
    <3> QED BY <3>2 DEF NoPathOverflow
  <2>3. Idle' /\ Drilling'
    BY <1>0, <1>2, <2>1 DEF HInv, Idle, Drilling
  <2> QED BY <1>0, <1>2, <2>1, <2>2, <2>3 DEF HInv, Searching, Exiting, Climbing, Entering
<1> QED BY <1>4, <1>5

\* A step to "enter" with a path that Entering describes.
LEMMA ToEntering ==
    ASSUME HInv, super' = super, asrt' = asrt, legal', pc' = "enter", s' = s,
           NEW x \in States, path'[1] = x, NEW k \in 0 .. Len(Chain(x)) - 1, ip' = k,
           \A i \in 1 .. k : path'[i] = Chain(x)[i],
           entered' = Up(Chain(x)[k + 1]), kept' = Common(s, x)
    PROVE  HInv'
<1>0. /\ Hierarchy' /\ NoPathOverflow' /\ EntryExitOrder'
      /\ \A z : Chain(z)' = Chain(z) /\ Up(z)' = Up(z)
      /\ \A z, y : Common(z, y)' = Common(z, y)
  BY HInvFrame
<1>1. target' = x /\ Chain(target)' = Chain(x)
  BY <1>0 DEF target
<1>2. Common(s, target)' = Common(s, x)
  BY <1>0, <1>1
<1>3. Up(Chain(target)[ip + 1])' = Up(Chain(x)[k + 1])
  BY <1>0, <1>1
<1>4. Entering'
  BY <1>1, <1>2, <1>3 DEF Entering
<1> QED BY <1>0, <1>4 DEF HInv, Idle, Drilling, Searching, Exiting, Climbing

\* enter: the superstate of the next state on the path is entered, the state
\* itself is not.
LEMMA EnterStep == ASSUME HInv, enter PROVE HInv'
<1> DEFINE c == Chain(target)  x == c[ip]
<1>0. /\ Hierarchy /\ Hierarchy' /\ NoPathOverflow'
      /\ legal /\ (legal' => EntryExitOrder')
      /\ \A z : Chain(z)' = Chain(z) /\ Up(z)' = Up(z)
      /\ \A z, y : Common(z, y)' = Common(z, y)
  BY HInvFrame DEF enter
<1>1. /\ target \in States
      /\ ip \in 0 .. Len(c) - 1
      /\ \A i \in 1 .. ip : path[i] = c[i]
      /\ entered = Up(c[ip + 1])
      /\ pc = "enter" => kept = Common(s, target)
  BY DEF HInv, Entering, enter
<1>2. ip > 0 /\ Enter(path[ip]) /\ ip' = ip - 1 /\ pc' = pc /\ pc \in {"enter", "deeper"}
      /\ path' = path /\ kept' = kept /\ s' = s
  BY DEF enter, PathAt
<1>3. Len(c) \in Nat /\ \A i \in 1 .. Len(c) - 1 : c[i] \in States /\ c[i + 1] = super[c[i]]
  <2>1. target \in 0 .. N /\ Len(c) \in Nat
    BY <1>0, <1>1, TopFound, ChainStart
  <2>2. Form(target)
    BY <1>0, <2>1, ChainForm
  <2> QED BY <2>1, <2>2 DEF Form
<1>4. ip \in 1 .. Len(c) - 1 /\ ip \in 1 .. ip /\ ip - 1 \in 0 .. Len(c) - 1
      /\ (ip - 1) + 1 = ip /\ 1 .. ip - 1 \subseteq 1 .. ip
  <2> HIDE DEF c
  <2> QED BY <1>1, <1>2, <1>3
<1>5. path[ip] = x /\ x \in States /\ entered = Up(super[x])
  BY <1>1, <1>3, <1>4
<1>6. Up(x) = {x} \cup Up(super[x]) /\ x \notin Up(super[x]) /\ super[x] \in 0 .. N
      /\ super[x] \in Up(super[x]) \cup {top}
  <2>1. Up(x) = {x} \cup Up(super[x]) /\ x \notin Up(super[x]) /\ super[x] \in 0 .. N
        /\ (super[x] \in States <=> super[x] # top)
    BY <1>0, <1>5, UpStep, UpStrict
  <2>2. super[x] \in States => super[x] \in Up(super[x])
    BY <1>0, UpStrict
  <2> QED BY <2>1, <2>2
<1>7. entered' = Up(x) /\ legal'
  BY <1>0, <1>2, <1>5, <1>6 DEF Enter
<1>8. target' = target /\ c' = c
  <2>1. target' = target
    BY <1>2 DEF target
  <2> QED BY <1>0, <2>1
<1>9. Entering'
  <2>1. Up(Chain(target)[ip + 1])' = Up(x)
    BY <1>0, <1>2, <1>4, <1>8
  <2>2. Common(s, target)' = Common(s, target)
    BY <1>0, <1>2, <1>8
  <2>3. \A i \in 1 .. ip - 1 : path'[i] = c'[i]
    BY <1>1, <1>2, <1>4, <1>8
  <2> QED BY <1>1, <1>2, <1>4, <1>7, <1>8, <2>1, <2>2, <2>3 DEF Entering
<1> QED BY <1>0, <1>2, <1>7, <1>9 DEF HInv, Idle, Drilling, Searching, Exiting, Climbing

\* arrive: with nothing left on the path, the target's superstates are entered.
LEMMA ArriveStep == ASSUME HInv, arrive PROVE HInv'
<1>0. /\ Hierarchy /\ Hierarchy' /\ NoPathOverflow' /\ EntryExitOrder'
      /\ \A z : Up(z)' = Up(z)
  BY HInvFrame DEF arrive, history
<1>1. /\ target \in States /\ ip = 0 /\ pc' = "drill" /\ t' = target
      /\ entered = Up(Chain(target)[ip + 1]) /\ entered' = entered
  BY DEF HInv, Entering, arrive, target, history
<1>2. Chain(target)[1] = target
  BY <1>0, <1>1, TopFound, ChainForm DEF Form
<1>3. Up(t)' = Up(target)
  BY <1>0, <1>1
<1>4. Drilling'
  BY <1>1, <1>2, <1>3 DEF Drilling
<1> QED BY <1>0, <1>1, <1>4 DEF HInv, Idle, Entering, Searching, Exiting, Climbing

\* init: the path leads down from top.
LEMMA InitStep == ASSUME HInv, NEW x \in States, init(x) PROVE HInv'
<1>1. Hierarchy /\ entered = {} /\ pc = "constructed" /\ asrt = "none"
  BY DEF HInv, Idle, init
<1>2. Up(top) = {} /\ Find(Chain(x), top) > 1
  BY <1>1, UpStep, TopFound
<1>3. EnterBelow(PathTo(x, top)) /\ super' = super /\ UNCHANGED <<t, history>>
  BY DEF init
<1> QED BY <1>1, <1>2, <1>3, EnterBelowStep

\* drill: the path leads down from t.
LEMMA DrillStep == ASSUME HInv, NEW x \in States, drill(x) PROVE HInv'
<1>1. pc = "drill" /\ asrt = "none" /\ Find(Chain(x), t) > 1
  BY DEF drill, Below
<1>2. entered = Up(t)
  BY <1>1 DEF HInv, Drilling
<1>3. EnterBelow(PathTo(x, t)) /\ super' = super /\ UNCHANGED <<t, history>>
  BY DEF drill
<1> QED BY <1>1, <1>2, <1>3, EnterBelowStep

\* settle: the entered states are those of t, the new current state.
LEMMA SettleStep == ASSUME HInv, settle PROVE HInv'
<1>0. /\ Hierarchy' /\ NoPathOverflow' /\ EntryExitOrder' /\ \A z : Up(z)' = Up(z)
  BY HInvFrame DEF settle, history
<1>1. t \in States /\ entered' = Up(t) /\ m_state' = t /\ m_temp' = t /\ pc' = "stable"
  BY DEF HInv, Drilling, settle, Settle, history
<1>2. Up(m_state)' = Up(t)
  BY <1>0, <1>1
<1>3. Idle'
  BY <1>1, <1>2 DEF Idle
<1> QED BY <1>0, <1>1, <1>3 DEF HInv, Drilling, Entering, Searching, Exiting, Climbing

\* dispatch: m_temp is the current state, so that assertion 400 holds.
LEMMA DispatchStep == ASSUME HInv, dispatch PROVE HInv'
<1>0. /\ Hierarchy /\ Hierarchy' /\ (asrt' = asrt => NoPathOverflow')
      /\ EntryExitOrder' /\ \A z : Up(z)' = Up(z)
  BY HInvFrame DEF dispatch
<1>1. m_state \in States /\ m_temp = m_state /\ entered = Up(m_state)
  BY DEF HInv, Idle, dispatch
<1>2. /\ pc' = "search" /\ s' = m_state /\ t' = m_state /\ kept' = entered /\ asrt' = asrt
      /\ m_state' = m_state /\ entered' = entered
  BY <1>1 DEF dispatch
<1>3. m_state \in Up(m_state)
  BY <1>0, <1>1, UpStrict
<1>4. Up(t)' = Up(m_state)
  BY <1>0, <1>2
<1>5. Searching'
  BY <1>1, <1>2, <1>3, <1>4 DEF Searching
<1> QED BY <1>0, <1>2, <1>5 DEF HInv, Idle, Drilling, Entering, Exiting, Climbing

\* pass, handle and take: the event climbs along the chain of the current state.
LEMMA SearchStep ==
    ASSUME HInv, pass \/ handle \/ \E x \in States : take(x)
    PROVE  HInv'
<1>0. super' = super /\ asrt' = asrt /\ UNCHANGED <<m_state, t, history>> /\ pc = "search"
  BY DEF pass, handle, take
<1>1. /\ Hierarchy /\ Hierarchy' /\ NoPathOverflow' /\ EntryExitOrder'
      /\ \A z : Up(z)' = Up(z)
  BY <1>0, HInvFrame DEF history
<1>2. /\ t = m_state /\ t \in States /\ s \in Up(t) \cup {top}
      /\ entered = Up(t) /\ kept = Up(t)
  BY <1>0 DEF HInv, Searching
<1>3. entered' = Up(t) /\ kept' = Up(t) /\ Up(t)' = Up(t) /\ Up(m_state)' = Up(t)
      /\ t' = t /\ m_state' = m_state
  BY <1>0, <1>1, <1>2 DEF history
<1>4. CASE pass
  <2>1. s \in Up(t) /\ s' = super[s] /\ pc' = "search"
    BY <1>0, <1>2, <1>4 DEF pass
  <2>2. t \in 0 .. N
    BY <1>2, HsmAssumption DEF States
  <2>3. s \in States /\ Up(s) \subseteq Up(t)
    BY <1>1, <2>1, <2>2, UpOrder
  <2>4. super[s] \in Up(s) \cup {top}
    BY <1>1, <2>3, UpStrict
  <2>5. Searching'
    BY <1>2, <1>3, <2>1, <2>3, <2>4 DEF Searching
  <2> QED BY <1>1, <2>1, <2>5 DEF HInv, Idle, Drilling, Entering, Exiting, Climbing
<1>5. CASE handle
  <2>1. m_temp' = t /\ pc' = "stable"
    BY <1>5 DEF handle
  <2>2. Idle'
    BY <1>2, <1>3, <2>1 DEF Idle
  <2> QED BY <1>1, <2>1, <2>2 DEF HInv, Searching, Drilling, Entering, Exiting, Climbing
<1>6. ASSUME NEW x \in States, take(x) PROVE HInv'
  <2>1. s # top /\ path' = <<x>> /\ pc' = "exit" /\ s' = s
    BY <1>6 DEF take
  <2>2. target' = x
    BY <2>1 DEF target
  <2>3. Exiting'
    BY <1>2, <1>3, <2>1, <2>2 DEF Exiting
  <2> QED BY <1>1, <2>1, <2>3 DEF HInv, Searching, Drilling, Entering, Idle, Climbing
<1> QED BY <1>4, <1>5, <1>6

\* exitToSource: the source is still above t, which is not top therefore.
LEMMA ExitToSourceStep == ASSUME HInv, exitToSource PROVE HInv'
<1>0. /\ Hierarchy /\ Hierarchy' /\ NoPathOverflow'
      /\ legal /\ (legal' => EntryExitOrder') /\ \A z : Up(z)' = Up(z)
  BY HInvFrame DEF exitToSource
<1>1. /\ t \in States /\ s \in Up(t) /\ target \in States /\ path = <<target>>
      /\ entered = Up(t) /\ kept = Up(t)
  BY DEF HInv, Exiting, exitToSource
<1>2. Exit(t) /\ t # s /\ t' = super[t] /\ pc' = "exit" /\ s' = s /\ path' = path
  BY ReturnsSuper DEF exitToSource
<1>3. legal' /\ entered' = Up(super[t]) /\ kept' = Up(super[t])
  BY <1>0, <1>1, <1>2, ExitInOrder
<1>4. s \in Up(super[t])
  BY <1>0, <1>1, <1>2, UpStep
<1>5. super[t] \in States
  <2>1. super[t] # top
    BY <1>0, <1>4, UpStep
  <2> QED BY <1>0, <1>1, <2>1, UpStrict
<1>6. target' = target /\ Up(t)' = Up(super[t])
  BY <1>0, <1>2 DEF target
<1>7. Exiting'
  BY <1>1, <1>2, <1>3, <1>4, <1>5, <1>6 DEF Exiting
<1> QED BY <1>0, <1>2, <1>3, <1>7 DEF HInv, Searching, Drilling, Entering, Idle, Climbing

-----------------------------------------------------------------------------
\* Where hsm_tran starts: exactly the superstates of the source are entered.
LEMMA TranStart ==
    ASSUME HInv, InTran
    PROVE  /\ Hierarchy /\ legal /\ NoPathOverflow /\ t = s
           /\ s \in States /\ target \in States /\ path = <<target>>
           /\ entered = Up(s) /\ kept = Up(s)
BY DEF HInv, EntryExitOrder, InTran, Exiting

\* The source is exited and its superstate u is on the chain of the target
\* (possibly as the target, or as top): u is the least common ancestor.
LEMMA CommonAtSuper ==
    ASSUME Hierarchy, NEW x \in States, NEW y \in States, x # y,
           NEW z \in States, z \notin Up(y), Up(x) \cap Up(y) = Up(z) \cap Up(y),
           super[z] \in Up(y) \cup {top}
    PROVE  Common(x, y) = Up(super[z])
<1>1. Common(x, y) = Up(z) \cap Up(y)
  BY DEF Common
<1>2. Up(z) = {z} \cup Up(super[z])
  BY UpStep
<1>3. Up(super[z]) \subseteq Up(y)
  <2>1. y \in 0 .. N
    BY HsmAssumption DEF States
  <2>2. CASE super[z] = top
    BY <2>2, UpStep
  <2>3. CASE super[z] \in Up(y)
    BY <2>1, <2>3, UpOrder
  <2> QED BY <2>2, <2>3
<1> QED BY <1>1, <1>2, <1>3

\* hsm_tran, the cases (a) to (d)
LEMMA NearTranStep ==
    ASSUME HInv, tranSelf \/ tranDown \/ tranSibling \/ tranUp
    PROVE  HInv'
<1>0. InTran /\ super' = super /\ s' = s /\ asrt' = asrt /\ pc' = "enter" /\ path' = path
  BY DEF tranSelf, tranDown, tranSibling, tranUp, TranUnchanged, EnterPath
<1> DEFINE x == target  c == Chain(x)
<1>1. /\ Hierarchy /\ legal /\ s \in States /\ x \in States /\ path = <<x>>
      /\ entered = Up(s) /\ kept = Up(s)
  BY <1>0, TranStart
<1>2. /\ c[1] = x /\ c[2] = super[x] /\ 0 \in 0 .. Len(c) - 1 /\ 1 \in 0 .. Len(c) - 1
  BY <1>1, ChainStart
<1>3. path'[1] = x
  BY <1>0, <1>1
<1>4. /\ Up(s) = {s} \cup Up(super[s]) /\ s \notin Up(super[s]) /\ s \in Up(s)
      /\ Up(x) = {x} \cup Up(super[x]) /\ x \notin Up(super[x])
      /\ super[s] \in Up(s) \cup {top} /\ super[x] \in Up(x) \cup {top}
  BY <1>1, UpStep, UpStrict
<1>4a. super[s] # s /\ super[x] # x
  BY <1>1, HsmAssumption DEF Hierarchy, States
<1> HIDE DEF x, c
<1>5. ASSUME ExitSource PROVE legal' /\ entered' = Up(super[s]) /\ kept' = Up(super[s])
  BY <1>1, <1>5, ExitInOrder DEF ExitSource
<1>6. ASSUME legal', ip' = 1, entered' = Up(super[x]), kept' = Common(s, x) PROVE HInv'
  <2>1. \A i \in 1 .. 1 : path'[i] = Chain(x)[i]
    BY <1>2, <1>3 DEF c
  <2>2. 1 \in 0 .. Len(Chain(x)) - 1 /\ Chain(x)[1 + 1] = super[x]
    BY <1>2 DEF c
  <2> QED BY <1>0, <1>1, <1>3, <1>6, <2>1, <2>2, ToEntering
<1>7. ASSUME legal', ip' = 0, entered' = Up(x), kept' = Common(s, x) PROVE HInv'
  <2>1. \A i \in 1 .. 0 : path'[i] = Chain(x)[i]
    OBVIOUS
  <2>2. 0 \in 0 .. Len(Chain(x)) - 1 /\ Chain(x)[0 + 1] = x
    BY <1>2 DEF c
  <2> QED BY <1>0, <1>1, <1>3, <1>7, <2>1, <2>2, ToEntering
<1>8. CASE tranSelf
  <2>1. s = x /\ ExitSource /\ ip' = 1
    BY <1>8 DEF tranSelf, EnterPath, x
  <2>2. Common(s, x) = Up(super[s])
    BY <1>4, <2>1 DEF Common
  <2> QED BY <1>5, <1>6, <2>1, <2>2
<1>9. CASE tranDown
  <2>1. s = super[x] /\ ip' = 1 /\ legal' = legal /\ entered' = entered /\ kept' = kept
    BY <1>9 DEF tranDown, EnterPath, x, history
  <2>2. Common(s, x) = Up(s)
    BY <1>4, <1>4a, <2>1 DEF Common
  <2> QED BY <1>1, <1>6, <2>1, <2>2
<1>10. CASE tranSibling
  <2>1. s # x /\ super[s] = super[x] /\ ExitSource /\ ip' = 1
    BY <1>10 DEF tranSibling, EnterPath, x
  <2>2. Common(s, x) = Up(super[s])
    BY <1>4, <2>1 DEF Common
  <2> QED BY <1>5, <1>6, <2>1, <2>2
<1>11. CASE tranUp
  <2>1. super[s] = x /\ ExitSource /\ ip' = 0
    BY <1>11 DEF tranUp, EnterPath, x
  <2>2. Common(s, x) = Up(super[s])
    BY <1>4, <1>4a, <2>1 DEF Common
  <2> QED BY <1>5, <1>7, <2>1, <2>2
<1> QED BY <1>8, <1>9, <1>10, <1>11

\* The assertion on the entry path fails for a state with a chain that is
\* longer than the path.
LEMMA OverflowStep ==
    ASSUME HInv, UNCHANGED <<super, m_state, pc, t, s, path, ip, history>>,
           InTran, asrt' = "path", Len(Chain(target)) > MAX_NEST_DEPTH_
    PROVE  HInv'
<1>0. /\ Hierarchy' /\ EntryExitOrder'
      /\ \A z : Chain(z)' = Chain(z) /\ Up(z)' = Up(z)
  BY HInvFrame DEF history
<1>1. target \in States /\ Len(Chain(target)') > MAX_NEST_DEPTH_
  <2>1. target' = target
    BY DEF target
  <2> QED BY <1>0, TranStart, <2>1
<1>2. NoPathOverflow'
  <2>1. \E x \in States : Len(Chain(x)') > MAX_NEST_DEPTH_
    BY <1>0, <1>1, TranStart
  <2> QED BY <2>1 DEF NoPathOverflow
<1>3. pc = "exit" /\ pc' = "exit"
  BY DEF InTran
<1>4. Exiting'
  <2>1. target' = target /\ Up(t)' = Up(t)
    BY <1>0 DEF target
  <2> QED BY <1>3, <2>1 DEF HInv, Exiting, history
<1> QED BY <1>0, <1>2, <1>3, <1>4 DEF HInv, Searching, Drilling, Entering, Idle, Climbing

\* hsm_tran, (e): the source is on the chain of the target.
LEMMA FarDownStep == ASSUME HInv, tranFarDown PROVE HInv'
<1> DEFINE x == target  c == Chain(x)  f == Find(c, s)
<1>0. InTran /\ s # x /\ f > 1 /\ UNCHANGED <<super, m_state, s, history>>
  BY DEF tranFarDown, Remote, Below, TranUnchanged
<1>1. /\ Hierarchy /\ legal /\ s \in States /\ x \in States
      /\ entered = Up(s) /\ kept = Up(s)
  BY <1>0, TranStart
<1>2. /\ f - 1 \in 1 .. Len(c) - 1 /\ c[(f - 1) + 1] = s
      /\ PathTo(x, s)[1] = x /\ \A i \in 1 .. f - 1 : PathTo(x, s)[i] = c[i]
  BY <1>0, <1>1, PathToIs
<1>3. Len(c) \in Nat /\ x \in 0 .. N
  BY <1>1, ChainStart, TopFound
<1>3a. f \in 1 .. Len(c) /\ c[f] = s
  BY <1>0, <1>1, <1>3, FindChain
<1>4. CASE PathFits(f)
  <2>1. path' = PathTo(x, s) /\ ip' = f - 1 /\ pc' = "enter" /\ asrt' = asrt
    BY <1>4 DEF tranFarDown, EnterPath
  <2>2. legal' /\ entered' = Up(s) /\ kept' = Up(s)
    BY <1>0, <1>1 DEF history
  <2>3. Common(s, x) = Up(s)
    <3>1. s \in Up(x) \cup {top}
      BY <1>1, <1>3, <1>3a, UpIs
    <3>2. s # top
      BY <1>1, HsmAssumption DEF States, top
    <3>3. Up(s) \subseteq Up(x)
      BY <1>1, <1>3, <3>1, <3>2, UpOrder
    <3> QED BY <1>0, <3>3 DEF Common
  <2>4. f - 1 \in 0 .. Len(c) - 1
    <3> HIDE DEF c, f
    <3> QED BY <1>2, <1>3
  <2> HIDE DEF f
  <2> QED BY <1>0, <1>1, <1>2, <2>1, <2>2, <2>3, <2>4, ToEntering
<1>5. CASE ~PathFits(f)
  <2>1. asrt' = "path" /\ UNCHANGED <<pc, t, path, ip>>
    BY <1>5 DEF tranFarDown
  <2>2. Len(c) > MAX_NEST_DEPTH_
    <3> HIDE DEF c, f
    <3> QED BY <1>3, <1>3a, <1>5, HsmAssumption DEF PathFits
  <2> QED BY <1>0, <2>1, <2>2, OverflowStep
<1> QED BY <1>4, <1>5

\* ClimbTo after an exit of z, in the case (f) or (g) and in every round of (g)
LEMMA ClimbStep ==
    ASSUME HInv, UNCHANGED <<super, m_state, s, asrt>>,
           NEW x \in States, s \in States, s # x,
           NEW z \in States, z \notin Up(x), Up(s) \cap Up(x) = Up(z) \cap Up(x),
           entered = Up(z), kept = Up(z), Exit(z), t' = super[z],
           ClimbTo(Chain(x), super[z])
    PROVE  HInv'
<1> DEFINE c == Chain(x)  u == super[z]  f == Find(c, u)
<1>0. /\ Hierarchy /\ Hierarchy' /\ NoPathOverflow'
      /\ legal /\ (legal' => EntryExitOrder')
      /\ \A y : Chain(y)' = Chain(y) /\ Up(y)' = Up(y)
  BY HInvFrame
<1>1. legal' /\ entered' = Up(u) /\ kept' = Up(u)
  BY <1>0, ExitInOrder
<1>2. x \in 0 .. N /\ Len(c) \in Nat /\ c[1] = x
  BY <1>0, TopFound, ChainStart
<1>3. path' = c
  BY DEF ClimbTo
<1>4. CASE f > 0
  <2>1. ip' = f - 1 /\ pc' = "enter"
    BY <1>4 DEF ClimbTo
  <2>2. u \in Up(x) \cup {top} /\ f \in 1 .. Len(c) /\ c[f] = u
    BY <1>0, <1>2, <1>4, UpIs
  <2>3. Common(s, x) = Up(u)
    BY <1>0, <2>2, CommonAtSuper
  <2>4. f - 1 \in 0 .. Len(c) - 1 /\ (f - 1) + 1 = f
    <3> HIDE DEF c, f
    <3> QED BY <1>2, <2>2
  <2>5. \A i \in 1 .. f - 1 : path'[i] = c[i]
    BY <1>3
  <2>6. entered' = Up(c[(f - 1) + 1]) /\ path'[1] = x
    BY <1>1, <1>2, <1>3, <2>2, <2>4
  <2> HIDE DEF f
  <2> QED BY <1>1, <2>1, <2>3, <2>4, <2>5, <2>6, ToEntering
<1>5. CASE ~(f > 0)
  <2>1. pc' = "climb"
    BY <1>5 DEF ClimbTo
  <2>2. u \notin Up(x) \cup {top}
    BY <1>0, <1>2, <1>5, UpIs
  <2>3. u \in States /\ Up(z) = {z} \cup Up(u)
    BY <1>0, <2>2, UpStrict, UpStep
  <2>4. target' = x
    BY <1>2, <1>3 DEF target
  <2>5. /\ Up(target)' = Up(x) /\ Chain(target)' = c /\ Up(s)' = Up(s) /\ Up(t)' = Up(u)
    BY <1>0, <2>4
  <2>6. Climbing'
    BY <1>1, <1>3, <2>1, <2>2, <2>3, <2>4, <2>5 DEF Climbing
  <2> QED BY <1>0, <1>1, <2>1, <2>6 DEF HInv, Searching, Drilling, Entering, Idle, Exiting
<1> QED BY <1>4, <1>5

\* hsm_tran, (f) and the start of (g): the source is not on it.
LEMMA RemoteStep == ASSUME HInv, tranRemote PROVE HInv'
<1> DEFINE x == target  c == Chain(x)
<1>0. InTran /\ s # x /\ ~(Find(c, s) > 1) /\ UNCHANGED <<super, m_state, s>>
  BY DEF tranRemote, Remote, Below, TranUnchanged
<1>1. /\ Hierarchy /\ s \in States /\ x \in States /\ entered = Up(s) /\ kept = Up(s)
  BY <1>0, TranStart
<1>2. s \notin Up(x)
  <2> SUFFICES ASSUME s \in Up(x) PROVE FALSE
    OBVIOUS
  <2>1. x \in 0 .. N /\ c[1] = x /\ Len(c) \in Nat
    BY <1>1, TopFound, ChainStart
  <2>2. Find(c, s) \in 1 .. Len(c) /\ c[Find(c, s)] = s
    BY <1>1, <2>1, UpIs
  <2>3. Find(c, s) # 1
    BY <1>0, <2>1, <2>2
  <2>4. \A n \in Nat : \A f \in 1 .. n : f # 1 => f > 1
    OBVIOUS
  <2> QED BY <1>0, <2>1, <2>2, <2>3, <2>4
<1>3. CASE PathFits(Len(c))
  <2>1. ExitSource /\ asrt' = asrt /\ t' = super[s] /\ ClimbTo(c, super[s])
    BY <1>3 DEF tranRemote
  <2>2. Exit(s)
    BY <2>1 DEF ExitSource
  <2> QED BY <1>0, <1>1, <1>2, <2>1, <2>2, ClimbStep
<1>4. CASE ~PathFits(Len(c))
  <2>1. asrt' = "path" /\ UNCHANGED <<pc, t, path, ip, history>>
    BY <1>4 DEF tranRemote
  <2>2. Len(c) > MAX_NEST_DEPTH_
    <3>1. Len(c) \in Nat
      BY <1>1, ChainStart
    <3> HIDE DEF c
    <3> QED BY <1>4, <3>1, HsmAssumption DEF PathFits
  <2> QED BY <1>0, <2>1, <2>2, OverflowStep
<1> QED BY <1>3, <1>4

\* hsm_tran, the rounds of (g)
LEMMA ClimbOnStep == ASSUME HInv, climb PROVE HInv'
<1>1. /\ target \in States /\ path = Chain(target) /\ s \in States /\ s # target
      /\ t \in States /\ t \notin Up(target)
      /\ Up(s) \cap Up(target) = Up(t) \cap Up(target)
      /\ entered = Up(t) /\ kept = Up(t)
  BY DEF HInv, Climbing, climb
<1>2. /\ UNCHANGED <<super, m_state, s, asrt>> /\ Exit(t) /\ t' = super[t]
      /\ ClimbTo(path, super[t])
  BY ReturnsSuper DEF climb, TranUnchanged
<1> QED BY <1>1, <1>2, ClimbStep

-----------------------------------------------------------------------------
\* Every step preserves it.
LEMMA HInvNext == HInv /\ [Next]_vars => HInv'
<1> SUFFICES ASSUME HInv, [Next]_vars PROVE HInv'
  OBVIOUS
<1>1. CASE \E x \in States : init(x)
  BY <1>1, InitStep
<1>2. CASE \E x \in States : drill(x)
  BY <1>2, DrillStep
<1>3. CASE \E x \in States : take(x)
  BY <1>3, SearchStep
<1>4. CASE enter
  BY <1>4, EnterStep
<1>5. CASE arrive
  BY <1>5, ArriveStep
<1>6. CASE settle
  BY <1>6, SettleStep
<1>7. CASE dispatch
  BY <1>7, DispatchStep
<1>8. CASE pass \/ handle
  BY <1>8, SearchStep
<1>9. CASE exitToSource
  BY <1>9, ExitToSourceStep
<1>10. CASE tranSelf \/ tranDown \/ tranSibling \/ tranUp
  BY <1>10, NearTranStep
<1>11. CASE tranFarDown
  BY <1>11, FarDownStep
<1>12. CASE tranRemote
  BY <1>12, RemoteStep
<1>13. CASE climb
  BY <1>13, ClimbOnStep
<1>14. CASE UNCHANGED vars
  <2>1. super' = super /\ asrt' = asrt /\ legal' = legal /\ target' = target
        /\ UNCHANGED <<m_state, m_temp, pc, s, t, path, ip, entered, kept>>
    BY <1>14 DEF vars, target
  <2>2. /\ Hierarchy' /\ NoPathOverflow' /\ EntryExitOrder'
        /\ \A z : Chain(z)' = Chain(z) /\ Up(z)' = Up(z)
        /\ \A z, y : Common(z, y)' = Common(z, y)
    BY <2>1, HInvFrame
  <2>3. Idle' /\ Drilling' /\ Searching' /\ Exiting'
    BY <2>1, <2>2 DEF HInv, Idle, Drilling, Searching, Exiting
  <2>4. Climbing'
    BY <2>1, <2>2 DEF HInv, Climbing
  <2>5. Entering'
    BY <2>1, <2>2 DEF HInv, Entering
  <2> QED BY <2>2, <2>3, <2>4, <2>5 DEF HInv
<1> QED BY <1>1, <1>2, <1>3, <1>4, <1>5, <1>6, <1>7, <1>8, <1>9, <1>10, <1>11,
       <1>12, <1>13, <1>14 DEF Next

\* It is an invariant.
LEMMA HInvAlways == Spec => []HInv
<1>1. Init => HInv
  BY HInvInit
<1>2. HInv /\ [Next]_vars => HInv'
  BY HInvNext
<1> QED BY <1>1, <1>2, PTL DEF Spec

-----------------------------------------------------------------------------
(***************************************************************************)
(* The theorems, for every hierarchy of any number of states and any       *)
(* MAX_NEST_DEPTH_.                                                        *)
(***************************************************************************)
\* States are entered below an entered state, and exited once and after their
\* substates, in every sequence of init(), dispatch() and hsm_tran() steps.
THEOREM Ordered == Spec => []EntryExitOrder
<1>1. HInv => EntryExitOrder
  BY DEF HInv
<1> QED BY <1>1, HInvAlways, PTL

\* The assertions on the entry path in init(), dispatch() and hsm_tran() fail
\* only in a hierarchy with a state that is nested too deep; in any other one no
\* assertion fails, 400 of dispatch() included.
THEOREM DepthSuffices == Spec => []NoPathOverflow
<1>1. HInv => NoPathOverflow
  BY DEF HInv
<1> QED BY <1>1, HInvAlways, PTL

\* Every one of the cases (a) to (g) of hsm_tran() exits exactly the states
\* below the least common ancestor, and leaves a path that leads to the target.
THEOREM TransitionsExact == Spec => []TransitionExact
<1>1. HInv => TransitionExact
  <2> SUFFICES ASSUME HInv, pc = "enter"
               PROVE  /\ kept = Common(s, target)
                      /\ entered \cup {path[i] : i \in 1 .. ip} = Up(target)
    BY DEF TransitionExact
  <2> DEFINE c == Chain(target)
  <2>1. Hierarchy
    BY DEF HInv
  <2>2. /\ target \in States /\ ip \in 0 .. Len(c) - 1
        /\ \A i \in 1 .. ip : path[i] = c[i]
        /\ entered = Up(c[ip + 1]) /\ kept = Common(s, target)
    BY DEF HInv, Entering
  <2>3. target \in 0 .. N /\ Len(c) \in Nat
    BY <2>1, <2>2, TopFound, ChainStart
  <2>4. /\ \A i \in 1 .. Len(c) - 1 : c[i] \in States
        /\ Len(Chain(c[ip + 1])) = Len(c) - (ip + 1) + 1
        /\ \A j \in 1 .. Len(Chain(c[ip + 1])) : Chain(c[ip + 1])[j] = c[(ip + 1) + j - 1]
    <3>1. ip + 1 \in 1 .. Len(c)
      <4> HIDE DEF c
      <4> QED BY <2>2, <2>3
    <3> QED BY <2>1, <2>3, <3>1, ChainForm DEF Form
  <2>5. c[ip + 1] \in 0 .. N
    <3>1. ip + 1 \in 1 .. Len(c)
      <4> HIDE DEF c
      <4> QED BY <2>2, <2>3
    <3>2. c \in Seq(0 .. target)
      BY <2>1, <2>3, ChainForm DEF Form
    <3>3. c[ip + 1] \in 0 .. target
      <4> HIDE DEF c
      <4> QED BY <3>1, <3>2, ElementOfSeq
    <3> QED BY <2>3, <3>3, HsmAssumption
  <2>6. ASSUME NEW y \in States
        PROVE  (\E i \in 1 .. Len(c) : c[i] = y) <=>
                  \/ \E i \in 1 .. Len(Chain(c[ip + 1])) : Chain(c[ip + 1])[i] = y
                  \/ \E i \in 1 .. ip : c[i] = y
    <3> DEFINE d == Chain(c[ip + 1])
    <3> HIDE DEF c, d
    <3>1. Len(d) = Len(c) - (ip + 1) + 1
          /\ \A j \in 1 .. Len(d) : d[j] = c[(ip + 1) + j - 1]
      BY <2>4 DEF d
    <3>2. ASSUME NEW i \in 1 .. Len(c), c[i] = y, i > ip
          PROVE  \E j \in 1 .. Len(d) : d[j] = y
      <4>1. i - ip \in 1 .. Len(d) /\ (ip + 1) + (i - ip) - 1 = i
        BY <2>2, <2>3, <3>1, <3>2
      <4> QED BY <3>1, <3>2, <4>1
    <3>3. ASSUME NEW j \in 1 .. Len(d), d[j] = y
          PROVE  \E i \in 1 .. Len(c) : c[i] = y
      <4>1. (ip + 1) + j - 1 \in 1 .. Len(c)
        <5>1. \A n \in Nat : \A k \in 0 .. n - 1 : \A i \in 1 .. n - (k + 1) + 1 :
                  (k + 1) + i - 1 \in 1 .. n
          OBVIOUS
        <5>2. ip \in 0 .. Len(c) - 1 /\ j \in 1 .. Len(c) - (ip + 1) + 1
          BY <2>2, <3>1
        <5> QED BY <2>3, <5>1, <5>2
      <4> QED BY <3>1, <3>3, <4>1
    <3>4. 1 .. ip \subseteq 1 .. Len(c)
      BY <2>2, <2>3
    <3>5. \A i \in 1 .. Len(c) : i > ip \/ i \in 1 .. ip
      BY <2>2, <2>3
    <3> QED BY <3>2, <3>3, <3>4, <3>5 DEF d
  <2>7. ASSUME NEW y
        PROVE  y \in Up(target) <=> y \in entered \cup {path[i] : i \in 1 .. ip}
    <3>1. y \in Up(target) <=> y \in States /\ \E i \in 1 .. Len(c) : c[i] = y
      BY <2>1, <2>3, UpIs
    <3>2. y \in Up(c[ip + 1]) <=>
            y \in States /\ \E i \in 1 .. Len(Chain(c[ip + 1])) : Chain(c[ip + 1])[i] = y
      BY <2>1, <2>5, UpIs
    <3>3. y \in {path[i] : i \in 1 .. ip} <=> \E i \in 1 .. ip : c[i] = y
      BY <2>2
    <3>4. (\E i \in 1 .. ip : c[i] = y) => y \in States
      <4>1. 1 .. ip \subseteq 1 .. Len(c) - 1
        <5> HIDE DEF c
        <5> QED BY <2>2, <2>3
      <4> QED BY <2>4, <4>1
    <3> HIDE DEF c
    <3> QED BY <2>2, <2>6, <3>1, <3>2, <3>3, <3>4
  <2> QED BY <2>2, <2>7
<1> QED BY <1>1, HInvAlways, PTL

\* Between two events exactly the current state and its superstates are
\* entered, and isIn() and childState() answer by them.
THEOREM StableBetweenEvents == Spec => []StableConfiguration
<1>1. HInv => StableConfiguration
  <2> SUFFICES ASSUME HInv, pc = "stable" PROVE StableConfiguration
    BY DEF StableConfiguration
  <2> DEFINE c == Chain(m_state)
  <2>1. Hierarchy /\ m_state \in States /\ m_temp = m_state /\ entered = Up(m_state)
    BY DEF HInv, Idle
  <2>2. m_state \in 0 .. N /\ Len(c) \in Nat /\ c[1] = m_state
    BY <2>1, TopFound, ChainStart
  <2>3. ASSUME NEW x \in States PROVE isIn(x) <=> x \in entered
    BY <2>1 DEF isIn, Up
  <2>4. ASSUME NEW p \in (entered \cup {top}) \ {m_state}
        PROVE  childState(p) \in entered /\ super[childState(p)] = p
    <3> DEFINE f == Find(c, p)
    <3>1. f \in 1 .. Len(c) /\ c[f] = p
      BY <2>1, <2>2, UpIs
    <3>2. f # 1
      BY <2>2, <3>1
    <3>3. f - 1 \in 1 .. Len(c) - 1 /\ f - 1 \in 1 .. Len(c) /\ (f - 1) + 1 = f
      <4> HIDE DEF c, f
      <4> QED BY <2>2, <3>1, <3>2
    <3>4. c[f - 1] \in States /\ c[(f - 1) + 1] = super[c[f - 1]]
      BY <2>1, <2>2, <3>3, ChainForm DEF Form
    <3>5. c[f - 1] \in Up(m_state)
      BY <2>1, <2>2, <3>3, <3>4, UpIs
    <3>6. childState(p) = c[f - 1]
      BY DEF childState
    <3> QED BY <2>1, <3>1, <3>3, <3>4, <3>5, <3>6
  <2> QED BY <2>1, <2>3, <2>4 DEF StableConfiguration
<1> QED BY <1>1, HInvAlways, PTL
=============================================================================
