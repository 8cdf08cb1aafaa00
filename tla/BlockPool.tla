----------------------------- MODULE BlockPool ------------------------------
(***************************************************************************)
(* What a fixed-size memory pool promises: a set of free blocks.  get()    *)
(* hands out one of them, if more than margin are free; a block that is    *)
(* handed out comes back with put().                                       *)
(***************************************************************************)
EXTENDS Integers, FiniteSets

CONSTANTS Margins      \* the margins clients ask for

VARIABLES blocks,      \* all blocks of the pool, {} before it is initialised
          free,        \* the free ones
          low          \* the smallest number of free blocks so far

vars == <<blocks, free, low>>

Init == blocks = {} /\ free = {} /\ low = 0

Start(S) == /\ blocks = {}
            /\ blocks' = S
            /\ free' = S
            /\ low' = Cardinality(S)

Get(b) == /\ b \in free
          /\ \E margin \in Margins : Cardinality(free) > margin
          /\ free' = free \ {b}
          /\ low' = IF Cardinality(free) - 1 < low THEN Cardinality(free) - 1
                                                   ELSE low
          /\ UNCHANGED blocks

Put(b) == /\ b \in blocks \ free
          /\ free' = free \cup {b}
          /\ UNCHANGED <<blocks, low>>

Next == \/ blocks = {} /\ blocks' # {} /\ Start(blocks')
        \/ \E b \in blocks : Get(b) \/ Put(b)

Spec == Init /\ [][Next]_vars
=============================================================================
