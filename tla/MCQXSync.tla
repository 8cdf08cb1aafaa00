------------------------------ MODULE MCQXSync ------------------------------
(* QXSync with the basic threads a1 and a3 and the extended threads t2 and *)
(* t4, at the priorities of their names: a3 preempts both a1 and t2.       *)
EXTENDS QXSync, TLC

CONSTANTS a1, t2, a3, t4

MCBasic == {a1, a3}
MCExt == {t2, t4}
MCLock == (a1 :> {3}) @@ (t2 :> {}) @@ (a3 :> {}) @@ (t4 :> {5})
MCQLen == (a1 :> 1) @@ (t2 :> 1) @@ (a3 :> 1) @@ (t4 :> 0)
MCPrioOf == (a1 :> 1) @@ (t2 :> 2) @@ (a3 :> 3) @@ (t4 :> 4)
=============================================================================
