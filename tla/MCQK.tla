-------------------------------- MODULE MCQK --------------------------------
(* QK for TLC.                                                             *)
EXTENDS QK

CONSTANTS a1, a2, a3

MCObjs == {a1, a2, a3}
\* A priority of its own for every object.
MCPrio == (a1 :> 1 @@ a2 :> 2 @@ a3 :> 3)
=============================================================================
