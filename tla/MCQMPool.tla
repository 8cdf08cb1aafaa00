------------------------------ MODULE MCQMPool ------------------------------
(* QMPool for TLC: pointers of two bytes, 16-bit types scaled to 16.       *)
EXTENDS QMPool, TLC

CONSTANTS c1, c2

MCClients == {c1, c2}
MCMargins == 0 .. 2
MCPoolSizes == 1 .. 13
MCBlockSizes == (0 .. 6) \cup {14, 15}
=============================================================================
