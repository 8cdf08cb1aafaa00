----------------------------- MODULE MCQEQueue ------------------------------
(* QEQueue for TLC: an event from a pool, a static one, and the margins up *)
(* to two.                                                                 *)
EXTENDS QEQueue, TLC

CONSTANTS d1, s1

MCEvts == {d1, s1}
MCDynEvts == {d1}
MCMargins == {NoMargin, 0, 1, 2}
MCQLens == 0 .. 3
=============================================================================
