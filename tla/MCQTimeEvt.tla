----------------------------- MODULE MCQTimeEvt -----------------------------
(* QTimeEvt for TLC.  The time events are interchangeable.                 *)
EXTENDS QTimeEvt, TLC

CONSTANTS t1, t2, t3

MCTimeEvts == {t1, t2, t3}
MCTwoEvts == {t1, t2}
MCSymmetry == Permutations(MCTimeEvts)
MCTwoSymmetry == Permutations(MCTwoEvts)
=============================================================================
