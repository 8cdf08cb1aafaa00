----------------------------- MODULE MCQFEvents -----------------------------
(* QFEvents for TLC.  The events of one pool are interchangeable.          *)
EXTENDS QFEvents, TLC

CONSTANTS d1, d2, s1, isr1

MCPrios == {1, 2}
MCIsrs == {isr1}
MCPoolOfTwo == <<{d1, d2}>>
MCPoolOfOne == <<{d1}>>
MCTwoPools == <<{d1}, {d2}>>
MCStaticEvts == {s1}
MCMargins == {0, 1}
MCSymmetry == Permutations({d1, d2})
=============================================================================
