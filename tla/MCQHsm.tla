------------------------------- MODULE MCQHsm -------------------------------
(* QHsm for TLC.                                                           *)
EXTENDS QHsm
=============================================================================
