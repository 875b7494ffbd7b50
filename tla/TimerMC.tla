------------------------------ MODULE TimerMC -------------------------------
(***************************************************************************)
(* Instances of Timer for TLC.                                             *)
(***************************************************************************)
EXTENDS Timer, TLC

CONSTANTS t1, t2, t3

MCTimer == {t1, t2, t3}
MCTwo   == {t1, t2}
=============================================================================
