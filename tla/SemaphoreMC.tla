---------------------------- MODULE SemaphoreMC -----------------------------
(***************************************************************************)
(* Instances of Semaphore for TLC: two threads of different priority       *)
(* beside the main and the idle thread, all set up statically.             *)
(***************************************************************************)
EXTENDS Semaphore, TLC

CONSTANTS main, idle, a, b

MCThread   == {main, idle, a, b}
MCInitPrio == (main :> 1) @@ (a :> 0) @@ (b :> 1) @@ (idle :> 2)
=============================================================================
