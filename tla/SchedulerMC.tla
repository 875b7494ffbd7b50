---------------------------- MODULE SchedulerMC -----------------------------
(***************************************************************************)
(* Instances of Scheduler for TLC: a main thread and two others, one more  *)
(* urgent and made by rt_thread_create, beside the idle thread.            *)
(***************************************************************************)
EXTENDS Scheduler, TLC

CONSTANTS main, idle, a, b

MCThread   == {main, idle, a, b}
MCInitPrio == (main :> 1) @@ (a :> 0) @@ (b :> 1) @@ (idle :> 2)
MCStatic   == {idle, b}
=============================================================================
