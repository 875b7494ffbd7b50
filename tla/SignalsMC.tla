----------------------------- MODULE SignalsMC ------------------------------
(* Three application threads of three priorities that use one mutex, which *)
(* is also detached; two that use it, one of which is sent signals by      *)
(* interrupts; two that send each other a signal; and one that is sent two *)
(* by interrupts.                                                          *)
EXTENDS Signals, TLC

CONSTANTS main, idle, a, b, W1, s1, s2

MCThread   == {main, idle, a, b}
MCInitPrio == (main :> 1) @@ (a :> 0) @@ (b :> 2) @@ (idle :> 3)
MCLists    == <<W1>>
Pair       == {main, idle, a}

UseMutex == [crew |-> MCThread, mutex |-> TRUE, flag |-> Flags, calls |-> {},
             sent |-> {}, never |-> {}]
Interrupting == [crew |-> Pair, mutex |-> TRUE, flag |-> Flags, calls |-> {"isr_kill", "mask"},
                 sent |-> {<<a, s1>>}, never |-> {"drain1"}]
KillEachOther == [crew |-> Pair, mutex |-> FALSE, flag |-> {"FIFO"},
                  calls |-> {"kill", "sigwait", "mask"},
                  sent |-> {<<main, s1>>, <<a, s1>>}, never |-> {"block"}]
TwoSignals == [crew |-> Pair, mutex |-> FALSE, flag |-> {"FIFO"},
               calls |-> {"isr_kill", "sigwait", "mask"},
               sent |-> {<<a, s1>>, <<a, s2>>}, never |-> {"block"}]
MCWorks == {UseMutex, Interrupting, KillEachOther, TwoSignals}
=============================================================================
