---------------------------- MODULE IpcObjectsMC ----------------------------
(* Three threads on one object with two wait lists.                        *)
EXTENDS IpcObjects, TLC

CONSTANTS main, idle, a, W1, W2

MCThread   == {main, idle, a}
MCInitPrio == (main :> 1) @@ (a :> 0) @@ (idle :> 2)
MCLists    == <<W1, W2>>
MCRequests == {[set |-> {"e1"}, opt |-> "OR", clear |-> TRUE],
               [set |-> {"e1", "e2"}, opt |-> "AND", clear |-> TRUE],
               [set |-> {"e1", "e2"}, opt |-> "OR", clear |-> FALSE]}
=============================================================================
