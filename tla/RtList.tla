------------------------------- MODULE RtList -------------------------------
(***************************************************************************)
(* The kernel's circular lists, rt_list_t of include/rtservice.h, as the   *)
(* sequence of the objects whose nodes are linked behind the list's head.  *)
(***************************************************************************)
EXTENDS Integers, Sequences

Elements(s) == {s[i] : i \in DOMAIN s}

(* rt_list_remove: the sequence s without t, which is in it at most once   *)
Without(s, t) ==
  IF t \notin Elements(s) THEN s
  ELSE LET at == CHOOSE i \in DOMAIN s : s[i] = t
       IN  [i \in 1 .. Len(s) - 1 |-> IF i < at THEN s[i] ELSE s[i + 1]]

(* rt_list_insert_after, called with the node before place i: t comes to   *)
(* be the i-th object of s                                                 *)
InsertAt(s, i, t) ==
  [j \in 1 .. Len(s) + 1 |-> IF j < i THEN s[j] ELSE IF j = i THEN t ELSE s[j - 1]]
=============================================================================
