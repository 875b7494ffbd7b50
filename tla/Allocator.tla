----------------------------- MODULE Allocator ------------------------------
(***************************************************************************)
(* What a heap promises: an allocation gets a region of the memory that    *)
(* overlaps no region in use, and keeps it until it is freed; a region may *)
(* change its length where it is.                                          *)
(***************************************************************************)
EXTENDS Naturals

CONSTANTS
  Memory      \* the offsets of the memory that is handed out

VARIABLES
  regions     \* the regions in use, [base, len] of each

Overlap(r, s) == r.base < s.base + s.len /\ s.base < r.base + r.len

Init == regions = {}

Allocate(r) ==
  /\ r.len > 0 /\ r.base .. r.base + r.len - 1 \subseteq Memory
  /\ \A s \in regions : ~Overlap(r, s)
  /\ regions' = regions \cup {r}

Free(r) == regions' = regions \ {r}

Resize(r, s) ==
  /\ s.base = r.base /\ s.base .. s.base + s.len - 1 \subseteq Memory
  /\ \A other \in regions \ {r} : ~Overlap(s, other)
  /\ regions' = (regions \ {r}) \cup {s}

Next ==
  \/ \E r \in regions' : Allocate(r)
  \/ \E r \in regions : Free(r) \/ \E s \in regions' : Resize(r, s)

Spec == Init /\ [][Next]_regions
=============================================================================
