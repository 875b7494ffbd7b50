------------------------------- MODULE Heaps --------------------------------
(***************************************************************************)
(* A heap, which is one of src/mem.c or one of src/memheap.c: the kind is  *)
(* chosen in the initial state, and what the other kind has besides stays  *)
(* as it is.                                                               *)
(***************************************************************************)
EXTENDS Mem, MemHeap

VARIABLES
  kind        \* "small" or "memheap"

heapsVars == <<memVars, free_list, available_size, oldsize, callVars, kind>>

HeapsInit ==
  \/ /\ kind = "small" /\ MemInit
     /\ free_list = << >> /\ available_size = 0 /\ oldsize = [c \in Client |-> 0]
  \/ /\ kind = "memheap" /\ MemHeapInit
     /\ lfree = 0 /\ used_mem = 0

HeapsNext ==
  /\ \/ kind = "small" /\ MemNext /\ UNCHANGED <<free_list, available_size, oldsize>>
     \/ kind = "memheap" /\ MemHeapNext /\ UNCHANGED <<lfree, used_mem>>
  /\ UNCHANGED kind

HeapsSpec == HeapsInit /\ [][HeapsNext]_heapsVars

-----------------------------------------------------------------------------
(* The blocks divide the memory, forward and backward: rt_malloc,          *)
(* rt_free, plug_holes and the functions of memheap.c lose no byte of it   *)
(* and use none twice.                                                     *)
HeapDivided == IF kind = "small" THEN MemDivided ELSE MemHeapDivided

(* What leads to the free blocks is up to date after every split, merge    *)
(* and move of a header: lfree of rt_malloc and rt_free is a block; the    *)
(* free list and available_size of memheap.c are those of the free blocks. *)
FreeBlocksIndexed == IF kind = "small" THEN LfreeValid ELSE FreeListExact
=============================================================================
