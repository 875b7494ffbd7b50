-------------------------------- MODULE Mem ---------------------------------
(***************************************************************************)
(* The small memory heap of src/mem.c.  rt_malloc looks for the first free *)
(* block that fits, from lfree on, and splits it; rt_free merges a block   *)
(* with free neighbours; rt_realloc is a look at the block, an rt_malloc   *)
(* and an rt_free, between which it does not hold the semaphore.           *)
(***************************************************************************)
EXTENDS Heap

VARIABLES
  lfree,      \* the block from which rt_malloc looks, as an offset
  used_mem    \* the statistic of the bytes in use

memVars == <<heap, lfree, used_mem, want>>

mem_size_aligned == AlignDown(End) - AlignUp(Begin) - 2 * Header
heap_end == mem_size_aligned + Header     \* as an offset

(* What rt_system_heap_init tests is true, and the memory holds a smallest *)
(* block: the unsigned difference in rt_malloc's search does not underflow.*)
ASSUME MemAssumption == mem_size_aligned >= MinSize

(* rt_system_heap_init *)
MemInit ==
  /\ heap = [p \in {0, heap_end} |->
              [used |-> p = heap_end, next |-> heap_end, prev |-> p]]
  /\ lfree = 0
  /\ used_mem = 0
  /\ want = [p \in {} |-> 0]
  /\ NoCall

-----------------------------------------------------------------------------
(* rt_malloc *)

(* The size that is looked for; 0 if the call fails at once.  Sizes are    *)
(* far below 2^32, where the code's rounding wraps around.                 *)
Rounded(size) ==
  LET n == AlignUp(size)
  IN  IF n > mem_size_aligned THEN 0
      ELSE IF n > 0 /\ n < MinSize THEN MinSize ELSE n

(* The search: along the blocks from lfree on, with the condition of the   *)
(* loop.  (A block that fits exactly at the end of the memory is not found.)*)
FirstFit(size) ==
  LET from[p \in DOMAIN heap] ==
        IF ~(p < mem_size_aligned - size) THEN Null
        ELSE IF ~heap[p].used /\ DataSize(heap, p) >= size THEN p
        ELSE from[heap[p].next]
  IN  from[lfree]

(* Mutants of Carve: a remainder that only holds a header is split off;    *)
(* the block behind the remainder keeps its link.                          *)
CarveSmall(p, size) ==
  LET rest == p + Header + size
  IN  IF DataSize(heap, p) >= size + Header
      THEN With([heap EXCEPT ![p].next = rest, ![p].used = TRUE,
                             ![heap[p].next].prev = rest],
                rest, [used |-> FALSE, next |-> heap[p].next, prev |-> p])
      ELSE [heap EXCEPT ![p].used = TRUE]
CarveUnlinked(p, size) ==
  LET rest == p + Header + size
  IN  IF DataSize(heap, p) >= size + Header + MinSize
      THEN With([heap EXCEPT ![p].next = rest, ![p].used = TRUE],
                rest, [used |-> FALSE, next |-> heap[p].next, prev |-> p])
      ELSE [heap EXCEPT ![p].used = TRUE]

(* Block p is taken, whole or, if another block of MinSize is left, split. *)
Carve(p, size) ==
  LET rest == p + Header + size
      split == [heap EXCEPT ![p].next = rest, ![p].used = TRUE]
  IN  IF DataSize(heap, p) >= size + Header + MinSize
      THEN With(IF heap[p].next # heap_end
                THEN [split EXCEPT ![heap[p].next].prev = rest] ELSE split,
                rest, [used |-> FALSE, next |-> heap[p].next, prev |-> p])
      ELSE [heap EXCEPT ![p].used = TRUE]

(* "Find next free block after mem".  (The source casts heap_ptr[...], a   *)
(* byte, to a pointer where it needs &heap_ptr[...].)                      *)
NextFree(h, p) ==
  LET from[q \in DOMAIN h] == IF h[q].used /\ q # heap_end THEN from[h[q].next] ELSE q
  IN  from[p]

(* rt_malloc(size) returns block p, as the offset of its header.           *)
Allocated(size, p) ==
  LET h == Carve(p, Rounded(size))
  IN  /\ heap' = h
      /\ lfree' = IF p = lfree THEN NextFree(h, lfree) ELSE lfree
      /\ used_mem' = used_mem + h[p].next - p
      /\ want' = With(want, p, size)

(* rt_malloc(size) does, or returns RT_NULL, whereupon nothing has changed.*)
Found(size) == IF Rounded(size) = 0 THEN Null ELSE FirstFit(Rounded(size))

Malloc(c, size) ==
  /\ pc[c] = "app" /\ Found(size) # Null
  /\ Allocated(size, Found(size))
  /\ UNCHANGED callVars

(* rt_calloc, of a number of bytes that does not overflow                  *)
Calloc(c, count, size) == Malloc(c, count * size)

-----------------------------------------------------------------------------
(* rt_free *)

(* "plug hole forward".  Its test `lfree = nmem` is an assignment: lfree   *)
(* becomes the freed block although there may be lower free ones.          *)
PlugForward(r, p) ==
  LET n == r.heap[p].next
      after == r.heap[n].next
  IN  IF p # n /\ ~r.heap[n].used /\ n # heap_end
      THEN [heap |-> Absorbed([r.heap EXCEPT ![p].next = after, ![after].prev = p], n),
            lfree |-> p]
      ELSE r

(* Mutant of PlugBackward: the first block of the heap is not merged with. *)
PlugBackwardNotFirst(r, p) ==
  LET b == r.heap[p].prev
      after == r.heap[p].next
  IN  IF b # 0 /\ ~r.heap[b].used
      THEN [heap |-> Absorbed([r.heap EXCEPT ![b].next = after, ![after].prev = b], p),
            lfree |-> IF r.lfree = p THEN b ELSE r.lfree]
      ELSE r

(* "plug hole backward" *)
PlugBackward(r, p) ==
  LET b == r.heap[p].prev
      after == r.heap[p].next
  IN  IF b # p /\ ~r.heap[b].used
      THEN [heap |-> Absorbed([r.heap EXCEPT ![b].next = after, ![after].prev = b], p),
            lfree |-> IF r.lfree = p THEN b ELSE r.lfree]
      ELSE r

(* The section of rt_free, of the block with its header at p               *)
Freed(p) ==
  LET unused == [heap  |-> [heap EXCEPT ![p].used = FALSE],
                 lfree |-> IF p < lfree THEN p ELSE lfree]
      r == PlugBackward(PlugForward(unused, p), p)
  IN  /\ heap' = r.heap
      /\ lfree' = r.lfree
      /\ used_mem' = used_mem - (heap[p].next - p)
      /\ want' = Absorbed(want, p)

Free(c, p) ==
  /\ pc[c] = "app"
  /\ Freed(p)
  /\ UNCHANGED callVars

-----------------------------------------------------------------------------
(* rt_realloc(p, size): the first part.  (With size 0 it is rt_free, with  *)
(* p RT_NULL it is rt_malloc.)  It goes on unless the block has that size. *)
Realloc(c, p, size) ==
  /\ pc[c] = "app"
  /\ AlignUp(size) \notin {0, DataSize(heap, p)} /\ AlignUp(size) <= mem_size_aligned
  /\ pc' = [pc EXCEPT ![c] = "expand"]
  /\ rmem' = [rmem EXCEPT ![c] = p]
  /\ newsize' = [newsize EXCEPT ![c] = AlignUp(size)]
  /\ UNCHANGED <<memVars, nmem>>

(* "expand memory"; if there is none it returns RT_NULL and leaves the old *)
(* block as it is.                                                         *)
ReallocExpand(c) ==
  /\ pc[c] = "expand"
  /\ \/ /\ Found(newsize[c]) # Null
        /\ Allocated(newsize[c], Found(newsize[c]))
        /\ nmem' = [nmem EXCEPT ![c] = Found(newsize[c])]
        /\ pc' = [pc EXCEPT ![c] = "free"]
        /\ UNCHANGED <<rmem, newsize>>
     \/ /\ Found(newsize[c]) = Null
        /\ Finish(c)
        /\ UNCHANGED memVars

(* The contents are copied and the old block is freed.                     *)
ReallocFree(c) ==
  /\ pc[c] = "free"
  /\ Freed(rmem[c])
  /\ Finish(c)

MemNext ==
  \E c \in Client :
    \/ \E size \in Sizes :
         \/ Malloc(c, size) \/ Calloc(c, 2, size)
         \/ \E p \in Having : Realloc(c, p, size)
    \/ \E p \in Having : Free(c, p)
    \/ ReallocExpand(c) \/ ReallocFree(c)

MemSpec == MemInit /\ [][MemNext]_<<memVars, callVars>>

-----------------------------------------------------------------------------
(* Correctness.                                                            *)

(* The heap is divided into its blocks, the links go backward as they go   *)
(* forward, and used_mem is the size of the allocated blocks.  (The end's  *)
(* link back is not kept by rt_malloc.)                                    *)
MemDivided ==
  /\ Divided(heap_end)
  /\ heap[0].prev = 0
  /\ \A p \in DOMAIN heap : heap[p].next # heap_end => heap[heap[p].next].prev = p
  /\ used_mem = Total([p \in DOMAIN want |-> heap[p].next - p])

(* lfree is a block, and a free one unless none is free behind it: a merge *)
(* never leaves it at a header that is now in the middle of a block.       *)
LfreeValid ==
  lfree \in DOMAIN heap /\ (lfree = heap_end \/ ~heap[lfree].used)
=============================================================================
