------------------------------ MODULE MemHeap -------------------------------
(***************************************************************************)
(* The memory heap of src/memheap.c: the blocks are a ring, whose last one *)
(* is never free, and the free ones are in a list besides, which           *)
(* rt_memheap_alloc searches.  rt_memheap_realloc grows a block into a     *)
(* free neighbour, or cuts off its end, or moves it.                       *)
(***************************************************************************)
EXTENDS Heap, RtList

VARIABLES
  free_list,        \* the free blocks, from free_list->next_free on
  available_size,   \* the bytes in free blocks
  oldsize           \* the size that rt_memheap_realloc has read

memHeapVars == <<heap, free_list, available_size, want>>
stay == <<pc, rmem, nmem, newsize, oldsize>>

pool_size == AlignDown(End - Begin)
tailer == pool_size - Header      \* the block that ends the memory

ASSUME MemHeapAssumption == pool_size > 2 * Header

(* rt_memheap_init *)
MemHeapInit ==
  /\ heap = [p \in {0, tailer} |->
              [used |-> p = tailer, next |-> tailer - p, prev |-> tailer - p]]
  /\ free_list = <<0>>
  /\ available_size = pool_size - 2 * Header
  /\ want = [p \in {} |-> 0]
  /\ oldsize = [c \in Client |-> 0]
  /\ NoCall

(* Block p keeps size bytes, and what is left of it becomes a free block.  *)
Rest(p, size) == p + Header + size
Split(h, p, size) ==
  With([h EXCEPT ![p].next = Rest(p, size), ![h[p].next].prev = Rest(p, size)],
       Rest(p, size), [used |-> FALSE, next |-> h[p].next, prev |-> p])

(* Block p and the next one become one.                                    *)
Merged(h, p) ==
  LET n == h[p].next
  IN  Absorbed([h EXCEPT ![p].next = h[n].next, ![h[n].next].prev = p], n)

Unlisted(p) == Without(free_list, p)

-----------------------------------------------------------------------------
(* rt_memheap_alloc: the size that is looked for                           *)
Asked(size) == IF AlignUp(size) < MinSize THEN MinSize ELSE AlignUp(size)

(* Its first test, made without the lock                                   *)
Available(c, size) ==
  /\ size < available_size
  /\ pc' = [pc EXCEPT ![c] = "search"]
  /\ newsize' = [newsize EXCEPT ![c] = size]

MemHeapAlloc(c, size) ==
  /\ pc[c] = "app"
  /\ Available(c, Asked(size))
  /\ UNCHANGED <<memHeapVars, rmem, nmem, oldsize>>

Fitting(size) == {i \in DOMAIN free_list : DataSize(heap, free_list[i]) >= size}

(* The section that takes the first block of the free list that fits, whole*)
(* or split                                                                *)
Taken(p, size) ==
  /\ IF DataSize(heap, p) > size + Header + MinSize
     THEN /\ heap' = [Split(heap, p, size) EXCEPT ![p].used = TRUE]
          /\ free_list' = <<Rest(p, size)>> \o Unlisted(p)
          /\ available_size' = available_size - size - Header
     ELSE /\ heap' = [heap EXCEPT ![p].used = TRUE]
          /\ free_list' = Unlisted(p)
          /\ available_size' = available_size - DataSize(heap, p)
  /\ want' = With(want, p, size)

MemHeapTake(c) ==
  /\ pc[c] = "search"
  /\ \/ /\ Fitting(newsize[c]) # {}
        /\ LET p == free_list[Min(Fitting(newsize[c]))]
           IN  /\ Taken(p, newsize[c])
               /\ IF rmem[c] = Null THEN Finish(c)
                  ELSE /\ pc' = [pc EXCEPT ![c] = "free"]
                       /\ nmem' = [nmem EXCEPT ![c] = p]
                       /\ UNCHANGED <<rmem, newsize>>
     \/ Fitting(newsize[c]) = {} /\ Finish(c) /\ UNCHANGED memHeapVars
  /\ UNCHANGED oldsize

-----------------------------------------------------------------------------
(* rt_memheap_free                                                         *)
Returned(p) ==
  LET freed == [heap EXCEPT ![p].used = FALSE]
      left  == ~heap[heap[p].prev].used
      first == IF left THEN heap[p].prev ELSE p
      whole == IF left THEN Merged(freed, first) ELSE freed
      right == ~heap[heap[p].next].used
      list  == IF right THEN Unlisted(heap[p].next) ELSE free_list
  IN  /\ heap' = IF right THEN Merged(whole, first) ELSE whole
      /\ free_list' = IF left THEN list ELSE <<p>> \o list
      /\ available_size' = available_size + DataSize(heap, p)
                             + (IF left THEN Header ELSE 0) + (IF right THEN Header ELSE 0)
      /\ want' = Absorbed(want, p)

MemHeapFree(c, p) ==
  /\ pc[c] = "app"
  /\ Returned(p)
  /\ UNCHANGED stay

-----------------------------------------------------------------------------
(* rt_memheap_realloc(heap, p, size): the size of p is read without the    *)
(* lock, and decides what is done.  (With size 0 it is rt_memheap_free,    *)
(* with p RT_NULL rt_memheap_alloc.)                                       *)
MemHeapRealloc(c, p, size) ==
  LET n == Asked(size)
      old == DataSize(heap, p)
  IN  /\ pc[c] = "app" /\ size # 0
      /\ \/ n > old /\ pc' = [pc EXCEPT ![c] = "grow"]
         \/ n + Header + MinSize < old /\ pc' = [pc EXCEPT ![c] = "shrink"]
      /\ rmem' = [rmem EXCEPT ![c] = p]
      /\ newsize' = [newsize EXCEPT ![c] = n]
      /\ oldsize' = [oldsize EXCEPT ![c] = old]
      /\ UNCHANGED <<memHeapVars, nmem>>

Resized(c, h, list) ==
  /\ heap' = h
  /\ free_list' = <<Rest(rmem[c], newsize[c])>> \o list
  /\ want' = [want EXCEPT ![rmem[c]] = newsize[c]]
  /\ oldsize' = [oldsize EXCEPT ![c] = 0]
  /\ Finish(c)

(* "check whether the following free space is enough to expand".  (The     *)
(* source writes heap->next_free for heap->free_list->next_free.)          *)
MemHeapGrow(c) ==
  LET p == rmem[c]
      next == heap[p].next
  IN  /\ pc[c] = "grow"
      /\ \/ /\ ~heap[next].used
            /\ DataSize(heap, next) + oldsize[c] > newsize[c] + MinSize
            /\ available_size' = available_size - (newsize[c] - oldsize[c])
            /\ Resized(c, Split(Merged(heap, p), p, newsize[c]), Unlisted(next))
         \/ /\ heap[next].used \/ DataSize(heap, next) + oldsize[c] <= newsize[c] + MinSize
            /\ pc' = [pc EXCEPT ![c] = "move"]
            /\ oldsize' = [oldsize EXCEPT ![c] = 0]
            /\ UNCHANGED <<memHeapVars, rmem, nmem, newsize>>

(* "re-allocate a memory block": rt_memheap_alloc, without the lock        *)
MemHeapMove(c) ==
  /\ pc[c] = "move"
  /\ \/ Available(c, newsize[c]) /\ UNCHANGED <<rmem, nmem>>
     \/ newsize[c] >= available_size /\ Finish(c)
  /\ UNCHANGED <<memHeapVars, oldsize>>

(* and, after the contents are copied, rt_memheap_free.                    *)
MemHeapMoved(c) ==
  /\ pc[c] = "free"
  /\ Returned(rmem[c])
  /\ Finish(c)
  /\ UNCHANGED oldsize

(* Mutant of MemHeapShrink: the next block, which is part of the split off *)
(* one, stays in the free list.                                            *)
MemHeapShrinkListed(c) ==
  LET p == rmem[c]
      rest == Rest(p, newsize[c])
      next == heap[p].next
      cut == Split(heap, p, newsize[c])
      whole == IF heap[next].used THEN cut ELSE Merged(cut, rest)
  IN  /\ pc[c] = "shrink"
      /\ available_size' = available_size + DataSize(whole, rest)
                             - (IF heap[next].used THEN 0 ELSE DataSize(heap, next))
      /\ Resized(c, whole, free_list)

(* "split the block": the end is merged with the next block if that is free*)
MemHeapShrink(c) ==
  LET p == rmem[c]
      rest == Rest(p, newsize[c])
      next == heap[p].next
      cut == Split(heap, p, newsize[c])
      whole == IF heap[next].used THEN cut ELSE Merged(cut, rest)
  IN  /\ pc[c] = "shrink"
      /\ available_size' = available_size + DataSize(whole, rest)
                             - (IF heap[next].used THEN 0 ELSE DataSize(heap, next))
      /\ Resized(c, whole, IF heap[next].used THEN free_list ELSE Unlisted(next))

MemHeapNext ==
  \E c \in Client :
    \/ \E size \in Sizes :
         MemHeapAlloc(c, size) \/ \E p \in Having : MemHeapRealloc(c, p, size)
    \/ \E p \in Having : MemHeapFree(c, p)
    \/ MemHeapTake(c) \/ MemHeapGrow(c) \/ MemHeapShrink(c)
    \/ MemHeapMove(c) \/ MemHeapMoved(c)

MemHeapSpec == MemHeapInit /\ [][MemHeapNext]_<<memHeapVars, callVars, oldsize>>

-----------------------------------------------------------------------------
(* Correctness.                                                            *)

(* The ring of blocks is a ring in both directions.                        *)
MemHeapDivided ==
  /\ Divided(tailer)
  /\ heap[tailer].next = 0
  /\ \A p \in DOMAIN heap : heap[heap[p].next].prev = p

(* The free list has every free block, once, and no other, and             *)
(* available_size is what they hold, although splits and merges account    *)
(* for headers that come and go; and what rt_memheap_realloc has read      *)
(* without the lock is still true when it holds the lock.                  *)
FreeListExact ==
  LET free == {p \in DOMAIN heap : ~heap[p].used}
  IN  /\ Elements(free_list) = free
      /\ Len(free_list) = Cardinality(free)
      /\ available_size = Total([p \in free |-> DataSize(heap, p)])
      /\ \A c \in Client :
           pc[c] \in {"grow", "shrink"} => oldsize[c] = DataSize(heap, rmem[c])
=============================================================================
