-------------------------------- MODULE Heap --------------------------------
(***************************************************************************)
(* What the heaps of src/mem.c and src/memheap.c have in common: a memory  *)
(* cut into blocks, each with a header that says where the next and the    *)
(* previous block are and whether it is used; threads that allocate,       *)
(* reallocate and free; and what they are promised.                        *)
(*                                                                         *)
(* The work on a heap is done between rt_sem_take(..., RT_WAITING_FOREVER) *)
(* and rt_sem_release of its semaphore, and each such section is one       *)
(* action.  Offsets are those from the beginning of the memory.            *)
(***************************************************************************)
EXTENDS Integers, FiniteSets, FiniteSetsExt, Sequences

CONSTANTS
  Client,     \* threads that use the heap
  Align,      \* RT_ALIGN_SIZE
  Header,     \* SIZEOF_STRUCT_MEM, RT_MEMHEAP_SIZE
  MinSize,    \* MIN_SIZE_ALIGNED, RT_MEMHEAP_MINIALLOC
  Begin, End, \* the addresses between which the heap's memory lies
  Sizes,      \* the sizes that clients ask for
  Null        \* RT_NULL

AlignUp(n)   == ((n + Align - 1) \div Align) * Align     \* RT_ALIGN
AlignDown(n) == (n \div Align) * Align                   \* RT_ALIGN_DOWN

ASSUME HeapAssumption ==
  /\ Align \in Nat \ {0}
  /\ Header \in Nat \ {0} /\ MinSize \in Nat \ {0}
  /\ Header % Align = 0 /\ MinSize % Align = 0
  /\ Begin \in Nat /\ End \in Nat /\ Begin < End
  /\ Sizes \subseteq Nat
  /\ Null \notin 0 .. End

VARIABLES
  heap,       \* the headers: a function from the offsets of the blocks
  want,       \* the size asked for of every allocated block (a history variable)
  pc,         \* where each client is: in no call, or in one of several sections
  rmem,       \* the block being reallocated, as the offset of its header
  nmem,       \* the new block
  newsize     \* the size it is to have

callVars == <<pc, rmem, nmem, newsize>>

NoCall ==
  /\ pc = [c \in Client |-> "app"]
  /\ rmem = [c \in Client |-> Null] /\ nmem = [c \in Client |-> Null]
  /\ newsize = [c \in Client |-> 0]

(* The call of c is over.                                                  *)
Finish(c) ==
  /\ pc' = [pc EXCEPT ![c] = "app"]
  /\ rmem' = [rmem EXCEPT ![c] = Null] /\ nmem' = [nmem EXCEPT ![c] = Null]
  /\ newsize' = [newsize EXCEPT ![c] = 0]

(* The function f with value v for x, and without x.  In a heap that is a  *)
(* new header, and one that became part of another block.                  *)
With(f, x, v) == [q \in DOMAIN f \cup {x} |-> IF q = x THEN v ELSE f[q]]
Absorbed(f, x) == [q \in DOMAIN f \ {x} |-> f[q]]

DataSize(h, p) == h[p].next - (p + Header)

(* Clients free what they have, and nothing that is being reallocated.     *)
Having == DOMAIN want \ ({rmem[c] : c \in Client} \cup {nmem[c] : c \in Client})

-----------------------------------------------------------------------------
(* Correctness.                                                            *)

Total(f) == MapThenSumSet(LAMBDA p : f[p], DOMAIN f)

(* The blocks divide the memory, up to the one at last that ends it,       *)
(* without gap or overlap; none is too small to be used again, the used    *)
(* ones are those that clients have, and each is as large as asked for.    *)
Divided(last) ==
  LET block == DOMAIN heap \ {last}
  IN  /\ {0, last} \subseteq DOMAIN heap /\ DOMAIN heap \subseteq 0 .. last
      /\ heap[last].used
      /\ \A p \in block :
           /\ heap[p].next \in DOMAIN heap /\ p % Align = 0
           /\ DataSize(heap, p) >= MinSize
           /\ \A q \in block : q > p => q >= heap[p].next
           /\ heap[p].used <=> p \in DOMAIN want
           /\ heap[p].used => want[p] <= DataSize(heap, p)

(* Free memory is not left in pieces: no two free blocks are neighbours.   *)
NoFreeNeighbours == \A p \in DOMAIN heap : ~heap[p].used => heap[heap[p].next].used

(* The heap is an allocator: whatever clients have asked for and not freed *)
(* is theirs alone, in the memory the heap was given, also while a block   *)
(* is being reallocated.                                                   *)
HeapAllocator == INSTANCE Allocator WITH
  Memory  <- 0 .. End - Begin - 1,
  regions <- {[base |-> p + Header, len |-> want[p]] : p \in DOMAIN want}
ImplementsAllocator == HeapAllocator!Spec
=============================================================================
