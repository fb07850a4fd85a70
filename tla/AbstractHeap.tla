---------------------------- MODULE AbstractHeap ----------------------------
(***************************************************************************)
(* What the kernel heap promises its callers, as the comments of kmalloc  *)
(* and kfree in src/student-distrib/mem.c state it, with no free list, no *)
(* region records and no merging:                                          *)
(*   - kmalloc(size) returns NULL, or a pointer to size bytes of storage   *)
(*     that no allocation still in use overlaps, and reserves them;        *)
(*   - kfree(ptr) releases the allocation that starts at ptr, and does     *)
(*     nothing for NULL or a pointer that starts no allocation.            *)
(* kmalloc may return NULL for any size: the comment only says "if no      *)
(* sufficiently large free regions were found", and which regions are      *)
(* found is the detailed module's business (see KernelHeap).               *)
(***************************************************************************)
EXTENDS Integers

CONSTANT HEAP_UNITS   \* the storage span, in units; addresses 1..HEAP_UNITS

VARIABLES
    blocks,   \* the allocations in use, as records [start, len]
    lastReq,  \* size given to the latest kmalloc call
    lastRet   \* pointer the latest kmalloc call returned

avars == <<blocks, lastReq, lastRet>>

NULL  == 0
Units == 1..HEAP_UNITS

\* The units an allocation covers.
Span(b) == b.start..(b.start + b.len - 1)

\* The units held by allocations in use.
Held == UNION {Span(b) : b \in blocks}

\* kmalloc(n): either NULL, or n units that lie in the storage and that no
\* allocation in use holds.
Alloc(n) ==
    /\ lastReq' = n
    /\ \/ /\ lastRet' = NULL
          /\ UNCHANGED blocks
       \/ \E s \in Units :
             LET b == [start |-> s, len |-> n]
             IN  /\ n > 0
                 /\ s + n - 1 <= HEAP_UNITS
                 /\ Span(b) \cap Held = {}
                 /\ blocks' = blocks \cup {b}
                 /\ lastRet' = s

\* kfree(p): the allocation starting at p, if there is one, is released.
Free(p) ==
    /\ blocks' = {b \in blocks : b.start # p}
    /\ UNCHANGED <<lastReq, lastRet>>

Init ==
    /\ blocks = {}
    /\ lastReq = 0
    /\ lastRet = NULL

Next ==
    \/ \E n \in 0..HEAP_UNITS : Alloc(n)
    \/ \E p \in 0..HEAP_UNITS : Free(p)

Spec == Init /\ [][Next]_avars

=============================================================================
