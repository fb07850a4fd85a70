----------------------------- MODULE KernelHeap -----------------------------
(***************************************************************************)
(* The kernel heap of XiOS (src/student-distrib/mem.c): kmalloc and kfree  *)
(* over a fixed storage span, with region records taken from a static pool *)
(* of MAX_REGIONS and kept on two address-sorted lists, the free list and  *)
(* the allocated list, each headed by a sentinel record.                   *)
(*                                                                         *)
(* Storage is measured in units; unit addresses are 1..HEAP_UNITS and 0 is *)
(* NULL (the sentinels' ptr).  kmalloc and kfree are called with           *)
(* interrupts disabled and never from the scheduler, so each call is one   *)
(* atomic step.  The memset of remove() only touches data and is left out. *)
(***************************************************************************)
EXTENDS Integers, Sequences, SequencesExt

CONSTANTS
    HEAP_UNITS,   \* STORAGE_BYTES (24 MiB in the build), in units
    MAX_REGIONS   \* mem.c:9, records in the static pool (500 in the build)

ASSUME HEAP_UNITS \in Nat \ {0} /\ MAX_REGIONS \in Nat /\ MAX_REGIONS >= 3

NULL           == 0
Units          == 1..HEAP_UNITS
Ptrs           == 0..(HEAP_UNITS + 1)
Nodes          == 0..(MAX_REGIONS - 1)
NoNode         == -1
FREE_SENTINEL  == 0     \* regions[0], head of free_regions
FIRST_REGION   == 1     \* regions[1], the whole storage at init_mem
ALLOC_SENTINEL == 2     \* regions[2], head of allocated_regions

VARIABLES
    ptr,        \* regions[k].ptr
    size,       \* regions[k].size
    inUse,      \* regions[k].in_use
    freeList,   \* free_regions, as the sequence of its records from the head
    allocList,  \* allocated_regions, likewise
    lastReq,    \* size given to the latest kmalloc call
    lastRet,    \* pointer the latest kmalloc call returned
    fault       \* add_region dereferenced the NULL of an exhausted pool

vars == <<ptr, size, inUse, freeList, allocList, lastReq, lastRet, fault>>

\* The units a record covers.
Extent(k) == ptr[k]..(ptr[k] + size[k] - 1)

FreeUnits  == UNION {Extent(freeList[i]) : i \in 1..Len(freeList)}
AllocUnits == UNION {Extent(allocList[i]) : i \in 1..Len(allocList)}

(***************************************************************************)
(* Faulty variants of definitions below.  Each is a plausible coding      *)
(* error in mem.c; substituting it for the original shows that a property *)
(* of MC_KernelHeap detects that error.                                    *)
(***************************************************************************)
FitsOffByOne(sz, n) == sz + 1 >= n
CoalesceKeepNext(h, i) ==
    [h EXCEPT !.size[h.fl[i]] = @ + h.size[h.fl[i + 1]]]
LtrimKeepPtr(h, i, n) ==
    LET r == h.fl[i]
    IN  IF h.size[r] = n
          THEN [h EXCEPT !.fl = RemoveAt(@, i), !.inUse[r] = FALSE]
          ELSE [h EXCEPT !.size[r] = @ - n]
AddRegionAppend(list, k, ptrf) == Append(list, k)
KfreeMarkDropped(f, k) == f
KfreeMatchInterior(x, p) == ptr[x] <= p /\ p < ptr[x] + size[x]
AreAdjacentAnyNext(h, a, b) == h.ptr[a] + h.size[a] <= h.ptr[b]

(***************************************************************************)
(* Helpers translated from mem.c.  A heap snapshot h is a record holding  *)
(* the free list and the record fields, so that kmalloc's scan can be     *)
(* written as a recursive operator.                                        *)
(***************************************************************************)

\* are_adjacent: the first region ends where the second begins.
AreAdjacent(h, a, b) == h.ptr[a] + h.size[a] = h.ptr[b]

\* The test of kmalloc that a region is large enough.
Fits(sz, n) == sz >= n

\* kmalloc's merge of region h.fl[i] with the next one, whose record
\* remove() unlinks and returns to the pool.
Coalesce(h, i) ==
    LET r  == h.fl[i]
        nx == h.fl[i + 1]
    IN  [h EXCEPT !.size[r] = @ + h.size[nx],
                  !.fl = RemoveAt(@, i + 1),
                  !.inUse[nx] = FALSE]

(***************************************************************************)
(* The while loop of kmalloc from the i-th record of the free list: merge *)
(* the region with its successor if they touch (once), stop at the first  *)
(* region that fits, otherwise move on.  The result's pos is the index of *)
(* the chosen region, or 0 when the loop reaches the end of the list.      *)
(***************************************************************************)
RECURSIVE Scan(_, _, _)
Scan(h, i, n) ==
    IF i > Len(h.fl)
      THEN [h EXCEPT !.pos = 0]
      ELSE LET r  == h.fl[i]
               h1 == IF i < Len(h.fl) /\ AreAdjacent(h, r, h.fl[i + 1])
                       THEN Coalesce(h, i) ELSE h
           IN  IF Fits(h1.size[r], n)
                 THEN [h1 EXCEPT !.pos = i]
                 ELSE Scan(h1, i + 1, n)

\* ltrim: hand out the first n units of region h.fl[i]; a region used up
\* entirely is removed from the free list and its record freed.
Ltrim(h, i, n) ==
    LET r == h.fl[i]
    IN  IF h.size[r] = n
          THEN [h EXCEPT !.fl = RemoveAt(@, i), !.inUse[r] = FALSE]
          ELSE [h EXCEPT !.size[r] = @ - n, !.ptr[r] = @ + n]

\* new_region: the first record of the pool that is not in use.
NewRegion(used) ==
    LET avail == {k \in Nodes : ~used[k]}
    IN  IF avail = {} THEN NoNode ELSE Min(avail)

\* add_region: walk from the head while the records lie below the new one
\* (comp) and link the new record in front of the first that does not.
AddRegion(list, k, ptrf) ==
    LET j == SelectInSeq(list, LAMBDA x : ~(ptrf[x] < ptrf[k]))
    IN  IF j = 0 THEN Append(list, k) ELSE InsertAt(list, j, k)

\* kfree re-marks the record in use after add_region (mem.c:84).
KfreeMark(f, k) == [f EXCEPT ![k] = TRUE]

\* kfree's test for the allocation to release.
KfreeMatch(x, p) == ptr[x] = p

(***************************************************************************)
(* kmalloc(n).  size 0 returns NULL.  Otherwise the scan runs; its merges *)
(* stay even when it finds nothing and kmalloc returns NULL.  On success   *)
(* ltrim shrinks the region, new_region takes a record and add_region puts *)
(* it on the allocated list.  If the pool is exhausted, new_region returns *)
(* NULL and add_region reads NULL->ptr: a page fault in the kernel, after  *)
(* ltrim has already taken the units off the free list.                    *)
(***************************************************************************)
Kmalloc(n) ==
    LET h0 == [fl |-> freeList, ptr |-> ptr, size |-> size, inUse |-> inUse,
               pos |-> 0]
        h  == Scan(h0, 1, n)
        p  == h.ptr[h.fl[h.pos]]
        t  == Ltrim(h, h.pos, n)
        k  == NewRegion(t.inUse)
    IN  /\ ~fault
        /\ lastReq' = n
        /\ IF n = 0
             THEN /\ lastRet' = NULL
                  /\ UNCHANGED <<ptr, size, inUse, freeList, allocList, fault>>
           ELSE IF h.pos = 0
             THEN /\ lastRet' = NULL
                  /\ freeList' = h.fl
                  /\ size' = h.size
                  /\ inUse' = h.inUse
                  /\ UNCHANGED <<ptr, allocList, fault>>
           ELSE IF k = NoNode
             THEN /\ fault' = TRUE
                  /\ freeList' = t.fl
                  /\ ptr' = t.ptr
                  /\ size' = t.size
                  /\ inUse' = t.inUse
                  /\ UNCHANGED <<allocList, lastRet>>
             ELSE /\ freeList' = t.fl
                  /\ ptr' = [t.ptr EXCEPT ![k] = p]
                  /\ size' = [t.size EXCEPT ![k] = n]
                  /\ inUse' = [t.inUse EXCEPT ![k] = TRUE]
                  /\ allocList' = AddRegion(allocList, k, ptr')
                  /\ lastRet' = p
                  /\ UNCHANGED fault

(***************************************************************************)
(* kfree(p).  NULL, and a pointer that does not start an allocation       *)
(* (already freed, or into the middle of a block), change nothing.         *)
(* Otherwise remove() unlinks the record and marks it free, add_region    *)
(* puts it on the free list (without merging) and in_use is set again.     *)
(***************************************************************************)
Kfree(p) ==
    LET j == SelectInSeq(allocList, LAMBDA x : KfreeMatch(x, p))
        k == allocList[j]
    IN  /\ ~fault
        /\ IF p = NULL \/ j = 0
             THEN UNCHANGED vars
             ELSE /\ allocList' = RemoveAt(allocList, j)
                  /\ freeList' = AddRegion(freeList, k, ptr)
                  /\ inUse' = KfreeMark([inUse EXCEPT ![k] = FALSE], k)
                  /\ UNCHANGED <<ptr, size, lastReq, lastRet, fault>>

\* init_mem
Init ==
    /\ ptr = [k \in Nodes |-> IF k = FIRST_REGION THEN 1 ELSE NULL]
    /\ size = [k \in Nodes |-> IF k = FIRST_REGION THEN HEAP_UNITS ELSE 0]
    /\ inUse = [k \in Nodes |-> k \in {FREE_SENTINEL, FIRST_REGION,
                                        ALLOC_SENTINEL}]
    /\ freeList = <<FREE_SENTINEL, FIRST_REGION>>
    /\ allocList = <<ALLOC_SENTINEL>>
    /\ lastReq = 0
    /\ lastRet = NULL
    /\ fault = FALSE

\* The heap's callers may ask for any size and free any pointer.
Next ==
    \/ \E n \in 0..HEAP_UNITS : Kmalloc(n)
    \/ \E p \in 0..HEAP_UNITS : Kfree(p)

Spec == Init /\ [][Next]_vars

-----------------------------------------------------------------------------
(***************************************************************************)
(* Properties                                                              *)
(***************************************************************************)

TypeOK ==
    /\ ptr \in [Nodes -> Ptrs]
    /\ size \in [Nodes -> 0..HEAP_UNITS]
    /\ inUse \in [Nodes -> BOOLEAN]
    /\ freeList \in Seq(Nodes)
    /\ allocList \in Seq(Nodes)
    /\ lastReq \in 0..HEAP_UNITS
    /\ lastRet \in {NULL} \cup Units
    /\ fault \in BOOLEAN

\* The records on the two lists (sentinels aside) are non-empty, pairwise
\* disjoint and together cover the whole storage: kmalloc's merging and
\* trimming and kfree's relinking neither lose nor double-count a byte
\* (spec 4.1, "the union of free and allocated regions equals the pool").
HeapPartition ==
    LET recs == (ToSet(freeList) \cup ToSet(allocList))
                  \ {FREE_SENTINEL, ALLOC_SENTINEL}
    IN  /\ \A k \in recs : size[k] > 0
        /\ \A a, b \in recs : a # b => Extent(a) \cap Extent(b) = {}
        /\ UNION {Extent(k) : k \in recs} = Units
        /\ Len(freeList) + Len(allocList) = Cardinality(recs) + 2

\* A pool record is marked in_use exactly when it is linked on one of the
\* lists, so new_region never hands out a record that is still linked:
\* remove() clears in_use, and kfree must set it again after relinking.
RecordsAccounted ==
    /\ freeList[1] = FREE_SENTINEL
    /\ allocList[1] = ALLOC_SENTINEL
    /\ IsInjective(freeList \o allocList)
    /\ {k \in Nodes : inUse[k]} = ToSet(freeList) \cup ToSet(allocList)

\* Both lists stay sorted by address, which kmalloc's adjacency test
\* relies on: add_region inserts in order and trimming keeps order.
ListsSorted ==
    \A l \in {freeList, allocList} :
        \A i \in 1..(Len(l) - 1) : ptr[l[i]] < ptr[l[i + 1]]

\* A successful kmalloc(n) returns n units that were free and held by no
\* allocation, and that afterwards are allocated and no longer free: no
\* block is ever handed out twice.
AllocTakesFreeUnits ==
    [][\A n \in 1..HEAP_UNITS :
          (Kmalloc(n) /\ lastRet' # NULL) =>
              LET got == lastRet'..(lastRet' + n - 1)
              IN  /\ got \subseteq FreeUnits \ AllocUnits
                  /\ got \subseteq AllocUnits' \ FreeUnits'
      ]_vars

\* kfree(p) releases exactly the allocation that starts at p, and nothing
\* when p is NULL, already free, or points into the middle of a block
\* (spec 4.1: pointers into the middle are ignored).
FreeExactBlock ==
    [][\A p \in 0..HEAP_UNITS :
          Kfree(p) =>
              FreeUnits' = FreeUnits \cup
                  UNION {Extent(k) : k \in {x \in ToSet(allocList) :
                                              ptr[x] = p /\ p # NULL}}
      ]_vars

\* Whether some n consecutive units are free.
FreeRun(n) == \E s \in Units : s..(s + n - 1) \subseteq FreeUnits

\* spec 4.1: kmalloc coalesces adjacent free regions and returns NULL only
\* if no region suffices.  kmalloc fails only when no n consecutive units
\* are free (violated: each region absorbs at most one neighbour per call).
AllocFailsOnlyWhenFragmented ==
    [][\A n \in 1..HEAP_UNITS :
          (Kmalloc(n) /\ lastRet' = NULL) => ~FreeRun(n)
      ]_vars

\* The abstract heap, seen through the allocated list: the allocations in
\* use are its records, sentinel aside.
Abs == INSTANCE AbstractHeap
           WITH blocks <- {[start |-> ptr[k], len |-> size[k]] :
                             k \in ToSet(allocList) \ {ALLOC_SENTINEL}}

\* The heap implements what mem.c's comments promise (AbstractHeap): every
\* kmalloc returns NULL or units that no allocation in use overlaps, and
\* every kfree releases exactly the allocation starting at its pointer,
\* over any sequence of calls with kmalloc's merging and trimming between.
HeapRefinement == Abs!Spec

=============================================================================
