---------------------------- MODULE MC_KernelHeap ----------------------------
(***************************************************************************)
(* Model values for KernelHeap: a storage span of four units, enough for   *)
(* three adjacent free regions next to an allocated one.  Seven records    *)
(* are the three sentinels/initial record plus one per unit, so the pool  *)
(* cannot run out, as with the build's 500 records.                       *)
(***************************************************************************)
EXTENDS KernelHeap

MC_HEAP_UNITS == 4
MC_MAX_REGIONS == 7

=============================================================================
