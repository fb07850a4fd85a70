CONSTANTS
    HEAP_UNITS <- MC_HEAP_UNITS
    MAX_REGIONS <- MC_MAX_REGIONS
SPECIFICATION Spec
INVARIANTS
    TypeOK
    HeapPartition
    RecordsAccounted
    ListsSorted
PROPERTIES
    AllocTakesFreeUnits
    FreeExactBlock
    HeapRefinement
