CONSTANTS
    MaxRequests = 1
    MaxFaults = 0
    ParentKeys <- MCParentKeys
    ChildKeys <- MCChildKeys
    ParentOf <- MCParentOf
    LegacyTable <- MCLegacyTable
    FixedStart <- MCFixedStart
    Floor <- MCFloor
    OperatorRuns = {"change"}
    Refs = {"t1", "t2", "c1", "r1", "b1", "b2"}
    KindOf <- MCKindOf
    MonthOf <- MCMonthOf
    StoredRefs <- MCStoredRefs
    Mappings <- MCMappings
    CurrentMapping = 2
    Runs = {1}
    MaxInstalls = 3
    MaxScans = 4
    MaxOperations = 7
SPECIFICATION ReclassificationSpec
INVARIANTS OnlyApprovedWritten IdentitiesAgree
CHECK_DEADLOCK FALSE
