SPECIFICATION Spec
CONSTANTS
    IdSpace = 4
    Capacity = 2
    v1 = v1
    v2 = v2
    NoFile = NoFile
    Bad = Bad
    None = None
    Vals <- MCVals
    Batches <- MCBatches
    Seeds <- LargeFiles
    Faults = {}
INVARIANTS
    WithinCapacity
