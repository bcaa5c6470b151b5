\* A torn line keeps the responder from starting again: it does stop there.
CHECK_DEADLOCK FALSE
SPECIFICATION Spec
CONSTANTS
    IdSpace = 4
    Capacity = 2
    v1 = v1
    v2 = v2
    NoFile = NoFile
    Bad = Bad
    None = None
    Vals <- MCVals
    Batches <- MCBatches
    Seeds <- SoundFiles
    Faults = {"open", "short", "crash"}
INVARIANTS
    TypeOK
    WithinCapacity
    OneKeyPerId
    SuccessSavesNoOther
    OnlyTheLastLineIsTorn
