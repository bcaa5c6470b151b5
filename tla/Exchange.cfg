\* An exchange over every line and every cut of every frame. Bytes are two
\* digits of base 3, so Word is 6561.
SPECIFICATION Spec
CONSTANTS
    Digit = 3
    LongForm = 3
    None = None
    Ul <- MCUl
    Lines <- MCLines
    OddFrames <- MCOddFrames
    Times <- MCTimes
    IdLists <- MCIdLists
    Records <- MCRecords
    Statuses <- MCStatuses
INVARIANTS
    TypeOK
    HandledIffWhole
    TypedIsHandled
    HandledIsCanonical
    ShownIsAnswered
    ShownIsAsked
    FieldsAgree
\* An exchange ends.
CHECK_DEADLOCK FALSE
