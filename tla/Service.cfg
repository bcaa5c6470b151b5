SPECIFICATION Spec
CONSTANTS
    Capacity = 3
    Vals = {0}
    None = None
    Status = "not_playing"
    Word = 8
    Logs <- MCLogs
    Requests <- MCRequests
INVARIANTS
    TypeOK
    AnswersAgree
    IntactIsServed
    AnswersAreReadable
    ListedEventIsServed
PROPERTIES
    OverflowIsForetold
    PurgeAnswersTruly
    RefusalChangesNothing
