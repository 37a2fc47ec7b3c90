CONSTANTS
    MaxRequests = 3
    Shutdown = {3}
    EmptyValue = {2}
SPECIFICATION FairSpec
INVARIANTS
    AnswersInOrder
    RequestIsWhole
    BuffersOutliveWrites
PROPERTY AnsweredOrClosed
