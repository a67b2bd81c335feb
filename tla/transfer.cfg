\* Every kind of test, one or two streams, budgets around the packet size, fair
\* tasks and a fair peer.
CONSTANTS
    s1 = s1
    s2 = s2
    Streams = {s1, s2}
    Commands <- AllCommands
    Budgets = {0, 1, 2, 4}
    U64Max = 4
    RxSizes = {1, 2}
    SeqHeader = 1
    MaxSendErrors = 1
    MaxBytes = 2
SPECIFICATION FairSpec
INVARIANTS
    TypeOK
    TxAccounting
    RxAccounting
    LateBound
    NoHalfDeadTest
    SingleSpenderBudget
PROPERTIES
    SummaryFinal
    ImplementsMeteredTest
