\* Every kind of client test, with and without --duration; the server may stall.
CONSTANTS
    Commands <- AllCommands
    TxSize = 1
    RxSizes = {1, 2}
    MaxSendErrors = 1
    MaxBytes = 3
SPECIFICATION StallingServerSpec
INVARIANTS
    TypeOK
    Accounting
    SummaryFinal
PROPERTIES
    StopEnds
    DurationEnds
