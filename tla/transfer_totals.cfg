\* One connection in both directions.
CONSTANTS
    s1 = s1
    s2 = s2
    Streams = {s1}
    Commands <- BothCommand
    Budgets = {4}
    U64Max = 4
    RxSizes = {1}
    SeqHeader = 1
    MaxSendErrors = 1
    MaxBytes = 2
SPECIFICATION Spec
INVARIANT TxTotalCumulative
