\* A client that keeps its connection open and stops reading and writing.
CONSTANTS
    s1 = s1
    s2 = s2
    Streams = {s1}
    Commands <- SingleCommands
    Budgets = {4}
    U64Max = 4
    RxSizes = {1}
    SeqHeader = 1
    MaxSendErrors = 1
    MaxBytes = 2
SPECIFICATION StallingPeerSpec
PROPERTY StopEnds
