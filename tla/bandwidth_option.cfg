\* A test in one direction with --bandwidth.
CONSTANTS
    Second = 8
    TxSize = 1
    LargeWrite = 8
    U32 = 64
    Options = {32}
    Reports = {3}
    Backoff = 1
    MaxTime = 2
SPECIFICATION Spec
INVARIANT OptionLimits
