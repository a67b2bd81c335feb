\* Every kind of sender.  A second is 8 ticks; the option gives an interval of two
\* ticks, the reports one of a tick (3, whose product would wrap in 32 bits before the
\* division), one that is clamped to a second (1), and a speed that wraps around to
\* "unlimited" (16).
CONSTANTS
    Second = 8
    TxSize = 1
    LargeWrite = 8
    U32 = 64
    Options = {0, 32}
    Reports = {0, 1, 3, 16}
    Backoff = 1
    MaxTime = 6
SPECIFICATION Spec
INVARIANTS
    RateKept
    BurstBounded
    SpeedFollowsReport
