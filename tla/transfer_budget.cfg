\* One connection in both directions: two tasks spend one budget.
CONSTANTS
    s1 = s1
    s2 = s2
    Streams = {s1}
    Commands <- BothCommand
    Budgets = {1}
    U64Max = 4
    RxSizes = {1}
    SeqHeader = 1
    MaxSendErrors = 1
    MaxBytes = 2
SPECIFICATION Spec
INVARIANT BudgetRespected
