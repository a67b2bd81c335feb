\* The sequence numbers are 0 to 2, so that four packets wrap around; a gap is then
\* shorter than the sequence space, as it is in practice.  A report holds one packet,
\* so that an interval with two wraps around.
CONSTANTS
    Tests <- MCTests
    SeqSpace = 3
    U32 = 2
    U64 = 1048576
    MaxInFlight = 2
    MaxCopies = 1
SPECIFICATION Spec
INVARIANTS
    LossCounted
    IntervalsExact
    StatusFaithful
