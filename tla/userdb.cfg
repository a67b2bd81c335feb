\* Two connections of one user over three days, with user commands, failing
\* statements and crashes.
CONSTANTS
    Names = {n}
    Ip = Ip
    Passwords = {p}
    Empty = Empty
    OwnLimits = {1}
    Limits <- MCLimits
    Conns = {c1, c2}
    Span <- MCSpan
    LastDay = 2
    Sizes = {1, 2}
    MaxCommands = 1
    MaxFailures = 1
    NoRow = NoRow
    None = None
    U64Max = 9
SPECIFICATION FairSpec
INVARIANTS
    OverQuotaRefused
    WindowsExact
    SessionsClosed
PROPERTIES
    LoginExact
    RevokedStops
