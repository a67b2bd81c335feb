\* Three connections from two addresses, two tokens that may collide, sessions
\* that are complete at once or never.
CONSTANTS
    c1 = c1
    c2 = c2
    c3 = c3
    a = a
    b = b
    t1 = t1
    t2 = t2
    Conns = {c1, c2, c3}
    Ips = {a, b}
    Tokens = {t1, t2}
    NoToken = NoToken
    Counts = {0, 1, 3}
SPECIFICATION FairSpec
INVARIANTS
    TypeOK
    StreamsOwned
    NoOrphanSession
    TestOfOneClient
PROPERTY JoinedStarts
