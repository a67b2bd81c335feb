\* Handlers and sessions of three connections, and the charging and stopping of
\* two tests of one user, from one or two addresses, under limits of every kind
\* and with usage of earlier days.
CONSTANTS
    c1 = c1
    c2 = c2
    c3 = c3
    a = a
    b = b
    u = u
    t1 = t1
    t2 = t2
    Conns = {c1, c2, c3}
    Ips = {a, b}
    Users = {u}
    Tokens = {t1, t2}
    NoToken = NoToken
    Counts = {0, 1, 2}
    Quotas <- Scenarios
    UserQuota <- OwnWeekly
    Earlier <- OneEarlier
    MaxMoved = 2
    U64Max = 9
SPECIFICATION MCSpec
INVARIANTS
    TypeOK
    StreamsOwned
    MultiTestWhole
    ActiveAccount
    UsageExact
    QuotaRespectedAlone
PROPERTIES
    OverQuotaStops
    ReturnedIsRecorded
