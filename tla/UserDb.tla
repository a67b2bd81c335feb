------------------------------- MODULE UserDb -------------------------------
(***************************************************************************)
(* The database of the pro server over several days: the tables of         *)
(* src/src/server_pro/user_db.rs, the server's use of them (login in       *)
(* server_loop.rs, check_user in quota.rs, the records at the end of a     *)
(* test), and the user commands of server_pro/main.rs.                     *)
(*                                                                         *)
(* A user command runs in a process of its own beside the server, and each *)
(* statement is a transaction of its own: everything that takes two of     *)
(* them can be cut by the other process, by a failed statement, by         *)
(* midnight or by a crash of the server, which loses the running tests and *)
(* keeps the tables.                                                       *)
(*                                                                         *)
(* Bytes of both directions are added up here; ProServer tells them apart. *)
(* Connection c is one connection of the whole history, so session[c] is   *)
(* the row its test inserts.                                               *)
(***************************************************************************)
EXTENDS Quota, FiniteSets, Sums

CONSTANTS
    Names,      \* user names
    Ip,         \* the address the connections come from
    Passwords,  \* passwords of users and clients
    Empty,      \* the empty password, DEFAULT of the column password_raw
    OwnLimits,  \* limits the command userset may give
    Limits,     \* the limits of the QuotaManager
    Conns,      \* connections, each used once
    Span,       \* Span[w]: days before today that window w still covers
    LastDay,    \* bound: days of the model
    Sizes,      \* bytes a test may move
    MaxCommands,    \* bound: user commands of the model
    MaxFailures,    \* bound: statements of the server that fail
    NoRow,      \* no row in a table
    None        \* an option that is not given

ASSUME UserDbAssumption ==
    /\ Limits \in QuotaType
    /\ OwnLimits \subseteq 0 .. U64Max
    /\ Empty \notin Passwords
    /\ Ip \notin Names
    /\ Span \in [Windows -> Nat]
    /\ LastDay \in Nat
    /\ Sizes \subseteq Nat
    /\ {MaxCommands, MaxFailures} \subseteq Nat
    /\ NoRow \notin [name : Names, open : BOOLEAN, bytes : Nat]
    /\ None \notin 0 .. LastDay

Days == 0 .. LastDay
Keys == Names \cup {Ip}

VARIABLES
    users,      \* table users
    has_raw,    \* table users has the column password_raw
    usage,      \* tables usage (names) and ip_usage (the address), by date
    session,    \* table sessions
    today,
    admin,      \* the statement the user command still has to execute
    commands,   \* user commands so far
    conn,       \* conn[c]: the handler of connection c
    \* history
    lost,       \* tests that died with the server, where conn[c].pc says
    failures,   \* statements of the server that failed
    unwritten,  \* <<table, c>>: the record of c's test in table failed
    day         \* day[k][c]: date on which c's test was recorded for key k

adminVars == <<users, has_raw, admin, commands>>
recordVars == <<usage, session, unwritten, day>>
vars == <<adminVars, recordVars, today, conn, lost, failures>>

EmptyRow == [bytes |-> 0, tests |-> 0]
\* History: over, the user was over a limit when it logged in; stale, since
\* then a command or the date has changed what counts, or a query failed.
NewConn == [pc |-> "idle", name |-> None, password |-> None, limits |-> None,
            bytes |-> 0, over |-> FALSE, stale |-> FALSE]

\* A database that add_user has filled, or one of an older version, whose users
\* have a password_hash only.
Init ==
    /\ has_raw \in BOOLEAN
    /\ users \in [Names ->
                    {NoRow} \cup
                    {[password |-> p, raw |-> IF has_raw THEN p ELSE Empty,
                      daily |-> 0, weekly |-> 0, enabled |-> e]
                        : p \in Passwords, e \in BOOLEAN}]
    /\ usage = [k \in Keys |-> [d \in Days |-> EmptyRow]]
    /\ session = [c \in Conns |-> NoRow]
    /\ today = 0
    /\ admin = NoRow
    /\ commands = 0
    /\ conn = [c \in Conns |-> NewConn]
    /\ lost = {}
    /\ failures = 0
    /\ unwritten = {}
    /\ day = [k \in Keys |-> [c \in Conns |-> None]]

-----------------------------------------------------------------------------
(* The user commands *)

Login == {"user", "password", "check", "daily", "weekly", "monthly", "start"}

NewCommand ==
    /\ admin = NoRow
    /\ commands < MaxCommands
    /\ commands' = commands + 1

\* Logins of the names in S that are under way.
Touched(S) ==
    conn' = [c \in Conns |->
               [conn[c] EXCEPT !.stale = \/ @
                                         \/ /\ conn[c].pc \in Login
                                            /\ conn[c].name \in S]]

Statement(n, row) ==
    /\ users' = [users EXCEPT ![n] = row]
    /\ Touched({n})
    /\ UNCHANGED <<recordVars, today, lost, failures>>

\* add_user: the column is added unless it is there, which leaves every older
\* row with an empty password_raw ...
AddColumn(n, p) ==
    /\ NewCommand
    /\ admin' = [cmd |-> "insert", name |-> n, password |-> p]
    /\ has_raw' = TRUE
    /\ Touched(IF has_raw THEN {} ELSE Names)
    /\ UNCHANGED <<users, recordVars, today, lost, failures>>

\* ... then INSERT OR REPLACE: a user of that name loses its limits and is
\* enabled.
InsertUser ==
    /\ admin # NoRow
    /\ admin.cmd = "insert"
    /\ admin' = NoRow
    /\ Statement(admin.name,
               [password |-> admin.password, raw |-> admin.password,
                daily |-> 0, weekly |-> 0, enabled |-> TRUE])
    /\ UNCHANGED <<has_raw, commands>>

\* delete_user: the user's usage stays.
UserDel(n) ==
    /\ NewCommand
    /\ users[n] # NoRow
    /\ Statement(n, NoRow)
    /\ UNCHANGED <<has_raw, admin>>

unwrap_or(x, default) == IF x = None THEN default ELSE x

QuotaStatement(n, d, w) ==
    IF d = None /\ w = None THEN NoRow
    ELSE [cmd |-> "quota", name |-> n, daily |-> unwrap_or(d, 0),
          weekly |-> unwrap_or(w, 0)]

\* userset with --enabled: set_user_enabled first, then the limits if one of
\* them is given.
UserSetEnabled(n, e, d, w) ==
    /\ NewCommand
    /\ users[n] # NoRow
    /\ admin' = QuotaStatement(n, d, w)
    /\ Statement(n, [users[n] EXCEPT !.enabled = e])
    /\ UNCHANGED has_raw

\* userset with limits only.
UserSetQuota(n, d, w) ==
    /\ NewCommand
    /\ users[n] # NoRow
    /\ ~(d = None /\ w = None)
    /\ admin' = QuotaStatement(n, d, w)
    /\ UNCHANGED <<users, has_raw, recordVars, today, conn, lost, failures>>

\* set_user_quota; an UPDATE of a user deleted meanwhile changes nothing.
SetUserQuota ==
    /\ admin # NoRow
    /\ admin.cmd = "quota"
    /\ admin' = NoRow
    /\ Statement(admin.name,
               IF users[admin.name] = NoRow THEN NoRow
               ELSE [users[admin.name] EXCEPT !.daily = admin.daily,
                                              !.weekly = admin.weekly])
    /\ UNCHANGED <<has_raw, commands>>

\* The second statement fails, and the command ends with an error.
CommandFails ==
    /\ admin # NoRow
    /\ admin' = NoRow
    /\ UNCHANGED <<users, has_raw, commands, recordVars, today, conn, lost,
                   failures>>

-----------------------------------------------------------------------------
(* Queries *)

\* Mutant: the window begins a day later.
get_usage_Strict(k, w) ==
    SumOf([d \in {d \in Days : d > today - Span[w] /\ d <= today}
             |-> usage[k][d].bytes])

\* date = today, date >= date('now', '-7 days'), date >= date('now', '-30 days')
InWindow(w) == {d \in Days : d >= today - Span[w] /\ d <= today}

\* get_daily_usage, get_weekly_usage and get_monthly_usage of a user, and their
\* likes for an address.
get_usage(k, w) == SumOf([d \in InWindow(w) |-> usage[k][d].bytes])

Enabled(n) == users[n] # NoRow /\ users[n].enabled

OverQuota(n) ==
    \E w \in Windows :
      Exceeded(UserLimits(Limits, users[n])[w], get_usage(n, w))

-----------------------------------------------------------------------------
(* A connection: login, admission *)

At(c, pc) == conn[c].pc = pc /\ c \notin lost

Moves(c, r) ==
    /\ conn' = [conn EXCEPT ![c] = r]
    /\ UNCHANGED <<adminVars, today, lost>>

Goes(c, pc) == Moves(c, [conn[c] EXCEPT !.pc = pc])

Refused == [NewConn EXCEPT !.pc = "refused"]

Fails == failures < MaxFailures /\ failures' = failures + 1

\* A query of the login, and what the handler makes of the answer.
Queries(c, r) ==
    /\ Moves(c, r)
    /\ UNCHANGED <<recordVars, failures>>

\* The query fails, and the handler goes on.
Unanswered(c, r) ==
    /\ Fails
    /\ Moves(c, [r EXCEPT !.stale = TRUE])
    /\ UNCHANGED recordVars

\* The answer to the challenge has been read.
Present(c, n, p) ==
    /\ At(c, "idle")
    /\ Queries(c, [NewConn EXCEPT !.pc = "user", !.name = n, !.password = p,
                                  !.over = users[n] # NoRow /\ OverQuota(n)])

\* Mutant: whether the user is enabled is left to get_password.
GetUser_AnyState(c) ==
    /\ At(c, "user")
    /\ Queries(c, IF users[conn[c].name] # NoRow
                    THEN [conn[c] EXCEPT !.pc = "password"] ELSE Refused)

\* get_user finds an enabled user, or AUTH_FAILED is sent.
GetUser(c) ==
    /\ At(c, "user")
    /\ Queries(c, IF Enabled(conn[c].name)
                    THEN [conn[c] EXCEPT !.pc = "password"] ELSE Refused)

\* get_user or start_session fails: the handler returns the error.
HandlerFails(c) ==
    /\ At(c, "user") \/ At(c, "start")
    /\ Fails
    /\ Moves(c, Refused)
    /\ UNCHANGED recordVars

Accepted(c) == [conn[c] EXCEPT !.pc = "check", !.password = None]

\* get_password selects among the enabled users.  Without a row, without the
\* column and after an error the client is accepted.
GetPassword(c) ==
    LET n == conn[c].name IN
    /\ At(c, "password")
    /\ \/ Queries(c, IF /\ has_raw /\ Enabled(n)
                        /\ users[n].raw # conn[c].password
                       THEN Refused ELSE Accepted(c))
       \/ Unanswered(c, Accepted(c))

\* The next window of S with a limit, or the start of the test.
NextCheck(limits, S) ==
    LET limited(w) == w \in S /\ limits[w] > 0 IN
    IF limited("daily") THEN "daily"
    ELSE IF limited("weekly") THEN "weekly"
    ELSE IF limited("monthly") THEN "monthly" ELSE "start"

Continue(c, limits, S) ==
    LET next == NextCheck(limits, S) IN
    [conn[c] EXCEPT !.pc = next,
                    !.limits = IF next = "start" THEN None ELSE limits]

\* check_user reads the user again ...
CheckUser(c) ==
    LET n == conn[c].name IN
    /\ At(c, "check")
    /\ Queries(c, IF Enabled(n)
                    THEN Continue(c, UserLimits(Limits, users[n]), Windows)
                    ELSE Refused)

Later == [daily |-> {"weekly", "monthly"}, weekly |-> {"monthly"}, monthly |-> {}]

\* Mutant: the monthly usage is not read when the weekly one is fine.
CheckWindow_NoMonth(c, w) ==
    LET next == Continue(c, conn[c].limits, Later[w] \ {"monthly"}) IN
    /\ At(c, w)
    /\ \/ Queries(c, IF Exceeded(conn[c].limits[w], get_usage(conn[c].name, w))
                       THEN Refused ELSE next)
       \/ Unanswered(c, next)

\* ... and then the usage of each window that is limited; a query that fails
\* counts as no usage.
CheckWindow(c, w) ==
    LET next == Continue(c, conn[c].limits, Later[w]) IN
    /\ At(c, w)
    /\ \/ Queries(c, IF Exceeded(conn[c].limits[w], get_usage(conn[c].name, w))
                       THEN Refused ELSE next)
       \/ Unanswered(c, next)

-----------------------------------------------------------------------------
(* Its test *)

StartSession(c) ==
    /\ At(c, "start")
    /\ session' = [session EXCEPT ![c] =
                      [name |-> conn[c].name, open |-> TRUE, bytes |-> 0]]
    /\ Moves(c, [NewConn EXCEPT !.pc = "run", !.name = conn[c].name])
    /\ UNCHANGED <<usage, unwritten, day, failures>>

\* The test has moved b bytes when its tasks and the enforcer are joined.
Joins(c, b) ==
    /\ Moves(c, [conn[c] EXCEPT !.pc = "record", !.bytes = b])
    /\ UNCHANGED <<recordVars, failures>>

\* The client leaves, the budget is spent, the time is up.
TestEnds(c, b) ==
    /\ At(c, "run")
    /\ Joins(c, b)

\* Mutant: the enforcer looks at the usage only.
EnforcerStops_UsageOnly(c, b) ==
    /\ At(c, "run")
    /\ Enabled(conn[c].name) /\ OverQuota(conn[c].name)
    /\ Joins(c, b)

\* A tick of the enforcer: check_user fails for a user that is gone, disabled
\* or over a limit.
EnforcerStops(c, b) ==
    /\ At(c, "run")
    /\ ~(Enabled(conn[c].name) /\ ~OverQuota(conn[c].name))
    /\ Joins(c, b)

\* Mutant: the row of the day is replaced, not added to.
Record_Replace(c, k) ==
    /\ usage' = [usage EXCEPT ![k][today] =
                    [bytes |-> conn[c].bytes, tests |-> @.tests + 1]]
    /\ day' = [day EXCEPT ![k][c] = today]
    /\ UNCHANGED <<unwritten, failures>>

\* INSERT ... ON CONFLICT DO UPDATE: the row of today is made or grows.
Record(c, k) ==
    /\ usage' = [usage EXCEPT ![k][today] =
                    [bytes |-> @.bytes + conn[c].bytes, tests |-> @.tests + 1]]
    /\ day' = [day EXCEPT ![k][c] = today]
    /\ UNCHANGED <<unwritten, failures>>

Unwritten(c, table) ==
    /\ Fails
    /\ unwritten' = unwritten \cup {<<table, c>>}
    /\ UNCHANGED <<usage, day>>

\* Mutant: an error of the first record ends the handler.
RecordUsage_Propagates(c) ==
    /\ At(c, "record")
    /\ \/ Record(c, conn[c].name) /\ Goes(c, "record_ip")
       \/ Unwritten(c, "usage") /\ Goes(c, "done")
    /\ UNCHANGED session

\* record_usage for the user, on the date of this moment; an error is logged.
RecordUsage(c) ==
    /\ At(c, "record")
    /\ Goes(c, "record_ip")
    /\ Record(c, conn[c].name) \/ Unwritten(c, "usage")
    /\ UNCHANGED session

\* record_ip_usage, which may fall on the next day.
RecordIpUsage(c) ==
    /\ At(c, "record_ip")
    /\ Goes(c, "end")
    /\ Record(c, Ip) \/ Unwritten(c, "ip_usage")
    /\ UNCHANGED session

EndSession(c) ==
    /\ At(c, "end")
    /\ Goes(c, "done")
    /\ \/ /\ session' = [session EXCEPT ![c].open = FALSE,
                                        ![c].bytes = conn[c].bytes]
          /\ UNCHANGED <<usage, day, unwritten, failures>>
       \/ /\ Unwritten(c, "sessions")
          /\ UNCHANGED session

-----------------------------------------------------------------------------
Tested == {"run", "record", "record_ip", "end", "done"}

\* The server dies and is started again: ensure_tables finds its tables.
Crash ==
    /\ lost' = lost \cup {c \in Conns : conn[c].pc \in Tested \ {"done"}}
    /\ conn' = [c \in Conns |-> IF conn[c].pc \in Login
                                  THEN [NewConn EXCEPT !.pc = "gone"]
                                  ELSE conn[c]]
    /\ UNCHANGED <<adminVars, recordVars, today, failures>>

NextDay ==
    /\ today < LastDay
    /\ today' = today + 1
    /\ Touched(Names)
    /\ UNCHANGED <<adminVars, recordVars, lost, failures>>

Admin ==
    \/ InsertUser \/ SetUserQuota \/ CommandFails
    \/ \E n \in Names :
         \/ \E p \in Passwords : AddColumn(n, p)
         \/ UserDel(n)
         \/ \E d, w \in OwnLimits \cup {None} :
              \/ \E e \in BOOLEAN : UserSetEnabled(n, e, d, w)
              \/ UserSetQuota(n, d, w)

Handler(c) ==
    \/ \E n \in Names, p \in Passwords \cup {Empty} : Present(c, n, p)
    \/ GetUser(c) \/ HandlerFails(c) \/ GetPassword(c) \/ CheckUser(c)
    \/ \E w \in Windows : CheckWindow(c, w)
    \/ StartSession(c)
    \/ \E b \in Sizes : TestEnds(c, b) \/ EnforcerStops(c, b)
    \/ RecordUsage(c) \/ RecordIpUsage(c) \/ EndSession(c)

Next == (\E c \in Conns : Handler(c)) \/ Admin \/ Crash \/ NextDay

Spec == Init /\ [][Next]_vars

\* The enforcer ticks as long as the test runs.
FairSpec == Spec /\ \A c \in Conns :
                      WF_vars(\E b \in Sizes : EnforcerStops(c, b))

-----------------------------------------------------------------------------
(* Properties *)

RowType == [password : Passwords, raw : Passwords \cup {Empty},
            daily : 0 .. U64Max, weekly : 0 .. U64Max, enabled : BOOLEAN]

CommandType ==
    {NoRow} \cup [cmd : {"insert"}, name : Names, password : Passwords]
            \cup [cmd : {"quota"}, name : Names, daily : 0 .. U64Max,
                  weekly : 0 .. U64Max]

ConnType ==
    [pc : {"idle", "refused", "gone"} \cup Login \cup Tested, name : Names \cup {None},
     password : Passwords \cup {Empty, None}, limits : {None} \cup PerWindow,
     bytes : Nat, over : BOOLEAN, stale : BOOLEAN]

\* Every variable has its type.
TypeOK ==
    /\ users \in [Names -> RowType \cup {NoRow}]
    /\ has_raw \in BOOLEAN
    /\ usage \in [Keys -> [Days -> [bytes : Nat, tests : Nat]]]
    /\ session \in [Conns -> [name : Names, open : BOOLEAN, bytes : Nat]
                               \cup {NoRow}]
    /\ today \in Days
    /\ admin \in CommandType
    /\ commands \in 0 .. MaxCommands
    /\ conn \in [Conns -> ConnType]
    /\ lost \subseteq Conns
    /\ failures \in 0 .. MaxFailures
    /\ unwritten \subseteq {"usage", "ip_usage", "sessions"} \X Conns
    /\ day \in [Keys -> [Conns -> Days \cup {None}]]

LoginAnswer(c) ==
    LET n == conn[c].name
        row == users[n]
    IN  conn[c].pc = "password" /\ ~conn'[c].stale =>
        /\ conn'[c].pc = "check" =>
             Enabled(n) /\ (has_raw => row.raw = conn[c].password)
        /\ conn'[c].pc = "refused" =>
             conn[c].password # row.password \/ row.raw = Empty

\* A client is accepted with the password of an enabled user only, and the
\* right password is not refused: the answer of the login is that of one look
\* at the account, although the code takes two, unless a command changed the
\* account between them or the second query failed.  Users of an older database
\* are accepted with any password, and with none but the empty one from the
\* first useradd on (server_loop.rs:256).
LoginExact == [][\A c \in Conns : LoginAnswer(c)]_vars

\* A user that was over a limit when it logged in runs no test, unless a
\* command or the date changed what counts, or a query failed: the windows are
\* read one after the other while other tests of the user are recorded.
OverQuotaRefused ==
    \A c \in Conns :
      conn[c].pc = "start" /\ conn[c].over => conn[c].stale

\* Tests that have been recorded for key k.
Recorded(k) == {c \in Conns : day[k][c] # None}

\* The usage of every window, of a user and of an address, is the bytes of the
\* tests recorded in it, each counted once: days, crashes, failed records and
\* the removal or replacement of the user leave it so.
WindowsExact ==
    \A k \in Keys :
      /\ \A w \in Windows :
           get_usage(k, w) =
             SumOf([c \in {c \in Recorded(k) : today - day[k][c] <= Span[w]}
                      |-> conn[c].bytes])
      /\ SumOf([d \in Days |-> usage[k][d].tests]) = Cardinality(Recorded(k))

\* A session is open as long as its test is not over, and for good when the
\* server died or the last statement failed; a closed one holds the bytes of its
\* test, and the test was charged, to the user and to the address, unless a
\* record is known to have failed.
SessionsClosed ==
    \A c \in Conns :
      LET charged(k, table) == day[k][c] # None \/ <<table, c>> \in unwritten IN
      /\ (session[c] # NoRow) <=> (conn[c].pc \in Tested)
      /\ session[c] # NoRow =>
           IF session[c].open
             THEN \/ conn[c].pc # "done"
                  \/ <<"sessions", c>> \in unwritten
             ELSE /\ session[c].bytes = conn[c].bytes
                  /\ charged(session[c].name, "usage")
                  /\ charged(Ip, "ip_usage")

\* A test of a user that is removed or disabled does not run on: the enforcer
\* ends it, or the user is enabled again, or the server dies.
RevokedStops ==
    \A c \in Conns :
      (At(c, "run") /\ ~Enabled(conn[c].name))
        ~> (~At(c, "run") \/ Enabled(conn[c].name))

=============================================================================
