----------------------------- MODULE ProServer -----------------------------
(***************************************************************************)
(* The pro server: src/src/server_pro/server_loop.rs with the connection   *)
(* counts of quota.rs, the usage tables of user_db.rs and enforcer.rs.     *)
(*                                                                         *)
(* One handler task per accepted connection (handle_pro_connection, and    *)
(* the disconnect its caller does when it returns), one task per test, one *)
(* enforcer per test.  They share the map of pending multi-connection      *)
(* sessions (under a lock), the active-connection counts (under a lock     *)
(* taken separately for check and update) and the database.                *)
(*                                                                         *)
(* A test is seen from outside: it moves bytes in both directions, within  *)
(* its budget as long as one task spends it, a few more after it has been  *)
(* stopped, and when it returns its summary counts some of them;           *)
(* TransferTest models its inside.  The database answers every read, may   *)
(* fail a write, and does each in one step of its own.  All tests happen   *)
(* on one day; Earlier holds what the longer windows already contain.      *)
(***************************************************************************)
EXTENDS Quota, FiniteSets, Sums

CONSTANTS
    Conns,          \* connections the listeners accept
    Ips,            \* addresses they come from
    Users,          \* enabled users of the database
    Tokens,         \* session tokens
    NoToken,        \* first two bytes of a command that is no token
    Counts,         \* values of tcp_conn_count (0: one connection)
    Quotas,         \* limits the server may be started with
    UserQuota,      \* UserQuota[u]: limits stored with user u
    Earlier,        \* Earlier[w]: bytes of earlier days in window w
    MaxMoved        \* bound: bytes the model lets a test move

ASSUME ProServerAssumption ==
    /\ IsFiniteSet(Conns)
    /\ Quotas \subseteq QuotaType
    /\ UserQuota \in [Users -> UserQuotaType]
    /\ Earlier \in [Windows -> Nat]
    /\ Counts \subseteq Nat
    /\ NoToken \notin Tokens
    /\ MaxMoved \in 0 .. U64Max  \* the counters of a test are u64

VARIABLES
    quota,      \* the limits of the QuotaManager
    pc,         \* pc[c]: where the handler, or the stream, of c is
    ip,         \* ip[c]: peer address of c
    count,      \* count[c]: tcp_conn_count of its command
    user,       \* user[c]: whom c authenticated as
    active,     \* active_connections
    sessions,   \* pending multi-connection sessions by token
    test,       \* test[c]: the test c's handler started
    used,       \* usage table: bytes per user
    in,         \* ip_usage table: inbound bytes per address
    out,        \* ip_usage table: outbound bytes per address
    \* history
    registered, \* multi-connection primaries that returned after registering
    spurious,   \* addresses decremented for a connection never counted
    overlapped, \* two tests of one user or address were running at once
    unwritten   \* a write of usage failed

connVars == <<pc, ip, count, user>>
usageVars == <<used, in, out>>
vars == <<quota, connVars, active, sessions, test, usageVars, registered,
          spurious, overlapped, unwritten>>

NoSession == [streams |-> {}]
NoTest == [phase |-> "none"]
Nobody == "nobody"
Nowhere == "nowhere"

Today(bytes) == [w \in Windows |-> Earlier[w] + bytes]

-----------------------------------------------------------------------------
Init ==
    /\ quota \in Quotas
    /\ pc = [c \in Conns |-> "idle"]
    /\ ip = [c \in Conns |-> Nowhere]
    /\ count = [c \in Conns |-> 0]
    /\ user = [c \in Conns |-> Nobody]
    /\ active = [i \in Ips |-> 0]
    /\ sessions = [t \in Tokens |-> NoSession]
    /\ test = [c \in Conns |-> NoTest]
    /\ used = [u \in Users |-> 0]
    /\ in = [i \in Ips |-> 0]
    /\ out = [i \in Ips |-> 0]
    /\ registered = {}
    /\ spurious = {}
    /\ overlapped = FALSE
    /\ unwritten = FALSE

-----------------------------------------------------------------------------
(* QuotaManager *)

\* Mutant: disconnect subtracts without saturating.
Disconnected_Plain(i) == [active EXCEPT ![i] = @ - 1]

\* QuotaManager::disconnect: saturating_sub.
Disconnected(i) == [active EXCEPT ![i] = IF @ > 0 THEN @ - 1 ELSE 0]

UserCheck(u) == check_user(quota, UserQuota[u], Today(used[u]))

IpCheck(i) == check_ip(quota, active[i], Today(in[i]), Today(out[i]))

Budget(u, i) ==
    remaining_budget(quota, UserQuota[u], Today(used[u]), Today(in[i]),
                     Today(out[i]))

\* single: run_pro_single_test, whose caller disconnects at its end; alone: one
\* task spends the budget, that is, one stream and one direction.
NewTest(u, i, S, single, alone) ==
    [phase |-> "start", single |-> single, alone |-> alone, user |-> u,
     ip |-> i, streams |-> S, budget |-> 0, in |-> 0, out |-> 0,
     running |-> TRUE, reason |-> "none"]

Occupied == {"start", "run", "join", "charged"}

\* The stream of every connection in S is dropped.
Close(S) == [c \in Conns |-> IF c \in S THEN "done" ELSE pc[c]]

-----------------------------------------------------------------------------
(* handle_pro_connection *)

Accept(c, i) ==
    /\ pc[c] = "idle"
    /\ pc' = [pc EXCEPT ![c] = "command"]
    /\ ip' = [ip EXCEPT ![c] = i]
    /\ UNCHANGED <<quota, count, user, active, sessions, test, usageVars,
                   registered, spurious, overlapped, unwritten>>

\* HELLO, the command or the answer to a secondary connection fails: the
\* handler returns Err, which its caller takes for a primary connection
\* although this one was never counted.
Drop(c) ==
    /\ pc[c] = "command"
    /\ pc' = [pc EXCEPT ![c] = "done"]
    /\ active' = Disconnected(ip[c])
    /\ spurious' = spurious \cup {ip[c]}
    /\ UNCHANGED <<quota, ip, count, user, sessions, test, usageVars,
                   registered, overlapped, unwritten>>

\* Mutant: the token alone admits.
Joinable_AnyIp(c, t) ==
    /\ sessions[t] # NoSession
    /\ Cardinality(sessions[t].streams) < sessions[t].expected

Joinable(c, t) ==
    /\ sessions[t] # NoSession
    /\ sessions[t].ip = ip[c]
    /\ Cardinality(sessions[t].streams) < sessions[t].expected

\* Mutant: the session stays in the map when its test starts.
Join_Stays(c, t) ==
    LET S == sessions[t].streams \cup {c} IN
    /\ pc[c] = "command"
    /\ Joinable(c, t)
    /\ sessions' = [sessions EXCEPT ![t].streams = S]
    /\ IF Cardinality(S) >= sessions[t].expected
         THEN /\ test' = [test EXCEPT ![c] =
                             NewTest(sessions[t].user, ip[c], S, FALSE, FALSE)]
              /\ pc' = [d \in Conns |-> IF d \in S THEN "test" ELSE pc[d]]
         ELSE /\ pc' = [pc EXCEPT ![c] = "pending"]
              /\ UNCHANGED test
    /\ UNCHANGED <<quota, ip, count, user, active, usageVars, registered,
                   spurious, overlapped, unwritten>>

\* The first two bytes are the token of a session that waits for c.  The last
\* one to join takes the session out of the map and spawns its test.
Join(c, t) ==
    LET S == sessions[t].streams \cup {c} IN
    /\ pc[c] = "command"
    /\ Joinable(c, t)
    /\ IF Cardinality(S) >= sessions[t].expected
         THEN /\ sessions' = [sessions EXCEPT ![t] = NoSession]
              /\ test' = [test EXCEPT ![c] =
                             NewTest(sessions[t].user, ip[c], S, FALSE, FALSE)]
              /\ pc' = [d \in Conns |-> IF d \in S THEN "test" ELSE pc[d]]
         ELSE /\ sessions' = [sessions EXCEPT ![t].streams = S]
              /\ pc' = [pc EXCEPT ![c] = "pending"]
              /\ UNCHANGED test
    /\ UNCHANGED <<quota, ip, count, user, active, usageVars, registered,
                   spurious, overlapped, unwritten>>

\* Anything else is taken for a command, a token that matches nothing too.
Request(c, head, n) ==
    /\ pc[c] = "command"
    /\ head \in Tokens => ~Joinable(c, head)
    /\ count' = [count EXCEPT ![c] = n]
    /\ pc' = [pc EXCEPT ![c] = "check"]
    /\ UNCHANGED <<quota, ip, user, active, sessions, test, usageVars,
                   registered, spurious, overlapped, unwritten>>

\* check_ip takes and releases the lock on the counts ...
CheckIp(c) ==
    /\ pc[c] = "check"
    /\ pc' = [pc EXCEPT ![c] = IF IpCheck(ip[c]) = "ok" THEN "connect" ELSE "done"]
    /\ UNCHANGED <<quota, ip, count, user, active, sessions, test, usageVars,
                   registered, spurious, overlapped, unwritten>>

\* ... and connect takes it again.
Connect(c) ==
    /\ pc[c] = "connect"
    /\ active' = [active EXCEPT ![ip[c]] = @ + 1]
    /\ pc' = [pc EXCEPT ![c] = "auth"]
    /\ UNCHANGED <<quota, ip, count, user, sessions, test, usageVars,
                   registered, spurious, overlapped, unwritten>>

\* Mutant: the error is reported as a connection that was not counted.
AuthFails_NoDisconnect(c) ==
    /\ pc[c] = "auth"
    /\ pc' = [pc EXCEPT ![c] = "done"]
    /\ UNCHANGED <<quota, ip, count, user, active, sessions, test, usageVars,
                   registered, spurious, overlapped, unwritten>>

\* Unknown or disabled user, wrong hash, or a broken connection.
AuthFails(c) ==
    /\ pc[c] = "auth"
    /\ pc' = [pc EXCEPT ![c] = "done"]
    /\ active' = Disconnected(ip[c])
    /\ UNCHANGED <<quota, ip, count, user, sessions, test, usageVars,
                   registered, spurious, overlapped, unwritten>>

AuthOk(c, u) ==
    /\ pc[c] = "auth"
    /\ user' = [user EXCEPT ![c] = u]
    /\ pc' = [pc EXCEPT ![c] = "admit"]
    /\ UNCHANGED <<quota, ip, count, active, sessions, test, usageVars,
                   registered, spurious, overlapped, unwritten>>

\* check_user refuses: Ok(Some(..)), a counted connection that ends.
Refuse(c) ==
    /\ pc[c] = "admit"
    /\ UserCheck(user[c]) # "ok"
    /\ pc' = [pc EXCEPT ![c] = "done"]
    /\ active' = Disconnected(ip[c])
    /\ UNCHANGED <<quota, ip, count, user, sessions, test, usageVars,
                   registered, spurious, overlapped, unwritten>>

Admit(c) ==
    /\ pc[c] = "admit"
    /\ UserCheck(user[c]) = "ok"
    /\ IF count[c] > 0
         THEN /\ pc' = [pc EXCEPT ![c] = "register"]
              /\ UNCHANGED test
         ELSE /\ pc' = [pc EXCEPT ![c] = "test"]
              /\ \E alone \in BOOLEAN :
                   test' = [test EXCEPT ![c] =
                              NewTest(user[c], ip[c], {c}, TRUE, alone)]
    /\ UNCHANGED <<quota, ip, count, user, active, sessions, usageVars,
                   registered, spurious, overlapped, unwritten>>

\* Insert under a random token, over whatever is there, and return Ok(None).
Register(c, t) ==
    /\ pc[c] = "register"
    /\ sessions' = [sessions EXCEPT ![t] =
                       [ip |-> ip[c], user |-> user[c], expected |-> count[c],
                        streams |-> {c}]]
    /\ pc' = [Close(sessions[t].streams) EXCEPT ![c] = "pending"]
    /\ registered' = registered \cup {c}
    /\ UNCHANGED <<quota, ip, count, user, active, test, usageVars, spurious,
                   overlapped, unwritten>>

-----------------------------------------------------------------------------
(* run_pro_single_test and run_pro_multiconn_test *)

\* The caller of a single-connection handler disconnects when it returns; the
\* task of a multi-connection test does not.
Released(k) == IF test[k].single THEN Disconnected(test[k].ip) ELSE active

\* start_session fails in the database.
StartFails(k) ==
    /\ test[k].phase = "start"
    /\ test' = [test EXCEPT ![k].phase = "ended"]
    /\ pc' = Close(test[k].streams)
    /\ active' = Released(k)
    /\ UNCHANGED <<quota, ip, count, user, sessions, usageVars, registered,
                   spurious, overlapped, unwritten>>

Sharing(k) == {j \in Conns : /\ test[j].phase \in {"run", "join", "charged"}
                             /\ \/ test[j].user = test[k].user
                                \/ test[j].ip = test[k].ip}

\* The budget is what is left when the test starts.
Start(k) ==
    /\ test[k].phase = "start"
    /\ test' = [test EXCEPT ![k].phase = "run",
                            ![k].budget = Budget(test[k].user, test[k].ip)]
    /\ overlapped' = (overlapped \/ Sharing(k) # {})
    /\ UNCHANGED <<quota, connVars, active, sessions, usageVars, registered,
                   spurious, unwritten>>

\* The bytes test k has moved and, once its transfer has returned, those that
\* state.summary() counts.
Bytes(k) == test[k].in + test[k].out

\* spend_budget lets a byte pass: there is one left, or several tasks race for
\* the last one (TransferTest, BudgetRespected).
Passes(t) ==
    t.budget = U64Max \/ t.in + t.out <= t.budget \/ ~t.alone

\* A task that was reading or writing when running was cleared still moves its
\* bytes (TransferTest, LateBound).
MoveIn(k) ==
    /\ test[k].phase = "run"
    /\ test[k].alone => test[k].out = 0
    /\ Bytes(k) < MaxMoved
    /\ test' = [test EXCEPT ![k].in = @ + 1]
    /\ Passes(test'[k])
    /\ UNCHANGED <<quota, connVars, active, sessions, usageVars, registered,
                   spurious, overlapped, unwritten>>

MoveOut(k) ==
    /\ test[k].phase = "run"
    /\ test[k].alone => test[k].in = 0
    /\ Bytes(k) < MaxMoved
    /\ test' = [test EXCEPT ![k].out = @ + 1]
    /\ Passes(test'[k])
    /\ UNCHANGED <<quota, connVars, active, sessions, usageVars, registered,
                   spurious, overlapped, unwritten>>

\* spend_budget refuses the next byte and clears running.
BudgetStop(k) ==
    /\ test[k].phase = "run" /\ test[k].running
    /\ Bytes(k) >= test[k].budget /\ test[k].budget # U64Max
    /\ test' = [test EXCEPT ![k].running = FALSE]
    /\ UNCHANGED <<quota, connVars, active, sessions, usageVars, registered,
                   spurious, overlapped, unwritten>>

\* The client goes away, or the transfer cannot be set up.
ClientLeaves(k) ==
    /\ test[k].phase = "run" /\ test[k].running
    /\ test' = [test EXCEPT ![k].running = FALSE]
    /\ UNCHANGED <<quota, connVars, active, sessions, usageVars, registered,
                   spurious, overlapped, unwritten>>

\* The transfer has returned with its summary; the enforcer is still to be
\* awaited.  The summary lacks the bytes of the last interval, of an interval
\* whose status could not be written, and what one connection sent in a
\* bidirectional TCP test (TransferTest, TxAccounting).
TransferReturns(k) ==
    /\ test[k].phase = "run" /\ ~test[k].running
    /\ \E n \in 0 .. test[k].in, m \in 0 .. test[k].out :
         test' = [test EXCEPT ![k].phase = "join", ![k].in = n, ![k].out = m]
    /\ UNCHANGED <<quota, connVars, active, sessions, usageVars, registered,
                   spurious, overlapped, unwritten>>

\* UserDb: the row of key grows by n, unless the write fails.
Charged(table, key, n, written) ==
    [table EXCEPT ![key] = IF written THEN @ + n ELSE @]

\* Mutant: the user is charged for one direction only.
RecordUser_OneWay(k, written) ==
    /\ test[k].phase = "join"
    /\ test[k].reason # "none"
    /\ used' = Charged(used, test[k].user, test[k].in, written)
    /\ unwritten' = (unwritten \/ ~written)
    /\ test' = [test EXCEPT ![k].phase = "charged"]
    /\ UNCHANGED <<quota, connVars, active, sessions, in, out, registered,
                   spurious, overlapped>>

\* The enforcer has been joined.  record_usage writes the user's row; an error
\* is logged and nothing else ...
RecordUser(k, written) ==
    /\ test[k].phase = "join"
    /\ test[k].reason # "none"
    /\ used' = Charged(used, test[k].user, Bytes(k), written)
    /\ unwritten' = (unwritten \/ ~written)
    /\ test' = [test EXCEPT ![k].phase = "charged"]
    /\ UNCHANGED <<quota, connVars, active, sessions, in, out, registered,
                   spurious, overlapped>>

\* ... then the row of the address, and the session ends.  The totals are
\* passed as (tx, rx) where record_usage takes (inbound, outbound).
RecordIp(k, written) ==
    LET i == test[k].ip IN
    /\ test[k].phase = "charged"
    /\ in' = Charged(in, i, test[k].out, written)
    /\ out' = Charged(out, i, test[k].in, written)
    /\ unwritten' = (unwritten \/ ~written)
    /\ test' = [test EXCEPT ![k].phase = "ended"]
    /\ pc' = Close(test[k].streams)
    /\ active' = Released(k)
    /\ UNCHANGED <<quota, ip, count, user, sessions, used, registered,
                   spurious, overlapped>>

-----------------------------------------------------------------------------
(* QuotaEnforcer::run, one tick of the enforcer of test k *)

Enforcing(k) == test[k].phase \in {"run", "join"} /\ test[k].reason = "none"

StoppedBy(k, reason) ==
    /\ test' = [test EXCEPT ![k].running = FALSE, ![k].reason = reason]
    /\ UNCHANGED <<quota, connVars, active, sessions, usageVars, registered,
                   spurious, overlapped, unwritten>>

\* Mutant: the enforcer never notices that the test is over.
EnforcerSeesEnd_Never(k) == FALSE

EnforcerSeesEnd(k) ==
    /\ Enforcing(k)
    /\ ~test[k].running
    /\ StoppedBy(k, "ClientDisconnected")

EnforcerTimeout(k) ==
    /\ Enforcing(k)
    /\ test[k].running
    /\ StoppedBy(k, "MaxDuration")

\* Mutant: the user's quota is checked at admission only.
EnforcerUser_Never(k) == FALSE

EnforcerUser(k) ==
    /\ Enforcing(k)
    /\ test[k].running
    /\ UserCheck(test[k].user) # "ok"
    /\ StoppedBy(k, "UserQuota")

\* Every failure of check_ip is reported as an IP quota, the connection limit
\* included.
EnforcerIp(k) ==
    /\ Enforcing(k)
    /\ test[k].running
    /\ UserCheck(test[k].user) = "ok"
    /\ IpCheck(test[k].ip) # "ok"
    /\ StoppedBy(k, "IpQuota")

-----------------------------------------------------------------------------
Handler(c) ==
    \/ \E i \in Ips : Accept(c, i)
    \/ Drop(c) \/ CheckIp(c) \/ Connect(c) \/ AuthFails(c) \/ Refuse(c)
    \/ Admit(c)
    \/ \E t \in Tokens : Join(c, t) \/ Register(c, t)
    \/ \E head \in Tokens \cup {NoToken}, n \in Counts : Request(c, head, n)
    \/ \E u \in Users : AuthOk(c, u)

Enforcer(k) ==
    EnforcerSeesEnd(k) \/ EnforcerTimeout(k) \/ EnforcerUser(k) \/ EnforcerIp(k)

Test(k) ==
    \/ StartFails(k) \/ Start(k) \/ MoveIn(k) \/ MoveOut(k) \/ BudgetStop(k)
    \/ ClientLeaves(k) \/ TransferReturns(k)
    \/ \E written \in BOOLEAN : RecordUser(k, written) \/ RecordIp(k, written)

\* Nobody connects any more, and every connection has been served or waits for
\* others that never come.
Quiet ==
    /\ \A c \in Conns : pc[c] \in {"idle", "done", "pending"}
    /\ UNCHANGED vars

Next == (\E c \in Conns : Handler(c) \/ Test(c) \/ Enforcer(c)) \/ Quiet

Spec == Init /\ [][Next]_vars

\* The runtime runs every ready task and the enforcer ticks; nobody promises
\* that a client sends, leaves or completes its session, that a transfer
\* returns while its peer is stalled, or that a test has a maximum duration.
Fairness ==
    \A k \in Conns :
      /\ WF_vars(\E written \in BOOLEAN : RecordUser(k, written))
      /\ WF_vars(\E written \in BOOLEAN : RecordIp(k, written))
      /\ WF_vars(EnforcerSeesEnd(k))
      /\ WF_vars(EnforcerUser(k))

FairSpec == Spec /\ Fairness

-----------------------------------------------------------------------------
(* Properties *)

SessionType ==
    [ip : Ips, user : Users, expected : Nat, streams : SUBSET Conns]

TestType ==
    [phase : {"start", "run", "join", "charged", "ended"}, single : BOOLEAN,
     alone : BOOLEAN, user : Users, ip : Ips, streams : SUBSET Conns,
     budget : 0 .. U64Max, in : Nat, out : Nat, running : BOOLEAN,
     reason : {"none", "ClientDisconnected", "MaxDuration", "UserQuota",
               "IpQuota"}]

\* Every variable has its type; the saturating counts stay natural numbers.
TypeOK ==
    /\ quota \in Quotas
    /\ pc \in [Conns -> {"idle", "command", "check", "connect", "auth",
                         "admit", "register", "pending", "test", "done"}]
    /\ ip \in [Conns -> Ips \cup {Nowhere}]
    /\ count \in [Conns -> Nat]
    /\ user \in [Conns -> Users \cup {Nobody}]
    /\ active \in [Ips -> Nat]
    /\ sessions \in [Tokens -> SessionType \cup {NoSession}]
    /\ test \in [Conns -> TestType \cup {NoTest}]
    /\ used \in [Users -> Nat]
    /\ in \in [Ips -> Nat]
    /\ out \in [Ips -> Nat]
    /\ registered \subseteq Conns
    /\ spurious \subseteq Ips
    /\ overlapped \in BOOLEAN
    /\ unwritten \in BOOLEAN

Live(k) == test[k].phase \in Occupied

\* Every stream is held in one place: a pending one by exactly one session, one
\* under test by exactly one test, and no session or live test holds another
\* kind of stream, whatever joins, collides or overwrites.
StreamsOwned ==
    \A c \in Conns :
      /\ Cardinality({t \in Tokens : c \in sessions[t].streams})
           = IF pc[c] = "pending" THEN 1 ELSE 0
      /\ Cardinality({k \in Conns : Live(k) /\ c \in test[k].streams})
           = IF pc[c] = "test" THEN 1 ELSE 0

\* A multi-connection test has exactly the connections its primary asked for,
\* all from the primary's address, and is charged to the primary's user.
MultiTestWhole ==
    \A k \in Conns :
      Live(k) /\ ~test[k].single =>
        \E p \in test[k].streams \cap registered :
          /\ Cardinality(test[k].streams) = count[p]
          /\ test[k].user = user[p]
          /\ \A c \in test[k].streams : ip[c] = test[k].ip

\* Counted connections of address i that no primary has registered: at most one
\* connection each, given back when its handler returns.
Counted(i) ==
    {c \in Conns : /\ ip[c] = i
                   /\ \/ pc[c] \in {"auth", "admit", "register"}
                      \/ Live(c) /\ test[c].single}

\* Open connections of address i that were counted when they were accepted.
Open(i) ==
    Counted(i) \cup {c \in registered : ip[c] = i /\ pc[c] \in {"pending", "test"}}

\* Registered primaries whose connection is closed.
Closed(i) == {c \in registered : ip[c] = i /\ pc[c] = "done"}

\* The active count of an address is the number of its open counted
\* connections, whatever interleaves, with two exceptions: a primary whose
\* connection is closed may still be counted, and a connection that was never
\* counted may have been given back.
ActiveAccount ==
    \A i \in Ips :
      /\ Closed(i) = {} => active[i] <= Cardinality(Open(i))
      /\ i \notin spurious => active[i] >= Cardinality(Open(i))

Ended(k) == test[k].phase = "ended"

ChargedTo(u) ==
    {k \in Conns : test[k].phase \in {"charged", "ended"} /\ test[k].user = u}

EndedAt(i) == {k \in Conns : Ended(k) /\ test[k].ip = i}

\* What the summary of a finished test counts is charged exactly once, to its
\* user and to its address, however the ends of several tests interleave,
\* unless the database failed a write.  In which direction it is charged to the
\* address is left open.
UsageExact ==
    ~unwritten =>
    /\ \A u \in Users : used[u] = SumOf([k \in ChargedTo(u) |-> Bytes(k)])
    /\ \A i \in Ips :
          in[i] + out[i] = SumOf([k \in EndedAt(i) |-> Bytes(k)])

\* What was recorded since the start of the day keeps every limit.
WithinLimits(limits, before, now) ==
    \A w \in Windows :
      limits[w] > 0 => now[w] <= limits[w] \/ now[w] = before[w]

\* No limit of a user or an address is exceeded by the tests of the day.
QuotaRespected ==
    /\ \A u \in Users :
          WithinLimits(UserLimits(quota, UserQuota[u]), Earlier, Today(used[u]))
    /\ \A i \in Ips :
          /\ WithinLimits(quota.ip, Both(Earlier, Earlier),
                          Both(Today(in[i]), Today(out[i])))
          /\ WithinLimits(quota.ip_in, Earlier, Today(in[i]))
          /\ WithinLimits(quota.ip_out, Earlier, Today(out[i]))

\* The byte budget keeps the quotas: as long as each test has one task that
\* spends it, no limit is exceeded.
BudgetKeepsQuota ==
    (\A k \in Conns : test[k] # NoTest => test[k].alone) => QuotaRespected

\* When, besides, no two tests of a user or an address run at the same time,
\* the budget computed at the start keeps every limit in every window.
QuotaRespectedAlone == ~overlapped => BudgetKeepsQuota

\* A test whose user has used up a quota, by another test of the same user
\* that was recorded meanwhile, is stopped.
OverQuotaStops ==
    \A k \in Conns :
      (test[k].phase = "run" /\ test[k].running /\ UserCheck(test[k].user) # "ok")
        ~> ~(test[k].phase = "run" /\ test[k].running)

\* A test whose transfer has returned is recorded and its session closed: the
\* enforcer it waits for notices the end before anything is charged.
ReturnedIsRecorded ==
    \A k \in Conns : test[k].phase = "join" ~> Ended(k)

=============================================================================
