---------------------------- MODULE TcpSessions ----------------------------
(***************************************************************************)
(* Connections of the standard server and how several of them become one   *)
(* TCP test: handle_client in src/src/server.rs.                           *)
(*                                                                         *)
(* One handler task per connection.  A client that wants n > 0 parallel    *)
(* connections opens a primary, whose handler registers a session under a  *)
(* random token and polls it for up to 10 s; the others join by sending    *)
(* the token instead of a command, or by sending the same command from the *)
(* same address.  The map of sessions is behind a lock that no handler     *)
(* keeps while it polls, authenticates or decides what to do next.         *)
(***************************************************************************)
EXTENDS Integers, FiniteSets

CONSTANTS
    Conns,      \* connections the listeners accept
    Ips,        \* addresses they come from
    Tokens,     \* session tokens
    NoToken,    \* no token: a command's first two bytes, or AUTH_OK
    Counts      \* values of tcp_conn_count (0: no multi-connection, or UDP)

ASSUME TcpSessionsAssumption ==
    /\ NoToken \notin Tokens
    /\ Counts \subseteq Nat

VARIABLES
    pc,         \* pc[c]: where the handler, or the stream, of c is
    ip,         \* ip[c]: its peer address
    count,      \* count[c]: tcp_conn_count of its command
    token,      \* token[c]: the session_token drawn for it
    \* the session map
    present,    \* tokens that have a session
    peer_ip,    \* peer_ip[t]
    expected,   \* expected[t]
    streams,    \* streams[t]: secondary connections that joined
    test,       \* test[c]: streams of the test c's handler runs
    \* history
    collided    \* a session was overwritten by one with the same token

connVars == <<pc, ip, count, token>>
mapVars == <<present, peer_ip, expected, streams>>
vars == <<connVars, mapVars, test, collided>>

Nowhere == "nowhere"

Init ==
    /\ pc = [c \in Conns |-> "idle"]
    /\ ip = [c \in Conns |-> Nowhere]
    /\ count = [c \in Conns |-> 0]
    /\ token = [c \in Conns |-> NoToken]
    /\ present = {}
    /\ peer_ip = [t \in Tokens |-> Nowhere]
    /\ expected = [t \in Tokens |-> 0]
    /\ streams = [t \in Tokens |-> {}]
    /\ test = [c \in Conns |-> {}]
    /\ collided = FALSE

-----------------------------------------------------------------------------
Accept(c, i) ==
    /\ pc[c] = "idle"
    /\ pc' = [pc EXCEPT ![c] = "command"]
    /\ ip' = [ip EXCEPT ![c] = i]
    /\ UNCHANGED <<count, token, mapVars, test, collided>>

\* HELLO or the command fails, the command is invalid, or a secondary cannot
\* be answered.
Fail(c) ==
    /\ pc[c] \in {"command", "joinauth", "auth"}
    /\ pc' = [pc EXCEPT ![c] = "done"]
    /\ UNCHANGED <<ip, count, token, mapVars, test, collided>>

\* Mutant: any address may join.
Joinable_AnyIp(c, t) ==
    /\ t \in present
    /\ Cardinality(streams[t]) < expected[t]

Joinable(c, t) ==
    /\ t \in present
    /\ peer_ip[t] = ip[c]
    /\ Cardinality(streams[t]) < expected[t]

\* Under the lock: the first two bytes are a token.  No authentication.
JoinByToken(c, t) ==
    /\ pc[c] = "command"
    /\ Joinable(c, t)
    /\ streams' = [streams EXCEPT ![t] = @ \cup {c}]
    /\ pc' = [pc EXCEPT ![c] = "joined"]
    /\ UNCHANGED <<ip, count, token, present, peer_ip, expected, test, collided>>

\* Mutant: the count becomes the number of connections still to come.
Command_MinusOne(c, head, n, t) ==
    /\ pc[c] = "command"
    /\ head \in Tokens => ~Joinable(c, head)
    /\ count' = [count EXCEPT ![c] = n - 1]
    /\ token' = [token EXCEPT ![c] = IF n > 0 THEN t ELSE NoToken]
    /\ pc' = [pc EXCEPT ![c] = IF n > 0 THEN "lookup" ELSE "auth"]
    /\ UNCHANGED <<ip, mapVars, test, collided>>

\* Anything else is a command; a token that matches nothing is parsed as one.
\* A command for several connections draws a token t.
Command(c, head, n, t) ==
    /\ pc[c] = "command"
    /\ head \in Tokens => ~Joinable(c, head)
    /\ count' = [count EXCEPT ![c] = n]
    /\ token' = [token EXCEPT ![c] = IF n > 0 THEN t ELSE NoToken]
    /\ pc' = [pc EXCEPT ![c] = IF n > 0 THEN "lookup" ELSE "auth"]
    /\ UNCHANGED <<ip, mapVars, test, collided>>

\* The lock again: is a session of this address short of connections?
Lookup(c) ==
    /\ pc[c] = "lookup"
    /\ pc' = [pc EXCEPT ![c] = IF \E t \in Tokens : Joinable(c, t)
                                 THEN "joinauth" ELSE "auth"]
    /\ UNCHANGED <<ip, count, token, mapVars, test, collided>>

\* The lock was released to authenticate; the answer carries the token drawn
\* for this connection.
JoinAuth(c) ==
    /\ pc[c] = "joinauth"
    /\ pc' = [pc EXCEPT ![c] = "rejoin"]
    /\ UNCHANGED <<ip, count, token, mapVars, test, collided>>

\* The lock once more: join any session of the address that is still short ...
JoinByIp(c, t) ==
    /\ pc[c] = "rejoin"
    /\ Joinable(c, t)
    /\ streams' = [streams EXCEPT ![t] = @ \cup {c}]
    /\ pc' = [pc EXCEPT ![c] = "joined"]
    /\ UNCHANGED <<ip, count, token, present, peer_ip, expected, test,
                   collided>>

\* ... or, when there is none any more, drop the connection.
JoinTooLate(c) ==
    /\ pc[c] = "rejoin"
    /\ \A t \in Tokens : ~Joinable(c, t)
    /\ pc' = [pc EXCEPT ![c] = "done"]
    /\ UNCHANGED <<ip, count, token, mapVars, test, collided>>

\* A primary connection is authenticated; its test starts, or its session is
\* to be registered.
Authenticate(c) ==
    /\ pc[c] = "auth"
    /\ IF count[c] > 0
         THEN /\ pc' = [pc EXCEPT ![c] = "register"]
              /\ UNCHANGED test
         ELSE /\ pc' = [pc EXCEPT ![c] = "test"]
              /\ test' = [test EXCEPT ![c] = {c}]
    /\ UNCHANGED <<ip, count, token, mapVars, collided>>

Close(S) == [c \in Conns |-> IF c \in S THEN "done" ELSE pc[c]]

\* HashMap::insert: a session under the same token is replaced and the streams
\* that joined it are closed.
Register(c) ==
    LET t == token[c] IN
    /\ pc[c] = "register"
    /\ present' = present \cup {t}
    /\ peer_ip' = [peer_ip EXCEPT ![t] = ip[c]]
    /\ expected' = [expected EXCEPT ![t] = count[c]]
    /\ streams' = [streams EXCEPT ![t] = {}]
    /\ pc' = [Close(streams[t]) EXCEPT ![c] = "wait"]
    /\ collided' = (collided \/ t \in present)
    /\ UNCHANGED <<ip, count, token, test>>

\* A poll finds enough connections, the primary included.
WaitDone(c) ==
    /\ pc[c] = "wait"
    /\ Cardinality(streams[token[c]]) + 1 >= count[c]
    /\ pc' = [pc EXCEPT ![c] = "collect"]
    /\ UNCHANGED <<ip, count, token, mapVars, test, collided>>

\* Mutant: the wait has no deadline.
WaitTimeout_Never(c) == FALSE

\* Mutant: the handler gives up and leaves its session behind.
WaitTimeout_GivesUp(c) ==
    /\ pc[c] = "wait"
    /\ Cardinality(streams[token[c]]) + 1 < count[c]
    /\ pc' = [pc EXCEPT ![c] = "done"]
    /\ UNCHANGED <<ip, count, token, mapVars, test, collided>>

\* A poll after the deadline: go on with those that came.
WaitTimeout(c) ==
    /\ pc[c] = "wait"
    /\ Cardinality(streams[token[c]]) + 1 < count[c]
    /\ pc' = [pc EXCEPT ![c] = "collect"]
    /\ UNCHANGED <<ip, count, token, mapVars, test, collided>>

\* Mutant: the streams are taken and the session stays.
Collect_Stays(c) ==
    LET S == streams[token[c]] \cup {c} IN
    /\ pc[c] = "collect"
    /\ test' = [test EXCEPT ![c] = S]
    /\ pc' = [d \in Conns |-> IF d \in S THEN "test" ELSE pc[d]]
    /\ UNCHANGED <<ip, count, token, mapVars, collided>>

\* Remove the session (or nothing, if it is gone) and start with its streams.
Collect(c) ==
    LET t == token[c]
        S == streams[t] \cup {c} IN
    /\ pc[c] = "collect"
    /\ present' = present \ {t}
    /\ streams' = [streams EXCEPT ![t] = {}]
    /\ test' = [test EXCEPT ![c] = S]
    /\ pc' = [d \in Conns |-> IF d \in S THEN "test" ELSE pc[d]]
    /\ UNCHANGED <<ip, count, token, peer_ip, expected, collided>>

TestEnds(c) ==
    /\ test[c] # {}
    /\ test' = [test EXCEPT ![c] = {}]
    /\ pc' = Close(test[c])
    /\ UNCHANGED <<ip, count, token, mapVars, collided>>

\* All connections have been served.
Quiet ==
    /\ \A c \in Conns : pc[c] = "done"
    /\ UNCHANGED vars

Handler(c) ==
    \/ \E i \in Ips : Accept(c, i)
    \/ \E t \in Tokens : JoinByToken(c, t) \/ JoinByIp(c, t)
    \/ \E head \in Tokens \cup {NoToken}, n \in Counts, t \in Tokens :
         Command(c, head, n, t)
    \/ Fail(c) \/ Lookup(c) \/ JoinAuth(c) \/ JoinTooLate(c)
    \/ Authenticate(c) \/ Register(c) \/ WaitDone(c) \/ WaitTimeout(c)
    \/ Collect(c) \/ TestEnds(c)

Next == (\E c \in Conns : Handler(c)) \/ Quiet

Spec == Init /\ [][Next]_vars

\* The polling handler is scheduled and the clock reaches its deadline.
Fairness ==
    \A c \in Conns : WF_vars(WaitDone(c) \/ WaitTimeout(c)) /\ WF_vars(Collect(c))

FairSpec == Spec /\ Fairness

-----------------------------------------------------------------------------
(* Properties *)

\* Every variable has its type.
TypeOK ==
    /\ pc \in [Conns -> {"idle", "command", "lookup", "joinauth", "rejoin",
                         "auth", "register", "wait", "collect", "joined",
                         "test", "done"}]
    /\ ip \in [Conns -> Ips \cup {Nowhere}]
    /\ count \in [Conns -> Nat]
    /\ token \in [Conns -> Tokens \cup {NoToken}]
    /\ present \subseteq Tokens
    /\ peer_ip \in [Tokens -> Ips \cup {Nowhere}]
    /\ expected \in [Tokens -> Nat]
    /\ streams \in [Tokens -> SUBSET Conns]
    /\ test \in [Conns -> SUBSET Conns]
    /\ collided \in BOOLEAN

\* Every stream is held in one place: one that joined by exactly one session,
\* one under test by exactly one test, and neither holds any other stream,
\* also when tokens collide.
StreamsOwned ==
    \A c \in Conns :
      /\ pc[c] = "joined" <=> \E t \in Tokens : c \in streams[t]
      /\ pc[c] = "test" <=> \E k \in Conns : c \in test[k]
      /\ \A t1, t2 \in Tokens : c \in streams[t1] /\ c \in streams[t2] => t1 = t2
      /\ \A k1, k2 \in Conns : c \in test[k1] /\ c \in test[k2] => k1 = k2

\* A session in the map has a handler that is still going to collect it, so
\* no stream waits in the map for ever and no entry stays behind.
NoOrphanSession ==
    \A t \in present :
      \E c \in Conns : pc[c] \in {"wait", "collect"} /\ token[c] = t

\* Without a collision of tokens a multi-connection test consists of its
\* primary and at most tcp_conn_count others, all from the primary's address.
TestOfOneClient ==
    ~collided =>
      \A k \in Conns :
        /\ \A c \in test[k] : ip[c] = ip[k]
        /\ Cardinality(test[k]) <= count[k] + 1

\* A connection that joined a session does not wait for ever: its primary
\* starts the test at the deadline if not before, or the session is replaced.
JoinedStarts ==
    \A c \in Conns : pc[c] = "joined" ~> pc[c] \in {"test", "done"}

=============================================================================
