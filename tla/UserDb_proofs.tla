--------------------------- MODULE UserDb_proofs ---------------------------
(***************************************************************************)
(* Proofs about UserDb, for every set of users, passwords, limits, days    *)
(* and connections: types, and the records a test leaves behind.           *)
(***************************************************************************)
EXTENDS UserDb, Sums_proofs, FiniteSetTheorems, TLAPS

-----------------------------------------------------------------------------
(* Types *)

\* A handler past the answer knows its user, and one between two windows the limits.
Known(r) ==
    /\ r \in ConnType
    /\ r.pc \in Login \cup Tested => r.name \in Names
    /\ r.pc \in Windows => r.limits \in PerWindow

ConnInv == \A c \in Conns : Known(conn[c])

TypeInv == TypeOK /\ ConnInv

\* Key k has been charged with c's test, or the record is known to have failed.
Charged(k, table, c) == day[k][c] # None \/ <<table, c>> \in unwritten

\* The row of a test exists from its start on, and the records are made in the order
\* user, address, session.
SessionOf(c) ==
    /\ (session[c] # NoRow) <=> (conn[c].pc \in Tested)
    /\ session[c] # NoRow =>
         /\ session[c].name = conn[c].name
         /\ conn[c].pc \in {"record_ip", "end", "done"} =>
              Charged(session[c].name, "usage", c)
         /\ conn[c].pc \in {"end", "done"} => Charged(Ip, "ip_usage", c)
         /\ session[c].open => conn[c].pc # "done" \/ <<"sessions", c>> \in unwritten
         /\ ~session[c].open => conn[c].pc = "done" /\ session[c].bytes = conn[c].bytes

SessionInv == \A c \in Conns : SessionOf(c)

LEMMA NewConnKnown == Known(NewConn) /\ Known(Refused)
  BY DEF Known, NewConn, Refused, ConnType, Login, Tested, Windows

LEMMA LimitsType ==
    ASSUME NEW row \in RowType
    PROVE  UserLimits(Limits, row) \in PerWindow
  BY UserDbAssumption DEF RowType, UserLimits, QuotaType, PerWindow, Windows

LEMMA ContinueKnown ==
    ASSUME ConnInv, NEW c \in Conns, NEW limits \in PerWindow, NEW S,
           conn[c].name \in Names
    PROVE  Known(Continue(c, limits, S))
  <1>1. NextCheck(limits, S) \in Windows \cup {"start"}
    BY DEF NextCheck, Windows
  <1>2. conn[c] \in ConnType
    BY DEF ConnInv, Known
  <1> DEFINE next == NextCheck(limits, S)
  <1>3. Continue(c, limits, S) =
          [conn[c] EXCEPT !.pc = next,
                          !.limits = IF next = "start" THEN None ELSE limits]
    BY DEF Continue
  <1> HIDE DEF next
  <1>4. next \in Windows \cup {"start"}
    BY <1>1 DEF next
  <1> QED BY <1>2, <1>3, <1>4 DEF Known, ConnType, Login, Windows

\* A handler's step leaves the others alone.
LEMMA MovesKnown ==
    ASSUME TypeInv, NEW c \in Conns, NEW r, Known(r), Moves(c, r)
    PROVE  conn' \in [Conns -> ConnType] /\ ConnInv'
  BY DEF TypeInv, TypeOK, ConnInv, Known, Moves

LEMMA TouchedKnown ==
    ASSUME TypeInv, NEW S, Touched(S)
    PROVE  conn' \in [Conns -> ConnType] /\ ConnInv'
  <1>1. \A c \in Conns : \E s \in BOOLEAN : conn'[c] = [conn[c] EXCEPT !.stale = s]
    BY DEF TypeInv, TypeOK, ConnInv, Known, ConnType, Touched
  <1>2. \A c \in Conns : Known(conn'[c])
    <2> SUFFICES ASSUME NEW c \in Conns PROVE Known(conn'[c])
      OBVIOUS
    <2>1. PICK s \in BOOLEAN : conn'[c] = [conn[c] EXCEPT !.stale = s]
      BY <1>1
    <2>2. Known(conn[c])
      BY DEF TypeInv, ConnInv
    <2> QED BY <2>1, <2>2 DEF Known, ConnType
  <1> QED BY <1>2 DEF Touched, ConnInv, Known

LEMMA InitTypes == Init => TypeInv
  <1> SUFFICES ASSUME Init PROVE TypeInv
    OBVIOUS
  <1>1. ConnInv /\ conn \in [Conns -> ConnType]
    BY NewConnKnown DEF Init, ConnInv, Known
  <1>2. users \in [Names -> RowType \cup {NoRow}]
    BY U64MaxAssumption DEF Init, RowType
  <1> QED BY <1>1, <1>2, UserDbAssumption
          DEF Init, TypeInv, TypeOK, CommandType, EmptyRow, Days

\* What a user command does to users, and the statement it leaves.
LEMMA StatementTypes ==
    ASSUME TypeInv, NEW n \in Names, NEW row \in RowType \cup {NoRow}, Statement(n, row)
    PROVE  /\ users' \in [Names -> RowType \cup {NoRow}]
           /\ conn' \in [Conns -> ConnType] /\ ConnInv'
           /\ UNCHANGED <<usage, session, unwritten, day, today, lost, failures>>
  <1>1. conn' \in [Conns -> ConnType] /\ ConnInv'
    BY TouchedKnown DEF Statement
  <1> QED BY <1>1 DEF Statement, TypeInv, TypeOK, recordVars

LEMMA AdminTypes == TypeInv /\ Admin => TypeInv'
  <1> SUFFICES ASSUME TypeInv, Admin PROVE TypeInv'
    OBVIOUS
  <1> USE UserDbAssumption
  <1>0. TypeOK
    BY DEF TypeInv
  <1>c. NewCommand => commands' \in 0 .. MaxCommands
    BY <1>0 DEF TypeOK, NewCommand
  <1>1. CASE InsertUser
    <2>1. admin \in [cmd : {"insert"}, name : Names, password : Passwords]
      BY <1>0, <1>1 DEF TypeOK, CommandType, InsertUser
    <2> DEFINE row == [password |-> admin.password, raw |-> admin.password,
                       daily |-> 0, weekly |-> 0, enabled |-> TRUE]
    <2>2. row \in RowType /\ admin.name \in Names
      BY <2>1, U64MaxAssumption DEF RowType
    <2>3. Statement(admin.name, row)
      BY <1>1 DEF InsertUser
    <2> HIDE DEF row
    <2>4. admin' = NoRow /\ UNCHANGED <<has_raw, commands>>
      BY <1>1 DEF InsertUser
    <2> QED BY <1>0, <2>2, <2>3, <2>4, StatementTypes DEF TypeInv, TypeOK, CommandType
  <1>2. CASE SetUserQuota
    <2>1. admin \in [cmd : {"quota"}, name : Names, daily : 0 .. U64Max,
                     weekly : 0 .. U64Max]
      BY <1>0, <1>2 DEF TypeOK, CommandType, SetUserQuota
    <2> DEFINE row == IF users[admin.name] = NoRow THEN NoRow
                      ELSE [users[admin.name] EXCEPT !.daily = admin.daily,
                                                     !.weekly = admin.weekly]
    <2>2. admin.name \in Names
      BY <2>1
    <2>3. row \in RowType \cup {NoRow}
      <3>1. CASE users[admin.name] = NoRow
        BY <3>1
      <3>2. CASE users[admin.name] # NoRow
        <4>1. users[admin.name] \in RowType
          BY <1>0, <2>2, <3>2 DEF TypeOK
        <4> QED BY <2>1, <3>2, <4>1 DEF RowType
      <3> QED BY <3>1, <3>2
    <2>4. Statement(admin.name, row)
      BY <1>2 DEF SetUserQuota
    <2>5. admin' = NoRow /\ UNCHANGED <<has_raw, commands>>
      BY <1>2 DEF SetUserQuota
    <2> HIDE DEF row
    <2> QED BY <1>0, <2>2, <2>3, <2>4, <2>5, StatementTypes
            DEF TypeInv, TypeOK, CommandType
  <1>3. CASE CommandFails
    BY <1>0, <1>3
       DEF TypeInv, TypeOK, CommandType, ConnInv, CommandFails, recordVars
  <1>4. ASSUME NEW n \in Names, NEW p \in Passwords, AddColumn(n, p)
        PROVE  TypeInv'
    <2>1. conn' \in [Conns -> ConnType] /\ ConnInv'
      BY <1>4, TouchedKnown DEF AddColumn
    <2>2. admin' \in CommandType
      BY <1>4 DEF AddColumn, CommandType
    <2> QED BY <1>0, <1>4, <1>c, <2>1, <2>2 DEF TypeInv, TypeOK, AddColumn, recordVars
  <1>5. ASSUME NEW n \in Names, UserDel(n)
        PROVE  TypeInv'
    <2>1. Statement(n, NoRow) /\ NewCommand /\ UNCHANGED <<has_raw, admin>>
      BY <1>5 DEF UserDel
    <2> QED BY <1>0, <1>c, <2>1, StatementTypes DEF TypeInv, TypeOK
  <1>q. \A n \in Names : \A d, w \in OwnLimits \cup {None} :
          QuotaStatement(n, d, w) \in CommandType
    BY U64MaxAssumption DEF QuotaStatement, CommandType, unwrap_or
  <1>6. ASSUME NEW n \in Names, NEW e \in BOOLEAN, NEW d \in OwnLimits \cup {None},
               NEW w \in OwnLimits \cup {None}, UserSetEnabled(n, e, d, w)
        PROVE  TypeInv'
    <2> DEFINE row == [users[n] EXCEPT !.enabled = e]
    <2>1. /\ Statement(n, row) /\ NewCommand /\ users[n] # NoRow
          /\ admin' = QuotaStatement(n, d, w) /\ UNCHANGED has_raw
      BY <1>6 DEF UserSetEnabled
    <2>r. users[n] \in RowType
      BY <1>0, <2>1 DEF TypeOK
    <2>2. row \in RowType
      BY <2>r DEF RowType
    <2> HIDE DEF row
    <2> QED BY <1>0, <1>c, <1>q, <2>1, <2>2, StatementTypes DEF TypeInv, TypeOK
  <1>7. ASSUME NEW n \in Names, NEW d \in OwnLimits \cup {None},
               NEW w \in OwnLimits \cup {None}, UserSetQuota(n, d, w)
        PROVE  TypeInv'
    BY <1>0, <1>7, <1>c, <1>q DEF TypeInv, TypeOK, ConnInv, UserSetQuota, recordVars
  <1> QED BY <1>1, <1>2, <1>3, <1>4, <1>5, <1>6, <1>7 DEF Admin

\* Steps of the login write no table.
LEMMA LoginTypes ==
    ASSUME TypeInv, NEW c \in Conns, NEW r, Known(r), Moves(c, r),
           UNCHANGED recordVars, failures' \in 0 .. MaxFailures
    PROVE  TypeInv'
  <1>1. conn' \in [Conns -> ConnType] /\ ConnInv'
    BY MovesKnown
  <1> QED BY <1>1 DEF TypeInv, TypeOK, Moves, recordVars, adminVars

LEMMA QueryTypes ==
    ASSUME TypeInv, NEW c \in Conns, NEW r, Known(r), Queries(c, r)
    PROVE  TypeInv'
  <1>1. failures' \in 0 .. MaxFailures
    BY DEF TypeInv, TypeOK, Queries
  <1> QED BY <1>1, LoginTypes DEF Queries

LEMMA UnansweredTypes ==
    ASSUME TypeInv, NEW c \in Conns, NEW r, Known(r), Unanswered(c, r)
    PROVE  TypeInv'
  <1> DEFINE s == [r EXCEPT !.stale = TRUE]
  <1>1. failures' \in 0 .. MaxFailures
    BY UserDbAssumption DEF TypeInv, TypeOK, Unanswered, Fails
  <1>2. Known(s)
    BY DEF Known, ConnType
  <1>3. Moves(c, s) /\ UNCHANGED recordVars
    BY DEF Unanswered
  <1> HIDE DEF s
  <1> QED BY <1>1, <1>2, <1>3, LoginTypes

LEMMA GoesKnown ==
    ASSUME TypeInv, NEW c \in Conns, NEW pc \in Tested, conn[c].pc \in Tested
    PROVE  Known([conn[c] EXCEPT !.pc = pc])
  <1>1. Known(conn[c])
    BY DEF TypeInv, ConnInv
  <1> QED BY <1>1 DEF Known, ConnType, Tested, Windows, Login

LEMMA RecordTypes ==
    ASSUME TypeInv, NEW c \in Conns, NEW k \in Keys, Record(c, k)
    PROVE  /\ usage' \in [Keys -> [Days -> [bytes : Nat, tests : Nat]]]
           /\ day' \in [Keys -> [Conns -> Days \cup {None}]]
           /\ UNCHANGED <<unwritten, failures>>
  <1>0. /\ usage \in [Keys -> [Days -> [bytes : Nat, tests : Nat]]]
        /\ day \in [Keys -> [Conns -> Days \cup {None}]]
        /\ conn[c].bytes \in Nat /\ today \in Days
    BY DEF TypeInv, TypeOK, ConnType
  <1> DEFINE row == [bytes |-> usage[k][today].bytes + conn[c].bytes,
                     tests |-> usage[k][today].tests + 1]
  <1>1. row \in [bytes : Nat, tests : Nat]
    <2>1. usage[k][today] \in [bytes : Nat, tests : Nat]
      BY <1>0
    <2> QED BY <1>0, <2>1
  <1>2. usage' = [usage EXCEPT ![k] = [usage[k] EXCEPT ![today] = row]]
    BY DEF Record
  <1> HIDE DEF row
  <1>3. usage' \in [Keys -> [Days -> [bytes : Nat, tests : Nat]]]
    BY <1>0, <1>1, <1>2
  <1>4. day' \in [Keys -> [Conns -> Days \cup {None}]]
    BY <1>0 DEF Record
  <1> QED BY <1>3, <1>4 DEF Record

LEMMA UnwrittenTypes ==
    ASSUME TypeInv, NEW c \in Conns, NEW table \in {"usage", "ip_usage", "sessions"},
           Unwritten(c, table)
    PROVE  /\ unwritten' \subseteq {"usage", "ip_usage", "sessions"} \X Conns
           /\ failures' \in 0 .. MaxFailures
           /\ UNCHANGED <<usage, day>>
  <1>1. failures' \in 0 .. MaxFailures
    BY UserDbAssumption DEF TypeInv, TypeOK, Unwritten, Fails
  <1> QED BY <1>1 DEF TypeInv, TypeOK, Unwritten

LEMMA HandlerTypes ==
    ASSUME TypeInv, SessionInv, NEW c \in Conns, Handler(c)
    PROVE  TypeInv'
  <1> USE UserDbAssumption
  <1>0. TypeOK /\ Known(conn[c])
    BY DEF TypeInv, ConnInv
  <1>1. ASSUME NEW n \in Names, NEW p \in Passwords \cup {Empty}, Present(c, n, p)
        PROVE  TypeInv'
    <2> DEFINE over == users[n] # NoRow /\ OverQuota(n)
               r == [NewConn EXCEPT !.pc = "user", !.name = n, !.password = p,
                                    !.over = over]
    <2>1. over \in BOOLEAN
      OBVIOUS
    <2>2. Queries(c, r)
      BY <1>1 DEF Present
    <2> HIDE DEF over
    <2>3. Known(r)
      BY <2>1 DEF Known, NewConn, ConnType, Login, Tested, Windows
    <2> HIDE DEF r
    <2> QED BY <2>2, <2>3, QueryTypes
  <1>2. CASE GetUser(c)
    <2> DEFINE next == [conn[c] EXCEPT !.pc = "password"]
    <2>1. At(c, "user") /\ (Queries(c, next) \/ Queries(c, Refused))
      BY <1>2 DEF GetUser
    <2>2. Known(next)
      BY <1>0, <2>1 DEF Known, ConnType, At, Login, Tested, Windows
    <2> HIDE DEF next
    <2> QED BY <2>1, <2>2, NewConnKnown, QueryTypes
  <1>3. CASE HandlerFails(c)
    <2>1. failures' \in 0 .. MaxFailures
      BY <1>0, <1>3 DEF TypeOK, HandlerFails, Fails
    <2>2. Moves(c, Refused) /\ UNCHANGED recordVars
      BY <1>3 DEF HandlerFails
    <2> QED BY <2>1, <2>2, NewConnKnown, LoginTypes
  <1>4. CASE GetPassword(c)
    <2>1. At(c, "password") /\ (\/ Queries(c, Refused) \/ Queries(c, Accepted(c))
                                \/ Unanswered(c, Accepted(c)))
      BY <1>4 DEF GetPassword
    <2>2. Known(Accepted(c))
      BY <1>0, <2>1 DEF Known, ConnType, At, Accepted, Login, Tested, Windows
    <2> QED BY <2>1, <2>2, NewConnKnown, QueryTypes, UnansweredTypes
  <1>5. CASE CheckUser(c)
    <2> DEFINE limits == UserLimits(Limits, users[conn[c].name])
    <2>1. /\ At(c, "check")
          /\ \/ Enabled(conn[c].name) /\ Queries(c, Continue(c, limits, Windows))
             \/ Queries(c, Refused)
      BY <1>5 DEF CheckUser
    <2>2. conn[c].name \in Names
      BY <1>0, <2>1 DEF Known, At, Login
    <2>3. Enabled(conn[c].name) => limits \in PerWindow
      <3>1. Enabled(conn[c].name) => users[conn[c].name] \in RowType
        BY <1>0, <2>2 DEF TypeOK, Enabled
      <3> QED BY <3>1, LimitsType
    <2> HIDE DEF limits
    <2> QED BY <2>1, <2>2, <2>3, NewConnKnown, ContinueKnown, QueryTypes DEF TypeInv
  <1>6. ASSUME NEW w \in Windows, CheckWindow(c, w)
        PROVE  TypeInv'
    <2> DEFINE next == Continue(c, conn[c].limits, Later[w])
    <2>1. At(c, w) /\ (Queries(c, Refused) \/ Queries(c, next) \/ Unanswered(c, next))
      BY <1>6 DEF CheckWindow
    <2>2. conn[c].name \in Names /\ conn[c].limits \in PerWindow
      BY <1>0, <2>1 DEF Known, At, Login, Windows
    <2>3. Known(next)
      BY <2>2, ContinueKnown DEF TypeInv
    <2> HIDE DEF next
    <2> QED BY <2>1, <2>3, NewConnKnown, QueryTypes, UnansweredTypes
  <1>7. CASE StartSession(c)
    <2> DEFINE r == [NewConn EXCEPT !.pc = "run", !.name = conn[c].name]
    <2>1. conn[c].name \in Names
      BY <1>0, <1>7 DEF Known, StartSession, At, Login
    <2>2. Known(r)
      BY <2>1 DEF Known, NewConn, ConnType, Login, Tested, Windows
    <2>3. Moves(c, r)
      BY <1>7 DEF StartSession
    <2> HIDE DEF r
    <2>4. conn' \in [Conns -> ConnType] /\ ConnInv'
      BY <2>2, <2>3, MovesKnown
    <2>5. session' \in [Conns -> [name : Names, open : BOOLEAN, bytes : Nat]
                                   \cup {NoRow}]
      BY <1>0, <1>7, <2>1 DEF TypeOK, StartSession
    <2> QED BY <1>0, <1>7, <2>3, <2>4, <2>5
            DEF TypeInv, TypeOK, StartSession, Moves, adminVars
  <1>8. ASSUME NEW b \in Sizes, TestEnds(c, b) \/ EnforcerStops(c, b)
        PROVE  TypeInv'
    <2> DEFINE r == [conn[c] EXCEPT !.pc = "record", !.bytes = b]
    <2>1. At(c, "run") /\ Moves(c, r) /\ UNCHANGED <<recordVars, failures>>
      BY <1>8 DEF TestEnds, EnforcerStops, Joins
    <2>2. Known(r)
      BY <1>0, <2>1 DEF Known, ConnType, At, Login, Tested, Windows
    <2> HIDE DEF r
    <2>3. failures' \in 0 .. MaxFailures
      BY <1>0, <2>1 DEF TypeOK
    <2> QED BY <2>1, <2>2, <2>3, LoginTypes
  <1>9. ASSUME NEW pc \in Tested, Goes(c, pc), conn[c].pc \in Tested
        PROVE  conn' \in [Conns -> ConnType] /\ ConnInv' /\ UNCHANGED <<adminVars, today, lost>>
    <2> DEFINE r == [conn[c] EXCEPT !.pc = pc]
    <2>1. Known(r) /\ Moves(c, r)
      BY <1>9, GoesKnown DEF Goes
    <2> HIDE DEF r
    <2> QED BY <2>1, MovesKnown DEF Moves
  <1>10. CASE RecordUsage(c)
    <2>1. conn[c].pc \in Tested /\ "record_ip" \in Tested /\ conn[c].name \in Keys
      BY <1>0, <1>10 DEF RecordUsage, At, Known, Tested, Keys
    <2>2. conn' \in [Conns -> ConnType] /\ ConnInv' /\ UNCHANGED <<adminVars, today, lost>>
      BY <1>9, <1>10, <2>1 DEF RecordUsage
    <2>3. (Record(c, conn[c].name) \/ Unwritten(c, "usage")) /\ session' = session
      BY <1>10 DEF RecordUsage
    <2> QED BY <1>0, <2>1, <2>2, <2>3, RecordTypes, UnwrittenTypes
            DEF TypeInv, TypeOK, adminVars
  <1>11. CASE RecordIpUsage(c)
    <2>1. conn[c].pc \in Tested /\ "end" \in Tested /\ Ip \in Keys
      BY <1>11 DEF RecordIpUsage, At, Tested, Keys
    <2>2. conn' \in [Conns -> ConnType] /\ ConnInv' /\ UNCHANGED <<adminVars, today, lost>>
      BY <1>9, <1>11, <2>1 DEF RecordIpUsage
    <2>3. (Record(c, Ip) \/ Unwritten(c, "ip_usage")) /\ session' = session
      BY <1>11 DEF RecordIpUsage
    <2> QED BY <1>0, <2>1, <2>2, <2>3, RecordTypes, UnwrittenTypes
            DEF TypeInv, TypeOK, adminVars
  <1>12. CASE EndSession(c)
    <2>1. conn[c].pc \in Tested /\ "done" \in Tested /\ conn[c].bytes \in Nat
      BY <1>0, <1>12 DEF EndSession, At, Tested, Known, ConnType
    <2>2. conn' \in [Conns -> ConnType] /\ ConnInv' /\ UNCHANGED <<adminVars, today, lost>>
      BY <1>9, <1>12, <2>1 DEF EndSession
    <2>3. CASE Unwritten(c, "sessions") /\ session' = session
      BY <1>0, <2>2, <2>3, UnwrittenTypes DEF TypeInv, TypeOK, adminVars
    <2>4. CASE /\ session' = [session EXCEPT ![c].open = FALSE, ![c].bytes = conn[c].bytes]
               /\ UNCHANGED <<usage, day, unwritten, failures>>
      <3>1. session[c] \in [name : Names, open : BOOLEAN, bytes : Nat]
        BY <1>0, <2>1 DEF SessionInv, SessionOf, TypeOK
      <3> DEFINE row == [session[c] EXCEPT !.open = FALSE, !.bytes = conn[c].bytes]
      <3>2. row \in [name : Names, open : BOOLEAN, bytes : Nat]
        BY <2>1, <3>1
      <3>3. session' = [session EXCEPT ![c] = row]
        BY <1>0, <2>4 DEF TypeOK
      <3> HIDE DEF row
      <3>4. session' \in [Conns -> [name : Names, open : BOOLEAN, bytes : Nat]
                                     \cup {NoRow}]
        BY <1>0, <3>2, <3>3 DEF TypeOK
      <3> QED BY <1>0, <2>2, <2>4, <3>4 DEF TypeInv, TypeOK, adminVars
    <2> QED BY <1>12, <2>3, <2>4 DEF EndSession
  <1> QED BY <1>1, <1>2, <1>3, <1>4, <1>5, <1>6, <1>7, <1>8, <1>10, <1>11, <1>12
          DEF Handler

LEMMA NextTypes == TypeInv /\ SessionInv /\ [Next]_vars => TypeInv'
  <1> SUFFICES ASSUME TypeInv, SessionInv, [Next]_vars PROVE TypeInv'
    OBVIOUS
  <1>0. TypeOK
    BY DEF TypeInv
  <1>1. CASE Crash
    <2> DEFINE gone == [NewConn EXCEPT !.pc = "gone"]
    <2>1. Known(gone)
      BY DEF Known, NewConn, ConnType, Login, Tested, Windows
    <2>2. conn' = [c \in Conns |-> IF conn[c].pc \in Login THEN gone ELSE conn[c]]
      BY <1>1 DEF Crash
    <2> HIDE DEF gone
    <2>3. conn' \in [Conns -> ConnType] /\ ConnInv'
      BY <2>1, <2>2 DEF TypeInv, ConnInv, Known
    <2> QED BY <1>0, <1>1, <2>3 DEF TypeInv, TypeOK, Crash, adminVars, recordVars
  <1>2. CASE NextDay
    <2>1. conn' \in [Conns -> ConnType] /\ ConnInv'
      BY <1>2, TouchedKnown DEF NextDay
    <2>2. today' \in Days
      BY <1>0, <1>2, UserDbAssumption DEF TypeOK, NextDay, Days
    <2> QED BY <1>0, <1>2, <2>1, <2>2 DEF TypeInv, TypeOK, NextDay, adminVars, recordVars
  <1>3. CASE UNCHANGED vars
    BY <1>0, <1>3 DEF TypeInv, TypeOK, ConnInv, vars, adminVars, recordVars
  <1> QED BY <1>1, <1>2, <1>3, HandlerTypes, AdminTypes DEF Next

-----------------------------------------------------------------------------
(* The records of a test *)

LEMMA InitSessions == Init => SessionInv
  BY DEF Init, SessionInv, SessionOf, NewConn, Tested

\* Records are never taken back.
LEMMA KeptSession ==
    ASSUME TypeInv, NEW c \in Conns, SessionOf(c),
           session'[c] = session[c],
           conn'[c].pc = conn[c].pc, conn'[c].name = conn[c].name,
           conn'[c].bytes = conn[c].bytes,
           \A k \in Keys : day[k][c] # None => day'[k][c] # None,
           unwritten \subseteq unwritten'
    PROVE  SessionOf(c)'
  <1>1. Ip \in Keys /\ (session[c] # NoRow => session[c].name \in Keys)
    BY DEF TypeInv, TypeOK, Keys
  <1> QED BY <1>1 DEF SessionOf, Charged

\* A connection without a test has no row.
LEMMA NoSession ==
    ASSUME NEW c \in Conns, SessionOf(c),
           session'[c] = session[c], conn[c].pc \notin Tested, conn'[c].pc \notin Tested
    PROVE  SessionOf(c)'
  BY DEF SessionOf

LEMMA TouchedSessions ==
    ASSUME TypeInv, SessionInv, NEW S, Touched(S), UNCHANGED <<session, day, unwritten>>
    PROVE  SessionInv'
  <1> SUFFICES ASSUME NEW c \in Conns PROVE SessionOf(c)'
    BY DEF SessionInv
  <1>1. conn[c] \in ConnType /\ SessionOf(c)
    BY DEF TypeInv, TypeOK, SessionInv
  <1> DEFINE s == conn[c].stale \/ (conn[c].pc \in Login /\ conn[c].name \in S)
  <1>2. conn'[c] = [conn[c] EXCEPT !.stale = s]
    BY DEF Touched
  <1> HIDE DEF s
  <1>3. conn'[c].pc = conn[c].pc /\ conn'[c].name = conn[c].name
        /\ conn'[c].bytes = conn[c].bytes
    BY <1>1, <1>2 DEF ConnType
  <1> QED BY <1>1, <1>3, KeptSession

LEMMA AdminSessions == TypeInv /\ SessionInv /\ Admin => SessionInv'
  <1> SUFFICES ASSUME TypeInv, SessionInv, Admin PROVE SessionInv'
    OBVIOUS
  <1>1. \/ \E S : Touched(S)
        \/ UNCHANGED conn
    BY DEF Admin, InsertUser, SetUserQuota, CommandFails, AddColumn, UserDel,
           UserSetEnabled, UserSetQuota, Statement
  <1>2. UNCHANGED <<session, day, unwritten>>
    BY DEF Admin, InsertUser, SetUserQuota, CommandFails, AddColumn, UserDel,
           UserSetEnabled, UserSetQuota, Statement, recordVars
  <1>3. CASE UNCHANGED conn
    BY <1>2, <1>3 DEF SessionInv, SessionOf, Charged
  <1> QED BY <1>1, <1>2, <1>3, TouchedSessions

\* The handler of c changes nothing that belongs to another connection.
LEMMA OtherSessions ==
    ASSUME TypeInv, SessionInv, NEW c \in Conns, NEW r, Moves(c, r), NEW d \in Conns, d # c,
           session'[d] = session[d],
           \A k \in Keys : day[k][d] # None => day'[k][d] # None,
           unwritten \subseteq unwritten'
    PROVE  SessionOf(d)'
  <1>1. conn'[d] = conn[d] /\ SessionOf(d)
    BY DEF TypeInv, TypeOK, Moves, SessionInv
  <1> QED BY <1>1, KeptSession

\* A step of c's handler, seen from the other connections.
LEMMA OwnSession ==
    ASSUME TypeInv, SessionInv, NEW c \in Conns, NEW r, Moves(c, r),
           \A d \in Conns \ {c} : session'[d] = session[d],
           \A d \in Conns \ {c} : \A k \in Keys : day[k][d] # None => day'[k][d] # None,
           unwritten \subseteq unwritten',
           SessionOf(c)'
    PROVE  SessionInv'
  BY OtherSessions DEF SessionInv

\* A record is made for c only, on a date.
LEMMA RecordDay ==
    ASSUME TypeInv, NEW c \in Conns, NEW k \in Keys, Record(c, k)
    PROVE  /\ day'[k][c] # None
           /\ \A d \in Conns, j \in Keys : day[j][d] # None => day'[j][d] # None
           /\ unwritten' = unwritten
  <1>1. day \in [Keys -> [Conns -> Days \cup {None}]] /\ today \in Days
    BY DEF TypeInv, TypeOK
  <1>2. today # None
    BY <1>1, UserDbAssumption DEF Days
  <1> QED BY <1>1, <1>2 DEF Record

LEMMA HandlerSessions ==
    ASSUME TypeInv, SessionInv, NEW c \in Conns, Handler(c)
    PROVE  SessionInv'
  <1>0. TypeOK /\ Known(conn[c]) /\ SessionOf(c)
    BY DEF TypeInv, ConnInv, SessionInv
  <1>a. ASSUME NEW r, Moves(c, r)
        PROVE  conn'[c] = r
    BY <1>0, <1>a DEF TypeOK, Moves
  <1>1. ASSUME NEW r, Moves(c, r), UNCHANGED recordVars,
               conn[c].pc \notin Tested, r.pc \notin Tested
        PROVE  SessionInv'
    <2>1. SessionOf(c)'
      BY <1>0, <1>1, <1>a, NoSession DEF recordVars
    <2> QED BY <1>1, <2>1, OwnSession DEF recordVars
  <1>2. ASSUME NEW pc \in Login, At(c, pc)
        PROVE  conn[c].pc \notin Tested
    BY <1>2 DEF At, Login, Tested
  <1>3. ASSUME NEW n \in Names, NEW p \in Passwords \cup {Empty}, Present(c, n, p)
        PROVE  SessionInv'
    <2> DEFINE over == users[n] # NoRow /\ OverQuota(n)
               r == [NewConn EXCEPT !.pc = "user", !.name = n, !.password = p,
                                    !.over = over]
    <2>1. Moves(c, r) /\ UNCHANGED recordVars /\ conn[c].pc \notin Tested
      BY <1>3 DEF Present, Queries, At, Tested
    <2> HIDE DEF over
    <2>2. r.pc \notin Tested
      BY DEF NewConn, Tested
    <2> HIDE DEF r
    <2> QED BY <1>1, <2>1, <2>2
  <1>4. CASE GetUser(c) \/ HandlerFails(c) \/ GetPassword(c) \/ CheckUser(c)
             \/ \E w \in Windows : CheckWindow(c, w)
    <2>1. conn[c].pc \in Login
      BY <1>4 DEF GetUser, HandlerFails, GetPassword, CheckUser, CheckWindow, At, Login,
                  Windows
    <2>2. conn[c].pc \notin Tested /\ UNCHANGED recordVars
      BY <1>4, <2>1 DEF GetUser, HandlerFails, GetPassword, CheckUser, CheckWindow,
                        Queries, Unanswered, Login, Tested
    <2>3. conn[c] \in ConnType
      BY <1>0 DEF Known
    <2>4. \A limits, S : Continue(c, limits, S).pc \notin Tested
      <3> SUFFICES ASSUME NEW limits, NEW S
                   PROVE  Continue(c, limits, S).pc \notin Tested
        OBVIOUS
      <3> DEFINE next == NextCheck(limits, S)
      <3>1. next \in {"daily", "weekly", "monthly", "start"}
        BY DEF NextCheck
      <3>2. Continue(c, limits, S) =
              [conn[c] EXCEPT !.pc = next,
                              !.limits = IF next = "start" THEN None ELSE limits]
        BY DEF Continue
      <3> HIDE DEF next
      <3> QED BY <2>3, <3>1, <3>2 DEF ConnType, Tested
    <2>5. /\ Refused.pc \notin Tested
          /\ Accepted(c).pc \notin Tested
          /\ [conn[c] EXCEPT !.pc = "password"].pc \notin Tested
      BY <2>3 DEF Refused, NewConn, Accepted, ConnType, Tested
    <2>6. \E r : Moves(c, r) /\ r.pc \notin Tested
      <3>1. ASSUME NEW r, r.pc \notin Tested, Known(r), Unanswered(c, r)
            PROVE  \E q : Moves(c, q) /\ q.pc \notin Tested
        <4>1. [r EXCEPT !.stale = TRUE].pc = r.pc
          BY <3>1 DEF Known, ConnType
        <4> QED BY <3>1, <4>1 DEF Unanswered
      <3>2. ASSUME NEW r, r.pc \notin Tested, Queries(c, r)
            PROVE  \E q : Moves(c, q) /\ q.pc \notin Tested
        BY <3>2 DEF Queries
      <3>3. CASE GetUser(c)
        BY <2>5, <3>2, <3>3 DEF GetUser
      <3>4. CASE HandlerFails(c)
        BY <2>5, <3>4 DEF HandlerFails
      <3>5. CASE GetPassword(c)
        <4>1. Known(Accepted(c))
          BY <1>0, <3>5 DEF Known, ConnType, At, Accepted, Login, Tested, Windows,
                            GetPassword
        <4> QED BY <2>5, <3>1, <3>2, <3>5, <4>1 DEF GetPassword
      <3>6. CASE CheckUser(c)
        BY <2>4, <2>5, <3>2, <3>6 DEF CheckUser
      <3>7. ASSUME NEW w \in Windows, CheckWindow(c, w)
            PROVE  \E q : Moves(c, q) /\ q.pc \notin Tested
        <4> DEFINE next == Continue(c, conn[c].limits, Later[w])
        <4>1. At(c, w) /\ (Queries(c, Refused) \/ Queries(c, next) \/ Unanswered(c, next))
          BY <3>7 DEF CheckWindow
        <4>2. conn[c].name \in Names /\ conn[c].limits \in PerWindow
          BY <1>0, <4>1 DEF Known, At, Login, Windows
        <4>3. Known(next) /\ next.pc \notin Tested
          BY <2>4, <4>2, ContinueKnown DEF TypeInv
        <4> HIDE DEF next
        <4> QED BY <2>5, <3>1, <3>2, <4>1, <4>3
      <3> QED BY <1>4, <3>3, <3>4, <3>5, <3>6, <3>7
    <2> QED BY <1>1, <2>2, <2>6
  <1>5. CASE StartSession(c)
    <2> DEFINE r == [NewConn EXCEPT !.pc = "run", !.name = conn[c].name]
               row == [name |-> conn[c].name, open |-> TRUE, bytes |-> 0]
    <2>1. /\ Moves(c, r) /\ session' = [session EXCEPT ![c] = row]
          /\ UNCHANGED <<unwritten, day>>
      BY <1>5 DEF StartSession
    <2>2. row \in [name : Names, open : BOOLEAN, bytes : Nat]
      BY <1>0, <1>5 DEF Known, StartSession, At, Login
    <2>3. row # NoRow /\ row.open = TRUE /\ row.name = conn[c].name
      BY <2>2, UserDbAssumption
    <2>4. r.pc = "run" /\ r.name = conn[c].name
      BY DEF NewConn
    <2>5. conn'[c] = r
      BY <1>a, <2>1
    <2> HIDE DEF r, row
    <2>6. session'[c] = row
      BY <1>0, <2>1 DEF TypeOK
    <2>7. SessionOf(c)'
      BY <2>3, <2>4, <2>5, <2>6 DEF SessionOf, Tested
    <2> QED BY <1>0, <2>1, <2>7, OwnSession DEF TypeOK
  <1>6. ASSUME NEW b \in Sizes, TestEnds(c, b) \/ EnforcerStops(c, b)
        PROVE  SessionInv'
    <2> DEFINE r == [conn[c] EXCEPT !.pc = "record", !.bytes = b]
    <2>1. At(c, "run") /\ Moves(c, r) /\ UNCHANGED <<session, unwritten, day>>
      BY <1>6 DEF TestEnds, EnforcerStops, Joins, recordVars
    <2>2. r.pc = "record" /\ r.name = conn[c].name
      BY <1>0 DEF Known, ConnType
    <2>3. conn'[c] = r
      BY <1>a, <2>1
    <2> HIDE DEF r
    <2>4. SessionOf(c)'
      BY <1>0, <2>1, <2>2, <2>3 DEF SessionOf, At, Tested
    <2> QED BY <2>1, <2>4, OwnSession
  <1>7. ASSUME NEW pc \in Tested, Goes(c, pc)
        PROVE  \E r : /\ Moves(c, r) /\ conn'[c] = r /\ r.pc = pc
                      /\ r.name = conn[c].name /\ r.bytes = conn[c].bytes
    <2> DEFINE r == [conn[c] EXCEPT !.pc = pc]
    <2>1. Moves(c, r)
      BY <1>7 DEF Goes
    <2>2. r.pc = pc /\ r.name = conn[c].name /\ r.bytes = conn[c].bytes
      BY <1>0 DEF Known, ConnType
    <2> HIDE DEF r
    <2> QED BY <1>a, <2>1, <2>2
  <1>8. ASSUME NEW table \in {"usage", "ip_usage", "sessions"}, Unwritten(c, table)
        PROVE  UNCHANGED day /\ unwritten' = unwritten \cup {<<table, c>>}
    BY <1>8 DEF Unwritten
  <1>9. CASE RecordUsage(c)
    <2>1. PICK r : /\ Moves(c, r) /\ conn'[c] = r /\ r.pc = "record_ip"
                   /\ r.name = conn[c].name /\ r.bytes = conn[c].bytes
      BY <1>7, <1>9 DEF RecordUsage, Tested
    <2>2. conn[c].pc = "record" /\ session' = session /\ conn[c].name \in Keys
      BY <1>0, <1>9 DEF RecordUsage, At, Known, Tested, Keys
    <2>3. session[c] # NoRow /\ session[c].name = conn[c].name /\ session[c].open
      BY <1>0, <2>2 DEF SessionOf, Tested
    <2>4. /\ Charged(conn[c].name, "usage", c)'
          /\ \A d \in Conns, j \in Keys : day[j][d] # None => day'[j][d] # None
          /\ unwritten \subseteq unwritten'
      <3>1. CASE Record(c, conn[c].name)
        <4>1. day'[conn[c].name][c] # None
          BY <2>2, <3>1, RecordDay
        <4>2. conn'[c].name = conn[c].name
          BY <2>1
        <4> QED BY <2>2, <3>1, <4>1, <4>2, RecordDay DEF Charged
      <3>2. CASE Unwritten(c, "usage")
        BY <1>8, <3>2 DEF Charged
      <3> QED BY <1>9, <3>1, <3>2 DEF RecordUsage
    <2>5. SessionOf(c)'
      BY <2>1, <2>2, <2>3, <2>4 DEF SessionOf, Tested
    <2> QED BY <2>1, <2>2, <2>4, <2>5, OwnSession
  <1>10. CASE RecordIpUsage(c)
    <2>1. PICK r : /\ Moves(c, r) /\ conn'[c] = r /\ r.pc = "end"
                   /\ r.name = conn[c].name /\ r.bytes = conn[c].bytes
      BY <1>7, <1>10 DEF RecordIpUsage, Tested
    <2>2. conn[c].pc = "record_ip" /\ session' = session /\ Ip \in Keys
          /\ conn[c].name \in Keys
      BY <1>0, <1>10 DEF RecordIpUsage, At, Known, Tested, Keys
    <2>3. session[c] # NoRow /\ session[c].name = conn[c].name /\ session[c].open
          /\ Charged(session[c].name, "usage", c)
      BY <1>0, <2>2 DEF SessionOf, Tested
    <2>4. /\ Charged(Ip, "ip_usage", c)'
          /\ \A d \in Conns, j \in Keys : day[j][d] # None => day'[j][d] # None
          /\ unwritten \subseteq unwritten'
      <3>1. CASE Record(c, Ip)
        BY <2>2, <3>1, RecordDay DEF Charged
      <3>2. CASE Unwritten(c, "ip_usage")
        BY <1>8, <3>2 DEF Charged
      <3> QED BY <1>10, <3>1, <3>2 DEF RecordIpUsage
    <2>5. Charged(session[c].name, "usage", c)'
      BY <2>2, <2>3, <2>4 DEF Charged
    <2>6. SessionOf(c)'
      BY <2>1, <2>2, <2>3, <2>4, <2>5 DEF SessionOf, Tested
    <2> QED BY <2>1, <2>2, <2>4, <2>6, OwnSession
  <1>11. CASE EndSession(c)
    <2>1. PICK r : /\ Moves(c, r) /\ conn'[c] = r /\ r.pc = "done"
                   /\ r.name = conn[c].name /\ r.bytes = conn[c].bytes
      BY <1>7, <1>11 DEF EndSession, Tested
    <2>2. conn[c].pc = "end"
      BY <1>11 DEF EndSession, At
    <2>3. session[c] # NoRow /\ session[c].name = conn[c].name
          /\ Charged(session[c].name, "usage", c) /\ Charged(Ip, "ip_usage", c)
      BY <1>0, <2>2 DEF SessionOf, Tested
    <2>4. CASE Unwritten(c, "sessions") /\ session' = session
      <3>1. UNCHANGED day /\ unwritten' = unwritten \cup {<<"sessions", c>>}
        BY <1>8, <2>4
      <3>2. Charged(session[c].name, "usage", c)' /\ Charged(Ip, "ip_usage", c)'
        BY <2>3, <2>4, <3>1 DEF Charged
      <3>3. session[c].open
        BY <1>0, <2>2, <2>3 DEF SessionOf
      <3>4. SessionOf(c)'
        BY <2>1, <2>3, <2>4, <3>1, <3>2, <3>3 DEF SessionOf, Tested
      <3> QED BY <2>1, <2>4, <3>1, <3>4, OwnSession
    <2>5. CASE /\ session' = [session EXCEPT ![c].open = FALSE, ![c].bytes = conn[c].bytes]
               /\ UNCHANGED <<usage, day, unwritten, failures>>
      <3> DEFINE row == [session[c] EXCEPT !.open = FALSE, !.bytes = conn[c].bytes]
      <3>1. session[c] \in [name : Names, open : BOOLEAN, bytes : Nat]
            /\ conn[c].bytes \in Nat
        BY <1>0, <2>3 DEF TypeOK, Known, ConnType
      <3>2. session' = [session EXCEPT ![c] = row]
        BY <1>0, <2>5 DEF TypeOK
      <3>3. row \in [name : Names, open : BOOLEAN, bytes : Nat]
            /\ row.open = FALSE /\ row.bytes = conn[c].bytes /\ row.name = session[c].name
        BY <3>1
      <3> HIDE DEF row
      <3>4. session'[c] = row /\ row # NoRow
        BY <1>0, <3>2, <3>3, UserDbAssumption DEF TypeOK
      <3>5. Charged(session[c].name, "usage", c)' /\ Charged(Ip, "ip_usage", c)'
        BY <2>3, <2>5, <3>3, <3>4 DEF Charged
      <3>6. SessionOf(c)'
        BY <2>1, <2>3, <3>3, <3>4, <3>5 DEF SessionOf, Tested
      <3>7. \A d \in Conns \ {c} : session'[d] = session[d]
        BY <1>0, <3>2 DEF TypeOK
      <3> QED BY <2>1, <2>5, <3>6, <3>7, OwnSession
    <2> QED BY <1>11, <2>4, <2>5 DEF EndSession
  <1> QED BY <1>3, <1>4, <1>5, <1>6, <1>9, <1>10, <1>11 DEF Handler

LEMMA NextSessions == TypeInv /\ SessionInv /\ [Next]_vars => SessionInv'
  <1> SUFFICES ASSUME TypeInv, SessionInv, [Next]_vars PROVE SessionInv'
    OBVIOUS
  <1>1. CASE Crash
    <2> SUFFICES ASSUME NEW c \in Conns PROVE SessionOf(c)'
      BY DEF SessionInv
    <2>1. UNCHANGED <<session, day, unwritten>> /\ SessionOf(c)
      BY <1>1 DEF Crash, recordVars, SessionInv
    <2>2. CASE conn[c].pc \in Login
      <3> DEFINE gone == [NewConn EXCEPT !.pc = "gone"]
      <3>1. conn'[c] = gone
        BY <1>1, <2>2 DEF Crash
      <3>2. gone.pc \notin Tested
        BY DEF NewConn, Tested
      <3>3. conn[c].pc \notin Tested
        BY <2>2 DEF Login, Tested
      <3> HIDE DEF gone
      <3> QED BY <2>1, <3>1, <3>2, <3>3, NoSession
    <2>3. CASE conn[c].pc \notin Login
      <3>1. conn'[c] = conn[c]
        BY <1>1, <2>3 DEF Crash
      <3> QED BY <2>1, <3>1, KeptSession
    <2> QED BY <2>2, <2>3
  <1>2. CASE NextDay
    BY <1>2, TouchedSessions DEF NextDay, recordVars
  <1>3. CASE UNCHANGED vars
    BY <1>3 DEF vars, recordVars, SessionInv, SessionOf, Charged
  <1> QED BY <1>1, <1>2, <1>3, HandlerSessions, AdminSessions DEF Next

\* Every variable keeps its type through commands, days, failed statements and crashes.
THEOREM TypeCorrect == Spec => []TypeOK
  <1>1. TypeInv => TypeOK
    BY DEF TypeInv
  <1> QED BY <1>1, InitTypes, NextTypes, InitSessions, NextSessions, PTL DEF Spec

\* However many users, connections and days there are, wherever statements fail and
\* the server dies: a row of sessions is open until its test is over, and a closed one
\* holds the bytes of a test that was charged to user and address.
THEOREM SessionsClosedHolds == Spec => []SessionsClosed
  <1>1. SessionInv => SessionsClosed
    BY DEF SessionInv, SessionOf, SessionsClosed, Charged
  <1> QED BY <1>1, InitTypes, NextTypes, InitSessions, NextSessions, PTL DEF Spec

-----------------------------------------------------------------------------
(* The login *)

\* The row of n holds the password of the user, or none, and is enabled for a
\* connection between the two queries of its login unless a command came between.
RowOK(n) ==
    /\ users[n] # NoRow => users[n].raw \in {users[n].password, Empty}
    /\ \A c \in Conns : conn[c].pc = "password" /\ conn[c].name = n
                          => conn[c].stale \/ Enabled(n)

LoginInv == \A n \in Names : RowOK(n)

LEMMA InitLogin == Init => LoginInv
  <1> SUFFICES ASSUME Init, NEW n \in Names PROVE RowOK(n)
    BY DEF LoginInv
  <1>1. \A c \in Conns : conn[c].pc = "idle"
    BY DEF Init, NewConn
  <1>2. users[n] # NoRow => users[n].raw \in {users[n].password, Empty}
    BY DEF Init
  <1> QED BY <1>1, <1>2 DEF RowOK

\* Touched(S) only makes logins of S stale.
LEMMA TouchedConn ==
    ASSUME TypeInv, NEW S, Touched(S), NEW c \in Conns
    PROVE  /\ conn'[c].pc = conn[c].pc /\ conn'[c].name = conn[c].name
           /\ conn'[c].stale = \/ conn[c].stale
                               \/ conn[c].pc \in Login /\ conn[c].name \in S
  <1>1. conn[c] \in ConnType
    BY DEF TypeInv, TypeOK
  <1> DEFINE s == conn[c].stale \/ (conn[c].pc \in Login /\ conn[c].name \in S)
  <1>2. conn'[c] = [conn[c] EXCEPT !.stale = s]
    BY DEF Touched
  <1>3. s = (conn[c].stale \/ (conn[c].pc \in Login /\ conn[c].name \in S))
    OBVIOUS
  <1> HIDE DEF s
  <1>4. conn'[c].pc = conn[c].pc /\ conn'[c].name = conn[c].name /\ conn'[c].stale = s
    BY <1>1, <1>2 DEF ConnType
  <1> QED BY <1>3, <1>4

LEMMA StatementLogin ==
    ASSUME TypeInv, LoginInv, NEW n \in Names, NEW row, Statement(n, row),
           row # NoRow => row.raw \in {row.password, Empty}
    PROVE  LoginInv'
  <1> SUFFICES ASSUME NEW m \in Names PROVE RowOK(m)'
    BY DEF LoginInv
  <1>1. /\ users' = [users EXCEPT ![n] = row] /\ Touched({n})
        /\ users \in [Names -> RowType \cup {NoRow}]
    BY DEF Statement, TypeInv, TypeOK
  <1>2. "password" \in Login
    BY DEF Login
  <1>3. CASE m = n
    <2>1. users'[m] = row
      BY <1>1, <1>3
    <2>2. \A c \in Conns : conn'[c].pc = "password" /\ conn'[c].name = m
                             => conn'[c].stale
      <3> SUFFICES ASSUME NEW c \in Conns, conn'[c].pc = "password", conn'[c].name = m
                   PROVE  conn'[c].stale
        OBVIOUS
      <3>1. /\ conn'[c].pc = conn[c].pc /\ conn'[c].name = conn[c].name
            /\ conn'[c].stale = \/ conn[c].stale
                                \/ conn[c].pc \in Login /\ conn[c].name \in {n}
        BY <1>1, TouchedConn
      <3>2. conn[c].pc \in Login /\ conn[c].name \in {n}
        BY <1>2, <1>3, <3>1
      <3> QED BY <3>1, <3>2, Zenon
    <2> QED BY <2>1, <2>2 DEF RowOK
  <1>4. CASE m # n
    <2>1. users'[m] = users[m]
      BY <1>1, <1>4
    <2>2. \A c \in Conns : /\ conn'[c].pc = conn[c].pc /\ conn'[c].name = conn[c].name
                           /\ conn[c].stale => conn'[c].stale
      BY <1>1, TouchedConn
    <2> QED BY <2>1, <2>2 DEF LoginInv, RowOK, Enabled
  <1> QED BY <1>3, <1>4

LEMMA AdminLogin == TypeInv /\ LoginInv /\ Admin => LoginInv'
  <1> SUFFICES ASSUME TypeInv, LoginInv, Admin PROVE LoginInv'
    OBVIOUS
  <1>0. TypeOK
    BY DEF TypeInv
  <1>1. CASE InsertUser
    <2>1. admin.name \in Names
      BY <1>0, <1>1 DEF TypeOK, CommandType, InsertUser
    <2> DEFINE row == [password |-> admin.password, raw |-> admin.password,
                       daily |-> 0, weekly |-> 0, enabled |-> TRUE]
    <2>2. Statement(admin.name, row)
      BY <1>1 DEF InsertUser
    <2>3. row.raw = row.password
      OBVIOUS
    <2> HIDE DEF row
    <2> QED BY <2>1, <2>2, <2>3, StatementLogin
  <1>2. CASE SetUserQuota
    <2>1. admin.name \in Names
      BY <1>0, <1>2 DEF TypeOK, CommandType, SetUserQuota
    <2> DEFINE row == IF users[admin.name] = NoRow THEN NoRow
                      ELSE [users[admin.name] EXCEPT !.daily = admin.daily,
                                                     !.weekly = admin.weekly]
    <2>2. Statement(admin.name, row)
      BY <1>2 DEF SetUserQuota
    <2>3. row # NoRow => row.raw \in {row.password, Empty}
      <3>1. CASE users[admin.name] = NoRow
        BY <3>1
      <3>2. CASE users[admin.name] # NoRow
        <4>1. users[admin.name] \in RowType
              /\ users[admin.name].raw \in {users[admin.name].password, Empty}
          BY <1>0, <2>1, <3>2 DEF TypeOK, LoginInv, RowOK
        <4> QED BY <3>2, <4>1 DEF RowType
      <3> QED BY <3>1, <3>2
    <2> HIDE DEF row
    <2> QED BY <2>1, <2>2, <2>3, StatementLogin
  <1>3. ASSUME NEW n \in Names, UserDel(n)
        PROVE  LoginInv'
    BY <1>3, StatementLogin DEF UserDel
  <1>4. ASSUME NEW n \in Names, NEW e \in BOOLEAN, NEW d, NEW w, UserSetEnabled(n, e, d, w)
        PROVE  LoginInv'
    <2> DEFINE row == [users[n] EXCEPT !.enabled = e]
    <2>1. Statement(n, row) /\ users[n] # NoRow
      BY <1>4 DEF UserSetEnabled
    <2>2. row.raw \in {row.password, Empty}
      BY <1>0, <2>1 DEF TypeOK, RowType, LoginInv, RowOK
    <2> HIDE DEF row
    <2> QED BY <2>1, <2>2, StatementLogin
  <1>5. ASSUME NEW n \in Names, NEW p \in Passwords, AddColumn(n, p)
        PROVE  LoginInv'
    <2>1. UNCHANGED users /\ Touched(IF has_raw THEN {} ELSE Names)
      BY <1>5 DEF AddColumn
    <2>2. \A c \in Conns : /\ conn'[c].pc = conn[c].pc /\ conn'[c].name = conn[c].name
                           /\ conn[c].stale => conn'[c].stale
      BY <2>1, TouchedConn
    <2> QED BY <2>1, <2>2 DEF LoginInv, RowOK, Enabled
  <1>6. CASE UNCHANGED <<users, conn>>
    BY <1>6 DEF LoginInv, RowOK, Enabled
  <1> QED BY <1>1, <1>2, <1>3, <1>4, <1>5, <1>6
          DEF Admin, CommandFails, UserSetQuota

\* Where a step of c's handler leads: to the second query only from the first one.
LEMMA HandlerMoves ==
    ASSUME TypeInv, NEW c \in Conns, Handler(c)
    PROVE  /\ UNCHANGED users
           /\ \A d \in Conns \ {c} : conn'[d] = conn[d]
           /\ conn'[c].pc = "password" => Enabled(conn'[c].name)
           /\ conn[c].pc = "password" => GetPassword(c)
  <1>0. TypeOK /\ Known(conn[c]) /\ conn[c] \in ConnType
    BY DEF TypeInv, ConnInv, Known
  <1>1. ASSUME NEW r, Moves(c, r)
        PROVE  conn'[c] = r /\ UNCHANGED users /\ \A d \in Conns \ {c} : conn'[d] = conn[d]
    BY <1>0, <1>1 DEF TypeOK, Moves, adminVars
  <1>2. ASSUME NEW n \in Names, NEW p \in Passwords \cup {Empty}, Present(c, n, p)
        PROVE  \E r : Moves(c, r) /\ r.pc # "password"
    <2> DEFINE over == users[n] # NoRow /\ OverQuota(n)
               r == [NewConn EXCEPT !.pc = "user", !.name = n, !.password = p,
                                    !.over = over]
    <2>1. Moves(c, r)
      BY <1>2 DEF Present, Queries
    <2> HIDE DEF over
    <2>2. r.pc # "password"
      BY DEF NewConn
    <2> HIDE DEF r
    <2> QED BY <2>1, <2>2
  <1>3. Refused.pc # "password" /\ Accepted(c).pc # "password"
    BY <1>0 DEF Refused, NewConn, Accepted, ConnType
  <1>4. ASSUME NEW limits, NEW S
        PROVE  Continue(c, limits, S).pc # "password"
    <2> DEFINE next == NextCheck(limits, S)
    <2>1. next \in {"daily", "weekly", "monthly", "start"}
      BY DEF NextCheck
    <2>2. Continue(c, limits, S) =
            [conn[c] EXCEPT !.pc = next,
                            !.limits = IF next = "start" THEN None ELSE limits]
      BY DEF Continue
    <2> HIDE DEF next
    <2> QED BY <1>0, <2>1, <2>2 DEF ConnType
  <1>5. ASSUME NEW r, r.pc # "password", Known(r), Unanswered(c, r)
        PROVE  \E q : Moves(c, q) /\ q.pc # "password"
    <2>1. [r EXCEPT !.stale = TRUE].pc = r.pc
      BY <1>5 DEF Known, ConnType
    <2> QED BY <1>5, <2>1 DEF Unanswered
  <1>6. CASE GetUser(c)
    <2> DEFINE next == [conn[c] EXCEPT !.pc = "password"]
    <2>1. \/ Enabled(conn[c].name) /\ Moves(c, next)
          \/ Moves(c, Refused)
      BY <1>6 DEF GetUser, Queries
    <2>2. next.name = conn[c].name
      BY <1>0 DEF ConnType
    <2> HIDE DEF next
    <2>3. UNCHANGED users /\ \A d \in Conns \ {c} : conn'[d] = conn[d]
      BY <1>1, <2>1
    <2>4. conn'[c].pc = "password" => Enabled(conn'[c].name)
      BY <1>1, <1>3, <2>1, <2>2
    <2> QED BY <1>6, <2>3, <2>4 DEF GetUser, At
  <1>7. CASE ~GetUser(c)
    <2>1. \E r : Moves(c, r) /\ r.pc # "password"
      <3>1. CASE HandlerFails(c)
        BY <1>3, <3>1 DEF HandlerFails
      <3>2. CASE GetPassword(c)
        <4>1. Known(Accepted(c))
          BY <1>0, <3>2 DEF Known, ConnType, At, Accepted, Login, Tested, Windows,
                            GetPassword
        <4> QED BY <1>3, <1>5, <3>2, <4>1 DEF GetPassword, Queries
      <3>3. CASE CheckUser(c)
        BY <1>3, <1>4, <3>3 DEF CheckUser, Queries
      <3>4. ASSUME NEW w \in Windows, CheckWindow(c, w)
            PROVE  \E r : Moves(c, r) /\ r.pc # "password"
        <4> DEFINE next == Continue(c, conn[c].limits, Later[w])
        <4>1. At(c, w) /\ (Queries(c, Refused) \/ Queries(c, next) \/ Unanswered(c, next))
          BY <3>4 DEF CheckWindow
        <4>2. conn[c].name \in Names /\ conn[c].limits \in PerWindow
          BY <1>0, <4>1 DEF Known, At, Login, Windows
        <4>3. Known(next) /\ next.pc # "password"
          BY <1>4, <4>2, ContinueKnown DEF TypeInv
        <4> HIDE DEF next
        <4> QED BY <1>3, <1>5, <4>1, <4>3 DEF Queries
      <3>5. CASE StartSession(c)
        <4> DEFINE r == [NewConn EXCEPT !.pc = "run", !.name = conn[c].name]
        <4>1. Moves(c, r)
          BY <3>5 DEF StartSession
        <4>2. r.pc # "password"
          BY DEF NewConn
        <4> HIDE DEF r
        <4> QED BY <4>1, <4>2
      <3>6. ASSUME NEW b \in Sizes, TestEnds(c, b) \/ EnforcerStops(c, b)
            PROVE  \E r : Moves(c, r) /\ r.pc # "password"
        <4> DEFINE r == [conn[c] EXCEPT !.pc = "record", !.bytes = b]
        <4>1. Moves(c, r)
          BY <3>6 DEF TestEnds, EnforcerStops, Joins
        <4>2. r.pc # "password"
          BY <1>0 DEF ConnType
        <4> HIDE DEF r
        <4> QED BY <4>1, <4>2
      <3>7. ASSUME NEW pc \in {"record_ip", "end", "done"}, Goes(c, pc)
            PROVE  \E r : Moves(c, r) /\ r.pc # "password"
        <4> DEFINE r == [conn[c] EXCEPT !.pc = pc]
        <4>1. Moves(c, r)
          BY <3>7 DEF Goes
        <4>2. r.pc # "password"
          BY <1>0 DEF ConnType
        <4> HIDE DEF r
        <4> QED BY <4>1, <4>2
      <3>8. CASE RecordUsage(c) \/ RecordIpUsage(c) \/ EndSession(c)
        BY <3>7, <3>8 DEF RecordUsage, RecordIpUsage, EndSession
      <3> QED BY <1>2, <1>7, <3>1, <3>2, <3>3, <3>4, <3>5, <3>6, <3>8 DEF Handler
    <2>2. conn'[c].pc # "password"
      BY <1>1, <2>1
    <2>3. UNCHANGED users /\ \A d \in Conns \ {c} : conn'[d] = conn[d]
      BY <1>1, <2>1
    <2>4. conn[c].pc = "password" => GetPassword(c)
      BY DEF Handler, Present, GetUser, HandlerFails, CheckUser, CheckWindow, StartSession,
             TestEnds, EnforcerStops, RecordUsage, RecordIpUsage, EndSession, At, Windows
    <2> QED BY <2>2, <2>3, <2>4
  <1> QED BY <1>6, <1>7

LEMMA NextLogin == TypeInv /\ LoginInv /\ [Next]_vars => LoginInv'
  <1> SUFFICES ASSUME TypeInv, LoginInv, [Next]_vars PROVE LoginInv'
    OBVIOUS
  <1>1. ASSUME NEW c \in Conns, Handler(c)
        PROVE  LoginInv'
    <2>1. /\ UNCHANGED users
          /\ \A d \in Conns \ {c} : conn'[d] = conn[d]
          /\ conn'[c].pc = "password" => Enabled(conn'[c].name)
      BY <1>1, HandlerMoves
    <2> QED BY <2>1 DEF LoginInv, RowOK, Enabled
  <1>2. CASE Crash
    <2> DEFINE gone == [NewConn EXCEPT !.pc = "gone"]
    <2>1. gone.pc # "password"
      BY DEF NewConn
    <2>2. conn' = [c \in Conns |-> IF conn[c].pc \in Login THEN gone ELSE conn[c]]
          /\ UNCHANGED users
      BY <1>2 DEF Crash, adminVars
    <2> HIDE DEF gone
    <2> QED BY <2>1, <2>2 DEF LoginInv, RowOK, Enabled
  <1>3. CASE NextDay
    <2>1. Touched(Names) /\ UNCHANGED users
      BY <1>3 DEF NextDay, adminVars
    <2>2. \A c \in Conns : /\ conn'[c].pc = conn[c].pc /\ conn'[c].name = conn[c].name
                           /\ conn[c].stale => conn'[c].stale
      BY <2>1, TouchedConn
    <2> QED BY <2>1, <2>2 DEF LoginInv, RowOK, Enabled
  <1>4. CASE UNCHANGED vars
    BY <1>4 DEF vars, adminVars, LoginInv, RowOK, Enabled
  <1> QED BY <1>1, <1>2, <1>3, <1>4, AdminLogin DEF Next

LEMMA NextAnswers ==
    TypeInv /\ LoginInv /\ [Next]_vars => [\A c \in Conns : LoginAnswer(c)]_vars
  <1> SUFFICES ASSUME TypeInv, LoginInv, Next, NEW c \in Conns,
                      conn[c].pc = "password", ~conn'[c].stale
               PROVE  LET n == conn[c].name
                          row == users[n]
                      IN  /\ conn'[c].pc = "check" =>
                               Enabled(n) /\ (has_raw => row.raw = conn[c].password)
                          /\ conn'[c].pc = "refused" =>
                               conn[c].password # row.password \/ row.raw = Empty
    BY DEF LoginAnswer
  <1>0. TypeOK /\ Known(conn[c]) /\ conn[c] \in ConnType /\ conn[c].name \in Names
    BY DEF TypeInv, ConnInv, Known, Login
  <1>1. CASE Handler(c)
    <2>1. GetPassword(c)
      BY <1>1, HandlerMoves
    <2>2. \A r : Moves(c, r) => conn'[c] = r
      BY <1>0 DEF TypeOK, Moves
    <2>3. ~Unanswered(c, Accepted(c))
      <3> SUFFICES ASSUME Unanswered(c, Accepted(c)) PROVE FALSE
        OBVIOUS
      <3> DEFINE r == [Accepted(c) EXCEPT !.stale = TRUE]
      <3>1. Moves(c, r)
        BY DEF Unanswered
      <3>2. r.stale = TRUE
        BY <1>0 DEF Accepted, ConnType
      <3> HIDE DEF r
      <3> QED BY <2>2, <3>1, <3>2
    <2> DEFINE wrong == /\ has_raw /\ Enabled(conn[c].name)
                        /\ users[conn[c].name].raw # conn[c].password
    <2>4. Moves(c, IF wrong THEN Refused ELSE Accepted(c))
      BY <2>1, <2>3 DEF GetPassword, Queries
    <2>5. conn'[c] = IF wrong THEN Refused ELSE Accepted(c)
      BY <2>2, <2>4
    <2>6. Refused.pc = "refused" /\ Accepted(c).pc = "check"
          /\ Accepted(c).stale = conn[c].stale
      BY <1>0 DEF Refused, NewConn, Accepted, ConnType
    <2>7. CASE wrong
      <3>1. conn'[c].pc = "refused"
        BY <2>5, <2>6, <2>7
      <3>2. users[conn[c].name].raw \in {users[conn[c].name].password, Empty}
        BY <1>0, <2>7 DEF LoginInv, RowOK, Enabled
      <3> QED BY <2>7, <3>1, <3>2
    <2>8. CASE ~wrong
      <3>1. conn'[c].pc = "check" /\ conn'[c].stale = conn[c].stale
        BY <2>5, <2>6, <2>8
      <3>2. Enabled(conn[c].name)
        BY <1>0, <3>1 DEF LoginInv, RowOK
      <3> QED BY <2>8, <3>1, <3>2
    <2> QED BY <2>7, <2>8
  <1>2. CASE conn'[c].pc \notin {"check", "refused"}
    BY <1>2
  <1>3. ASSUME NEW d \in Conns, d # c, Handler(d)
        PROVE  conn'[c].pc \notin {"check", "refused"}
    <2>1. conn'[c] = conn[c]
      BY <1>3, HandlerMoves
    <2> QED BY <2>1
  <1>4. CASE Admin \/ NextDay
    <2>1. (\E S : Touched(S)) \/ UNCHANGED conn
      BY <1>4 DEF Admin, InsertUser, SetUserQuota, CommandFails, AddColumn, UserDel,
                  UserSetEnabled, UserSetQuota, Statement, NextDay
    <2>2. conn'[c].pc = conn[c].pc
      BY <2>1, TouchedConn
    <2> QED BY <1>2, <2>2
  <1>5. CASE Crash
    <2> DEFINE gone == [NewConn EXCEPT !.pc = "gone"]
    <2>1. gone.pc = "gone"
      BY DEF NewConn
    <2>2. conn'[c] = gone
      BY <1>5 DEF Crash, Login
    <2> HIDE DEF gone
    <2> QED BY <1>2, <2>1, <2>2
  <1> QED BY <1>1, <1>2, <1>3, <1>4, <1>5 DEF Next

\* The answer of every login is that of one look at the account, unless a command
\* changed the account between its two queries or the second one failed.
THEOREM LoginExactHolds == Spec => LoginExact
  BY InitTypes, NextTypes, InitSessions, NextSessions, InitLogin, NextLogin, NextAnswers,
     PTL DEF Spec, LoginExact


-----------------------------------------------------------------------------
(* Usage.  The invariant speaks of every set of days at once: a window that  *)
(* moves with the date is then only another set.                            *)

RecordedIn(k, W) == {c \in Recorded(k) : day[k][c] \in W}

BytesOn(k, W) == SumOf([d \in W |-> usage[k][d].bytes])

BytesOf(R) == SumOf([c \in R |-> conn[c].bytes])

TestsOf(k) == SumOf([d \in Days |-> usage[k][d].tests])

SumsExact(k) ==
    /\ IsFiniteSet(Recorded(k))
    /\ \A W \in SUBSET Days : BytesOn(k, W) = BytesOf(RecordedIn(k, W))
    /\ TestsOf(k) = Cardinality(Recorded(k))

\* Where the handler of a test is when the user, and the address, are charged.
Late == {"record_ip", "end", "done"}
Last == {"end", "done"}

\* A record is made once, not after today, and its bytes are final.
RecordedOnce ==
    \A k \in Keys, c \in Conns :
      day[k][c] # None => /\ day[k][c] <= today
                          /\ conn[c].pc \in Late
                          /\ k = Ip => conn[c].pc \in Last

UsageInv == RecordedOnce /\ \A k \in Keys : SumsExact(k)

\* The days of the model are finitely many.
LEMMA FiniteDays ==
    ASSUME NEW W \in SUBSET Days
    PROVE  IsFiniteSet(W)
  <1>1. IsFiniteSet(0 .. LastDay)
    BY UserDbAssumption, FS_Interval
  <1> QED BY <1>1, FS_Subset DEF Days

LEMMA InitUsage == Init => UsageInv
  <1> SUFFICES ASSUME Init PROVE UsageInv
    OBVIOUS
  <1>1. \A k \in Keys, c \in Conns : day[k][c] = None
    BY DEF Init
  <1>2. ASSUME NEW k \in Keys PROVE SumsExact(k)
    <2>1. Recorded(k) = {} /\ \A W : RecordedIn(k, W) = {}
      BY <1>1 DEF Recorded, RecordedIn
    <2>2. IsFiniteSet({}) /\ Cardinality({}) = 0
      BY FS_EmptySet
    <2>3. BytesOf({}) = 0
      BY SumOfEmpty DEF BytesOf
    <2>4. \A d \in Days : usage[k][d].bytes = 0 /\ usage[k][d].tests = 0
      BY DEF Init, EmptyRow
    <2>5. ASSUME NEW W \in SUBSET Days PROVE BytesOn(k, W) = 0
      <3>1. [d \in W |-> usage[k][d].bytes] = [d \in W |-> 0]
        BY <2>4
      <3>2. SumOf([d \in W |-> 0]) = 0
        BY FiniteDays, SumOfZeros
      <3> QED BY <3>1, <3>2 DEF BytesOn
    <2>6. TestsOf(k) = 0
      <3>1. [d \in Days |-> usage[k][d].tests] = [d \in Days |-> 0]
        BY <2>4
      <3>2. SumOf([d \in Days |-> 0]) = 0
        BY FiniteDays, SumOfZeros
      <3> QED BY <3>1, <3>2 DEF TestsOf
    <2> QED BY <2>1, <2>2, <2>3, <2>5, <2>6 DEF SumsExact
  <1> QED BY <1>1, <1>2 DEF UsageInv, RecordedOnce

\* The values of the days in W, and the same after n was added on day t.
OnDays(u, W) == [d \in W |-> u[d]]
DayAdded(u, W, t, n) == [d \in W |-> IF d = t THEN u[d] + n ELSE u[d]]

\* A day's value grows: so does the sum over every set of days it belongs to.
LEMMA DayGrows ==
    ASSUME NEW W \in SUBSET Days, NEW t \in Days, NEW n \in Nat,
           NEW u \in [Days -> Nat]
    PROVE  SumOf(DayAdded(u, W, t, n)) = SumOf(OnDays(u, W)) + (IF t \in W THEN n ELSE 0)
  <1> DEFINE f == OnDays(u, W)
             g == DayAdded(u, W, t, n)
  <1>0. IsFiniteSet(W) /\ f \in [W -> Nat] /\ g \in [W -> Nat]
    BY FiniteDays DEF OnDays, DayAdded
  <1>s. SumOf(f) \in Nat
    <2> HIDE DEF f
    <2> QED BY <1>0, SumOfType
  <1>1. CASE t \notin W
    <2>1. g = f
      BY <1>1 DEF OnDays, DayAdded
    <2> HIDE DEF f, g
    <2>2. SumOf(g) = SumOf(f) + 0
      BY <1>s, <2>1
    <2> QED BY <1>1, <2>2 DEF f, g
  <1>2. CASE t \in W
    <2>1. OneChanged(f, g, W, t) /\ g[t] = f[t] + n /\ f[t] \in Nat
      BY <1>0, <1>2 DEF OneChanged, OnDays, DayAdded
    <2> HIDE DEF f, g
    <2>2. SumOf(g) = SumOf(f) - f[t] + g[t]
      BY <2>1, SumOfChange
    <2>3. SumOf(g) = SumOf(f) + n
      BY <1>s, <2>1, <2>2
    <2> QED BY <1>2, <2>3 DEF f, g
  <1> QED BY <1>1, <1>2

\* One more connection contributes its bytes.
LEMMA ConnCounted ==
    ASSUME NEW R \in SUBSET Conns, IsFiniteSet(R), NEW c \in Conns, c \notin R,
           NEW b \in [Conns -> Nat]
    PROVE  SumOf([x \in R \cup {c} |-> b[x]]) = SumOf([x \in R |-> b[x]]) + b[c]
  <1> DEFINE f == [x \in R |-> b[x]]
             g == [x \in R \cup {c} |-> b[x]]
  <1>1. OneMore(f, g, R, c) /\ g[c] = b[c]
    BY DEF OneMore
  <1> HIDE DEF f, g
  <1>2. SumOf(g) = SumOf(f) + g[c]
    BY <1>1, SumOfAdd
  <1>3. SumOf(g) = SumOf(f) + b[c]
    BY <1>1, <1>2
  <1> QED BY <1>3 DEF f, g

\* A key nobody is charged to in this step.
LEMMA SumsKept ==
    ASSUME NEW k \in Keys, SumsExact(k), usage'[k] = usage[k], day'[k] = day[k],
           \A c \in Recorded(k) : conn'[c].bytes = conn[c].bytes
    PROVE  SumsExact(k)'
  <1>1. Recorded(k)' = Recorded(k)
    BY DEF Recorded
  <1>2. ASSUME NEW W \in SUBSET Days PROVE BytesOn(k, W)' = BytesOf(RecordedIn(k, W))'
    <2>1. RecordedIn(k, W)' = RecordedIn(k, W) /\ RecordedIn(k, W) \subseteq Recorded(k)
      BY <1>1 DEF RecordedIn
    <2>2. [c \in RecordedIn(k, W)' |-> conn'[c].bytes]
            = [c \in RecordedIn(k, W) |-> conn[c].bytes]
      BY <2>1
    <2>3. BytesOf(RecordedIn(k, W))' = BytesOf(RecordedIn(k, W))
      BY <2>2 DEF BytesOf
    <2>4. BytesOn(k, W)' = BytesOn(k, W)
      BY DEF BytesOn
    <2> QED BY <2>3, <2>4 DEF SumsExact
  <1>3. TestsOf(k)' = TestsOf(k)
    BY DEF TestsOf
  <1>4. IsFiniteSet(Recorded(k))' /\ Cardinality(Recorded(k))' = Cardinality(Recorded(k))
    BY <1>1 DEF SumsExact
  <1> QED BY <1>2, <1>3, <1>4 DEF SumsExact

\* The record of a test adds its bytes to the row of today, and the test to the
\* tests of that key.
LEMMA SumsGrow ==
    ASSUME TypeInv, NEW c \in Conns, NEW k \in Keys, Record(c, k), SumsExact(k),
           day[k][c] = None, today' = today,
           \A x \in Recorded(k) \cup {c} : conn'[x].bytes = conn[x].bytes
    PROVE  SumsExact(k)'
  <1>0. /\ usage \in [Keys -> [Days -> [bytes : Nat, tests : Nat]]]
        /\ day \in [Keys -> [Conns -> Days \cup {None}]]
        /\ today \in Days /\ today # None /\ conn \in [Conns -> ConnType]
    BY UserDbAssumption DEF TypeInv, TypeOK, Days
  <1> DEFINE R == Recorded(k)
             n == conn[c].bytes
             u == [d \in Days |-> usage[k][d].bytes]
             m == [d \in Days |-> usage[k][d].tests]
             b == [x \in Conns |-> conn[x].bytes]
  <1>1. /\ u \in [Days -> Nat] /\ m \in [Days -> Nat] /\ b \in [Conns -> Nat]
        /\ n \in Nat /\ b[c] = n
    BY <1>0 DEF ConnType
  <1>2. IsFiniteSet(R) /\ c \notin R /\ R \subseteq Conns
    BY DEF SumsExact, Recorded
  <1>3. /\ day'[k] = [day[k] EXCEPT ![c] = today]
        /\ \A d \in Days : /\ usage'[k][d].bytes = IF d = today THEN u[d] + n ELSE u[d]
                           /\ usage'[k][d].tests = IF d = today THEN m[d] + 1 ELSE m[d]
    BY <1>0 DEF Record
  <1>4. Recorded(k)' = R \cup {c}
    BY <1>0, <1>3 DEF Recorded
  <1>5. IsFiniteSet(Recorded(k))' /\ Cardinality(Recorded(k))' = Cardinality(R) + 1
    BY <1>2, <1>4, FS_AddElement
  <1>6. TestsOf(k)' = TestsOf(k) + 1
    <2>1. [d \in Days |-> usage'[k][d].tests] = DayAdded(m, Days, today, 1)
      BY <1>3 DEF DayAdded
    <2>2. [d \in Days |-> usage[k][d].tests] = OnDays(m, Days)
      BY DEF OnDays
    <2> HIDE DEF m
    <2>3. SumOf(DayAdded(m, Days, today, 1))
            = SumOf(OnDays(m, Days)) + (IF today \in Days THEN 1 ELSE 0)
      BY <1>0, <1>1, DayGrows
    <2> QED BY <1>0, <2>1, <2>2, <2>3 DEF TestsOf
  <1>7. ASSUME NEW W \in SUBSET Days PROVE BytesOn(k, W)' = BytesOf(RecordedIn(k, W))'
    <2> DEFINE S == RecordedIn(k, W)
    <2>1. BytesOn(k, W)' = BytesOn(k, W) + (IF today \in W THEN n ELSE 0)
      <3>1. [d \in W |-> usage'[k][d].bytes] = DayAdded(u, W, today, n)
        BY <1>3 DEF DayAdded
      <3>2. [d \in W |-> usage[k][d].bytes] = OnDays(u, W)
        BY DEF OnDays
      <3>t. today \in Days /\ n \in Nat /\ u \in [Days -> Nat]
        BY <1>0, <1>1
      <3> HIDE DEF u, n
      <3>3. SumOf(DayAdded(u, W, today, n))
              = SumOf(OnDays(u, W)) + (IF today \in W THEN n ELSE 0)
        BY <3>t, DayGrows
      <3> QED BY <3>1, <3>2, <3>3 DEF BytesOn
    <2>2. S \subseteq R /\ IsFiniteSet(S) /\ c \notin S
      BY <1>2, FS_Subset DEF RecordedIn
    <2>3. RecordedIn(k, W)' = IF today \in W THEN S \cup {c} ELSE S
      BY <1>0, <1>2, <1>3, <1>4 DEF RecordedIn
    <2>b. \A x \in S \cup {c} : conn'[x].bytes = b[x] /\ conn[x].bytes = b[x]
      BY <1>2, <2>2
    <2> HIDE DEF S, b, n, R
    <2>4. BytesOf(S) = SumOf([x \in S |-> b[x]])
      <3>1. [x \in S |-> conn[x].bytes] = [x \in S |-> b[x]]
        BY <2>b
      <3> QED BY <3>1 DEF BytesOf
    <2>5. CASE today \in W
      <3>1. [x \in S \cup {c} |-> conn'[x].bytes] = [x \in S \cup {c} |-> b[x]]
        BY <2>b
      <3>2. BytesOf(RecordedIn(k, W))' = SumOf([x \in S \cup {c} |-> b[x]])
        BY <2>3, <2>5, <3>1 DEF BytesOf
      <3>3. SumOf([x \in S \cup {c} |-> b[x]]) = SumOf([x \in S |-> b[x]]) + b[c]
        BY <1>1, <1>2, <2>2, ConnCounted
      <3>4. BytesOn(k, W) = BytesOf(S)
        BY DEF SumsExact, S
      <3>5. BytesOn(k, W)' = BytesOn(k, W) + n
        BY <2>1, <2>5
      <3>6. BytesOn(k, W)' = SumOf([x \in S |-> b[x]]) + b[c]
        BY <1>1, <2>4, <3>4, <3>5
      <3> QED BY <3>2, <3>3, <3>6
    <2>6. CASE today \notin W
      <3>1. [x \in S |-> conn'[x].bytes] = [x \in S |-> b[x]]
        BY <2>b
      <3>2. BytesOf(RecordedIn(k, W))' = SumOf([x \in S |-> b[x]])
        BY <2>3, <2>6, <3>1 DEF BytesOf
      <3>4. BytesOn(k, W) = BytesOf(S)
        BY DEF SumsExact, S
      <3>5. SumOf([x \in S |-> b[x]]) \in Nat
        <4>1. [x \in S |-> b[x]] \in [S -> Nat]
          BY <1>1, <1>2, <2>2
        <4> QED BY <2>2, <4>1, SumOfType
      <3> QED BY <2>1, <2>4, <2>6, <3>2, <3>4, <3>5
    <2> QED BY <2>5, <2>6
  <1> HIDE DEF R
  <1> QED BY <1>5, <1>6, <1>7 DEF SumsExact, R

\* What a step leaves of a test whose records have begun.
KeepsLate(c) ==
    /\ conn[c].pc \in Late => conn'[c].bytes = conn[c].bytes /\ conn'[c].pc \in Late
    /\ conn[c].pc \in Last => conn'[c].pc \in Last

\* The two steps that write usage.
Recording(c) ==
    /\ conn'[c].bytes = conn[c].bytes
    /\ \/ /\ conn[c].pc = "record" /\ conn'[c].pc = "record_ip"
          /\ conn[c].name \in Names
          /\ Record(c, conn[c].name)
       \/ conn[c].pc = "record_ip" /\ conn'[c].pc = "end" /\ Record(c, Ip)

LEMMA GoesTo ==
    ASSUME TypeInv, NEW c \in Conns, NEW pc, Goes(c, pc)
    PROVE  /\ conn'[c].pc = pc /\ conn'[c].bytes = conn[c].bytes
           /\ conn'[c].name = conn[c].name
  <1> DEFINE r == [conn[c] EXCEPT !.pc = pc]
  <1>1. conn[c] \in ConnType /\ conn' = [conn EXCEPT ![c] = r] /\ conn \in [Conns -> ConnType]
    BY DEF TypeInv, TypeOK, Goes, Moves
  <1>2. r.pc = pc /\ r.bytes = conn[c].bytes /\ r.name = conn[c].name
    BY <1>1 DEF ConnType
  <1> HIDE DEF r
  <1> QED BY <1>1, <1>2

LEMMA HandlerRecords ==
    ASSUME TypeInv, NEW c \in Conns, Handler(c)
    PROVE  /\ today' = today
           /\ \A d \in Conns : KeepsLate(d)
           /\ UNCHANGED <<usage, day>> \/ Recording(c)
  <1>0. Known(conn[c]) /\ \A d \in Conns \ {c} : conn'[d] = conn[d]
    BY HandlerMoves DEF TypeInv, ConnInv
  <1>m. today' = today
    BY DEF Handler, Present, GetUser, HandlerFails, GetPassword, CheckUser, CheckWindow,
           StartSession, TestEnds, EnforcerStops, RecordUsage, RecordIpUsage, EndSession,
           Joins, Goes, Queries, Unanswered, Moves
  <1>1. conn[c].pc \in Late => RecordIpUsage(c) \/ EndSession(c)
    BY DEF Handler, Present, GetUser, HandlerFails, GetPassword, CheckUser, CheckWindow,
           StartSession, TestEnds, EnforcerStops, RecordUsage, At, Late, Windows
  <1>2. KeepsLate(c)
    <2>1. CASE conn[c].pc \notin Late
      BY <2>1 DEF KeepsLate, Late, Last
    <2>2. CASE RecordIpUsage(c)
      <3>1. conn'[c].pc = "end" /\ conn'[c].bytes = conn[c].bytes
        BY <2>2, GoesTo DEF RecordIpUsage
      <3> QED BY <3>1 DEF KeepsLate, Late, Last
    <2>3. CASE EndSession(c)
      <3>1. conn'[c].pc = "done" /\ conn'[c].bytes = conn[c].bytes
        BY <2>3, GoesTo DEF EndSession
      <3> QED BY <3>1 DEF KeepsLate, Late, Last
    <2> QED BY <1>1, <2>1, <2>2, <2>3
  <1>3. \A d \in Conns : KeepsLate(d)
    BY <1>0, <1>2 DEF KeepsLate
  <1>4. UNCHANGED <<usage, day>> \/ Recording(c)
    <2>1. CASE RecordUsage(c)
      <3>1. conn'[c].pc = "record_ip" /\ conn'[c].bytes = conn[c].bytes
        BY <2>1, GoesTo DEF RecordUsage
      <3>2. conn[c].pc = "record" /\ conn[c].name \in Names
        BY <1>0, <2>1 DEF RecordUsage, At, Known, Tested
      <3>3. Record(c, conn[c].name) \/ UNCHANGED <<usage, day>>
        BY <2>1 DEF RecordUsage, Unwritten
      <3> QED BY <3>1, <3>2, <3>3 DEF Recording
    <2>2. CASE RecordIpUsage(c)
      <3>1. conn'[c].pc = "end" /\ conn'[c].bytes = conn[c].bytes
        BY <2>2, GoesTo DEF RecordIpUsage
      <3>2. conn[c].pc = "record_ip"
        BY <2>2 DEF RecordIpUsage, At
      <3>3. Record(c, Ip) \/ UNCHANGED <<usage, day>>
        BY <2>2 DEF RecordIpUsage, Unwritten
      <3> QED BY <3>1, <3>2, <3>3 DEF Recording
    <2>3. CASE ~(RecordUsage(c) \/ RecordIpUsage(c))
      BY <2>3 DEF Handler, Present, GetUser, HandlerFails, GetPassword, CheckUser, CheckWindow,
           StartSession, TestEnds, EnforcerStops, EndSession, Unwritten,
           Joins, Queries, Unanswered, recordVars
    <2> QED BY <2>1, <2>2, <2>3
  <1> QED BY <1>m, <1>3, <1>4

\* Commands, crashes and midnight write no usage and move no date backwards.
LEMMA OthersRecord ==
    ASSUME TypeInv, Admin \/ Crash \/ NextDay \/ UNCHANGED vars
    PROVE  /\ today <= today'
           /\ \A d \in Conns : KeepsLate(d)
           /\ UNCHANGED <<usage, day>>
  <1>0. TypeOK
    BY DEF TypeInv
  <1>t. today \in Nat
    BY <1>0, UserDbAssumption DEF TypeOK, Days
  <1>1. CASE Admin \/ NextDay
    <2>1. (\E S : Touched(S)) \/ UNCHANGED conn
      BY <1>1 DEF Admin, InsertUser, SetUserQuota, CommandFails, AddColumn, UserDel,
                  UserSetEnabled, UserSetQuota, Statement, NextDay
    <2>2. today' \in {today, today + 1} /\ UNCHANGED <<usage, day>>
      BY <1>1 DEF Admin, InsertUser, SetUserQuota, CommandFails, AddColumn, UserDel,
                  UserSetEnabled, UserSetQuota, Statement, NextDay, recordVars
    <2>3. ASSUME NEW d \in Conns PROVE conn'[d].pc = conn[d].pc /\ conn'[d].bytes = conn[d].bytes
      <3>1. CASE UNCHANGED conn
        BY <3>1
      <3>2. ASSUME NEW S, Touched(S) PROVE conn'[d].pc = conn[d].pc /\ conn'[d].bytes = conn[d].bytes
        <4> DEFINE s == conn[d].stale \/ (conn[d].pc \in Login /\ conn[d].name \in S)
        <4>1. conn'[d] = [conn[d] EXCEPT !.stale = s]
          BY <3>2 DEF Touched
        <4> HIDE DEF s
        <4> QED BY <1>0, <4>1 DEF TypeOK, ConnType
      <3> QED BY <2>1, <3>1, <3>2
    <2> QED BY <1>t, <2>2, <2>3 DEF KeepsLate
  <1>2. CASE Crash
    <2>1. \A d \in Conns : conn[d].pc \in Late \cup Last => conn'[d] = conn[d]
      BY <1>2 DEF Crash, Login, Late, Last
    <2>2. UNCHANGED <<usage, day, today>>
      BY <1>2 DEF Crash, recordVars
    <2> QED BY <1>t, <2>1, <2>2 DEF KeepsLate
  <1>3. CASE UNCHANGED vars
    BY <1>t, <1>3 DEF vars, recordVars, KeepsLate
  <1> QED BY <1>1, <1>2, <1>3

\* A test whose bytes are recorded for k keeps them.
LEMMA RecordedKept ==
    ASSUME RecordedOnce, \A d \in Conns : KeepsLate(d), NEW k \in Keys
    PROVE  \A c \in Recorded(k) : conn'[c].bytes = conn[c].bytes
  BY DEF RecordedOnce, KeepsLate, Recorded

LEMMA NextUsage == TypeInv /\ SessionInv /\ UsageInv /\ [Next]_vars => UsageInv'
  <1> SUFFICES ASSUME TypeInv, SessionInv, UsageInv, [Next]_vars PROVE UsageInv'
    OBVIOUS
  <1>0. TypeOK /\ TypeOK' /\ RecordedOnce /\ \A k \in Keys : SumsExact(k)
    BY NextTypes DEF TypeInv, UsageInv
  <1>n. \A k \in Keys, c \in Conns : day[k][c] # None => day[k][c] \in Nat
    BY <1>0, UserDbAssumption DEF TypeOK, Days
  <1>t. today \in Nat /\ today' \in Nat /\ Ip \notin Names /\ Ip \in Keys /\ Names \subseteq Keys
    BY <1>0, UserDbAssumption DEF TypeOK, Days, Keys
  <1>1. ASSUME UNCHANGED <<usage, day>>, today <= today', \A d \in Conns : KeepsLate(d)
        PROVE  UsageInv'
    <2>1. RecordedOnce'
      <3> SUFFICES ASSUME NEW k \in Keys, NEW c \in Conns, day'[k][c] # None
                   PROVE  /\ day'[k][c] <= today' /\ conn'[c].pc \in Late
                          /\ k = Ip => conn'[c].pc \in Last
        BY DEF RecordedOnce
      <3>1. /\ day[k][c] # None /\ day'[k][c] = day[k][c] /\ day[k][c] <= today
            /\ conn[c].pc \in Late /\ (k = Ip => conn[c].pc \in Last)
        BY <1>0, <1>1 DEF RecordedOnce
      <3>2. day[k][c] \in Nat
        BY <1>n, <3>1
      <3>3. day'[k][c] <= today'
        BY <1>1, <1>t, <3>1, <3>2
      <3> QED BY <1>1, <3>1, <3>3 DEF KeepsLate
    <2>2. \A k \in Keys : SumsExact(k)'
      BY <1>0, <1>1, RecordedKept, SumsKept
    <2> QED BY <2>1, <2>2 DEF UsageInv
  <1>2. ASSUME NEW c \in Conns, NEW k \in Keys, Record(c, k), day[k][c] = None,
               today' = today, \A d \in Conns : KeepsLate(d),
               conn'[c].bytes = conn[c].bytes, conn'[c].pc \in Late,
               k = Ip => conn'[c].pc \in Last
        PROVE  UsageInv'
    <2>1. \A j \in Keys, x \in Conns :
            day'[j][x] = IF j = k /\ x = c THEN today ELSE day[j][x]
      BY <1>0, <1>2 DEF Record, TypeOK
    <2>2. \A j \in Keys \ {k} : usage'[j] = usage[j] /\ day'[j] = day[j]
      BY <1>0, <1>2 DEF Record, TypeOK
    <2>3. RecordedOnce'
      <3> SUFFICES ASSUME NEW j \in Keys, NEW x \in Conns, day'[j][x] # None
                   PROVE  /\ day'[j][x] <= today' /\ conn'[x].pc \in Late
                          /\ j = Ip => conn'[x].pc \in Last
        BY DEF RecordedOnce
      <3>1. CASE j = k /\ x = c
        <4>1. day'[j][x] = today /\ today <= today'
          BY <1>2, <1>t, <2>1, <3>1
        <4> QED BY <1>2, <3>1, <4>1
      <3>2. CASE ~(j = k /\ x = c)
        <4>1. day'[j][x] = day[j][x]
          BY <2>1, <3>2
        <4>2. /\ day[j][x] <= today /\ conn[x].pc \in Late /\ (j = Ip => conn[x].pc \in Last)
          BY <1>0, <4>1 DEF RecordedOnce
        <4> QED BY <1>2, <4>1, <4>2 DEF KeepsLate
      <3> QED BY <3>1, <3>2
    <2>4. \A j \in Keys : \A x \in Recorded(j) : conn'[x].bytes = conn[x].bytes
      BY <1>0, <1>2, RecordedKept
    <2>5. \A j \in Keys \ {k} : SumsExact(j)'
      BY <1>0, <2>2, <2>4, SumsKept
    <2>6. SumsExact(k)'
      BY <1>0, <1>2, <2>4, SumsGrow
    <2> QED BY <2>3, <2>5, <2>6 DEF UsageInv
  <1>3. ASSUME NEW c \in Conns, Handler(c) PROVE UsageInv'
    <2>1. /\ today' = today /\ \A d \in Conns : KeepsLate(d)
          /\ UNCHANGED <<usage, day>> \/ Recording(c)
      BY <1>3, HandlerRecords
    <2>2. CASE UNCHANGED <<usage, day>>
      BY <1>1, <1>t, <2>1, <2>2
    <2>3. CASE /\ conn[c].pc = "record" /\ conn'[c].pc = "record_ip"
               /\ conn[c].name \in Names /\ Record(c, conn[c].name)
               /\ conn'[c].bytes = conn[c].bytes
      <3>1. day[conn[c].name][c] = None /\ conn[c].name # Ip /\ conn[c].name \in Keys
        BY <1>0, <1>t, <2>3 DEF RecordedOnce, Late
      <3> QED BY <1>2, <2>1, <2>3, <3>1 DEF Late
    <2>4. CASE /\ conn[c].pc = "record_ip" /\ conn'[c].pc = "end" /\ Record(c, Ip)
               /\ conn'[c].bytes = conn[c].bytes
      <3>1. day[Ip][c] = None
        BY <1>0, <1>t, <2>4 DEF RecordedOnce, Last
      <3> QED BY <1>2, <1>t, <2>1, <2>4, <3>1 DEF Late, Last
    <2> QED BY <2>1, <2>2, <2>3, <2>4 DEF Recording
  <1>4. CASE Admin \/ Crash \/ NextDay \/ UNCHANGED vars
    BY <1>1, <1>4, OthersRecord
  <1> QED BY <1>3, <1>4 DEF Next

\* However many users, tests and days there are: the usage a window reports is the
\* sum of the tests recorded in it, each once (get_weekly_usage and its likes,
\* record_usage, record_ip_usage).
THEOREM WindowsExactHolds == Spec => []WindowsExact
  <1>1. TypeInv /\ UsageInv => WindowsExact
    <2> SUFFICES ASSUME TypeInv, UsageInv, NEW k \in Keys
                 PROVE  /\ \A w \in Windows : get_usage(k, w) =
                             SumOf([c \in {c \in Recorded(k) : today - day[k][c] <= Span[w]}
                                      |-> conn[c].bytes])
                        /\ SumOf([d \in Days |-> usage[k][d].tests]) = Cardinality(Recorded(k))
      BY DEF WindowsExact
    <2>0. TypeOK /\ RecordedOnce /\ SumsExact(k)
      BY DEF TypeInv, UsageInv
    <2>1. ASSUME NEW w \in Windows
          PROVE  get_usage(k, w) =
                   SumOf([c \in {c \in Recorded(k) : today - day[k][c] <= Span[w]}
                            |-> conn[c].bytes])
      <3>1. ASSUME NEW c \in Recorded(k)
            PROVE  day[k][c] \in InWindow(w) <=> today - day[k][c] <= Span[w]
        <4>1. day[k][c] \in Days /\ day[k][c] <= today
          BY <2>0 DEF Recorded, RecordedOnce, TypeOK
        <4>2. today \in Int /\ day[k][c] \in Int /\ Span[w] \in Nat
          BY <2>0, <4>1, UserDbAssumption DEF TypeOK, Days
        <4> QED BY <4>1, <4>2 DEF InWindow
      <3>2. RecordedIn(k, InWindow(w))
              = {c \in Recorded(k) : today - day[k][c] <= Span[w]}
        BY <3>1 DEF RecordedIn
      <3>3. InWindow(w) \in SUBSET Days
        BY DEF InWindow
      <3>4. BytesOn(k, InWindow(w)) = BytesOf(RecordedIn(k, InWindow(w)))
        BY <2>0, <3>3 DEF SumsExact
      <3> QED BY <3>2, <3>4 DEF get_usage, BytesOn, BytesOf
    <2> QED BY <2>0, <2>1 DEF SumsExact, TestsOf
  <1> QED BY <1>1, InitTypes, NextTypes, InitSessions, NextSessions, InitUsage, NextUsage,
             PTL DEF Spec

-----------------------------------------------------------------------------
(* Admission.  A handler reads the windows one after the other; as long as   *)
(* nothing that counts has changed, one of those it has still to read is    *)
(* used up.                                                                  *)

StillOver(c) ==
    /\ conn[c].pc \in {"user", "password", "check"} =>
         users[conn[c].name] # NoRow /\ OverQuota(conn[c].name)
    /\ conn[c].pc \in Windows =>
         \E w \in {conn[c].pc} \cup Later[conn[c].pc] :
           Exceeded(conn[c].limits[w], get_usage(conn[c].name, w))
    /\ conn[c].pc # "start"

OverInv ==
    \A c \in Conns :
      conn[c].pc \in Login /\ conn[c].over /\ ~conn[c].stale => StillOver(c)

\* A window that is left and has a limit is read next or later.
LEMMA NextCheckFinds ==
    ASSUME NEW limits, NEW S \in {Windows, Later["daily"], Later["weekly"], Later["monthly"]},
           NEW w \in S, limits[w] > 0
    PROVE  /\ NextCheck(limits, S) \in Windows
           /\ w \in {NextCheck(limits, S)} \cup Later[NextCheck(limits, S)]
  BY DEF NextCheck, Later, Windows

\* Usage is a number ...
LEMMA UsageType ==
    ASSUME TypeInv, NEW k \in Keys, NEW w \in Windows
    PROVE  get_usage(k, w) \in Nat
  <1>1. [d \in InWindow(w) |-> usage[k][d].bytes] \in [InWindow(w) -> Nat]
    BY DEF TypeInv, TypeOK, InWindow
  <1>2. IsFiniteSet(InWindow(w))
    BY FiniteDays DEF InWindow
  <1> QED BY <1>1, <1>2, SumOfType DEF get_usage

\* ... that a record only increases.
LEMMA UsageGrows ==
    ASSUME TypeInv, NEW c \in Conns, NEW k \in Keys, Record(c, k), today' = today,
           NEW j \in Keys, NEW w \in Windows
    PROVE  get_usage(j, w)' >= get_usage(j, w)
  <1>0. /\ usage \in [Keys -> [Days -> [bytes : Nat, tests : Nat]]]
        /\ today \in Days /\ conn[c].bytes \in Nat
    BY DEF TypeInv, TypeOK, ConnType
  <1>w. InWindow(w)' = InWindow(w)
    BY DEF InWindow
  <1>n. get_usage(j, w) \in Nat
    BY UsageType
  <1>1. CASE j # k
    <2>1. usage'[j] = usage[j]
      BY <1>0, <1>1 DEF Record
    <2>2. get_usage(j, w)' = get_usage(j, w)
      BY <1>w, <2>1 DEF get_usage
    <2> QED BY <1>n, <2>2
  <1>2. CASE j = k
    <2> DEFINE n == conn[c].bytes
               u == [d \in Days |-> usage[k][d].bytes]
               W == InWindow(w)
    <2>1. n \in Nat /\ u \in [Days -> Nat] /\ W \in SUBSET Days
      BY <1>0 DEF InWindow
    <2>2. \A d \in Days : usage'[k][d].bytes = IF d = today THEN u[d] + n ELSE u[d]
      BY <1>0 DEF Record
    <2>3. [d \in W |-> usage'[k][d].bytes] = DayAdded(u, W, today, n)
      BY <2>1, <2>2 DEF DayAdded
    <2>4. [d \in W |-> usage[k][d].bytes] = OnDays(u, W)
      BY <2>1 DEF OnDays
    <2>t. today \in Days
      BY <1>0
    <2> HIDE DEF n, u, W
    <2>5. SumOf(DayAdded(u, W, today, n))
            = SumOf(OnDays(u, W)) + (IF today \in W THEN n ELSE 0)
      BY <2>1, <2>t, DayGrows
    <2>6. get_usage(j, w) = SumOf(OnDays(u, W))
      BY <1>2, <2>4 DEF get_usage, W
    <2>7. get_usage(j, w)' = SumOf(OnDays(u, W)) + (IF today \in W THEN n ELSE 0)
      BY <1>2, <1>w, <2>3, <2>5 DEF get_usage, W
    <2> QED BY <1>n, <2>1, <2>6, <2>7
  <1> QED BY <1>1, <1>2

\* A login that the step leaves where it is, while no usage falls.
LEMMA StillOverKept ==
    ASSUME TypeInv, NEW c \in Conns, conn[c].pc \in Login, StillOver(c),
           conn'[c].pc = conn[c].pc, conn'[c].name = conn[c].name,
           conn'[c].limits = conn[c].limits,
           users'[conn[c].name] = users[conn[c].name],
           \A w \in Windows : get_usage(conn[c].name, w)' >= get_usage(conn[c].name, w),
           \A w \in Windows : get_usage(conn[c].name, w)' \in Nat
    PROVE  StillOver(c)'
  <1> DEFINE n == conn[c].name
  <1>0. /\ n \in Names /\ n \in Keys /\ TypeOK
        /\ conn[c].pc \in Windows => conn[c].limits \in PerWindow
    BY DEF TypeInv, ConnInv, Known, Keys
  <1>m. ASSUME NEW l \in 0 .. U64Max, NEW w \in Windows, Exceeded(l, get_usage(n, w))
        PROVE  Exceeded(l, get_usage(n, w)')
    <2>1. get_usage(n, w) \in Nat /\ l \in Nat /\ get_usage(n, w)' \in Nat
          /\ get_usage(n, w)' >= get_usage(n, w)
      BY <1>0, UsageType, U64MaxAssumption
    <2> QED BY <1>m, <2>1 DEF Exceeded
  <1>1. ASSUME conn[c].pc \in {"user", "password", "check"}
        PROVE  users'[n] # NoRow /\ OverQuota(n)'
    <2>1. users[n] # NoRow /\ OverQuota(n) /\ users[n] \in RowType
      BY <1>0, <1>1 DEF StillOver, TypeOK
    <2>2. UserLimits(Limits, users[n]) \in PerWindow
      BY <2>1, LimitsType
    <2>3. PICK w \in Windows : Exceeded(UserLimits(Limits, users[n])[w], get_usage(n, w))
      BY <2>1 DEF OverQuota
    <2>4. Exceeded(UserLimits(Limits, users[n])[w], get_usage(n, w)')
      BY <1>m, <2>2, <2>3 DEF PerWindow
    <2>5. Exceeded(UserLimits(Limits, users'[n])[w], get_usage(n, w)')
      BY <2>4
    <2>6. OverQuota(n)'
      BY <2>5 DEF OverQuota
    <2> QED BY <2>1, <2>6
  <1>2. ASSUME conn[c].pc \in Windows
        PROVE  \E w \in {conn[c].pc} \cup Later[conn[c].pc] :
                 Exceeded(conn[c].limits[w], get_usage(n, w)')
    <2>1. PICK w \in {conn[c].pc} \cup Later[conn[c].pc] :
            Exceeded(conn[c].limits[w], get_usage(n, w))
      BY <1>2 DEF StillOver
    <2>2. w \in Windows
      BY <1>2, <2>1 DEF Windows, Later
    <2>3. conn[c].limits[w] \in 0 .. U64Max
      BY <1>0, <1>2, <2>2 DEF PerWindow
    <2> QED BY <1>m, <2>1, <2>2, <2>3
  <1>3. conn[c].pc # "start"
    BY DEF StillOver
  <1>4. n' = n
    OBVIOUS
  <1> HIDE DEF n
  <1>5. conn'[c].pc \in {"user", "password", "check"} =>
          users'[n'] # NoRow /\ OverQuota(n)'
    BY <1>1, <1>4
  <1> QED BY <1>2, <1>3, <1>4, <1>5 DEF StillOver, n

LEMMA InitOver == Init => OverInv
  BY DEF Init, NewConn, OverInv, Login

\* A step of another connection's handler.
LEMMA OtherOver ==
    ASSUME TypeInv, SessionInv, OverInv, NEW d \in Conns, Handler(d),
           NEW c \in Conns, c # d, conn'[c].pc \in Login, conn'[c].over, ~conn'[c].stale
    PROVE  StillOver(c)'
  <1>1. conn'[c] = conn[c] /\ UNCHANGED users
    BY HandlerMoves
  <1>2. StillOver(c) /\ conn[c].pc \in Login
    BY <1>1 DEF OverInv
  <1>3. conn[c].name \in Keys
    BY <1>2 DEF TypeInv, ConnInv, Known, Keys
  <1>4. today' = today /\ (UNCHANGED <<usage, day>> \/ Recording(d))
    BY HandlerRecords
  <1>t. TypeInv'
    BY HandlerTypes
  <1>5. ASSUME NEW w \in Windows
        PROVE  /\ get_usage(conn[c].name, w)' >= get_usage(conn[c].name, w)
               /\ get_usage(conn[c].name, w)' \in Nat
    <2>1. CASE UNCHANGED usage
      <3>1. get_usage(conn[c].name, w)' = get_usage(conn[c].name, w)
        BY <1>1, <1>4, <2>1 DEF get_usage, InWindow
      <3>2. get_usage(conn[c].name, w) \in Nat
        BY <1>3, UsageType
      <3> QED BY <3>1, <3>2
    <2>2. CASE Recording(d)
      <3>1. PICK k \in Keys : Record(d, k)
        BY <2>2 DEF Recording, Keys
      <3>2. \A j \in Keys : get_usage(j, w)' >= get_usage(j, w)
        BY <1>4, <3>1, UsageGrows
      <3>3. \A j \in Keys : get_usage(j, w)' \in Nat
        <4> TAKE j \in Keys
        <4>1. [x \in InWindow(w)' |-> usage'[j][x].bytes] \in [InWindow(w)' -> Nat]
          BY <1>t DEF TypeInv, TypeOK, InWindow
        <4>2. InWindow(w)' \in SUBSET Days
          BY DEF InWindow
        <4>3. IsFiniteSet(InWindow(w)')
          BY <4>2, FiniteDays
        <4> QED BY <4>1, <4>3, SumOfType DEF get_usage
      <3>4. conn'[c].name = conn[c].name
        BY <1>1
      <3> QED BY <1>3, <3>2, <3>3, <3>4 DEF get_usage
    <2> QED BY <1>4, <2>1, <2>2
  <1> QED BY <1>1, <1>2, <1>5, StillOverKept

\* A command that changes what counts makes the login stale.
LEMMA AdminOver == TypeInv /\ OverInv /\ (Admin \/ NextDay) => OverInv'
  <1> SUFFICES ASSUME TypeInv, OverInv, Admin \/ NextDay, NEW c \in Conns,
                      conn'[c].pc \in Login, conn'[c].over, ~conn'[c].stale
               PROVE  StillOver(c)'
    BY DEF OverInv
  <1>0. TypeOK /\ conn[c] \in ConnType
    BY DEF TypeInv, TypeOK
  <1>s. ASSUME NEW S, Touched(S)
        PROVE  /\ conn'[c].pc = conn[c].pc /\ conn'[c].name = conn[c].name
               /\ conn'[c].limits = conn[c].limits /\ conn'[c].over = conn[c].over
               /\ ~conn[c].stale /\ conn[c].name \notin S
    <2> DEFINE s == conn[c].stale \/ (conn[c].pc \in Login /\ conn[c].name \in S)
    <2>1. conn'[c] = [conn[c] EXCEPT !.stale = s]
      BY <1>s DEF Touched
    <2>2. s => conn[c].stale \/ conn[c].name \in S
      OBVIOUS
    <2>3. conn[c].stale \/ (conn[c].pc \in Login /\ conn[c].name \in S) => s
      OBVIOUS
    <2> HIDE DEF s
    <2>4. /\ conn'[c].pc = conn[c].pc /\ conn'[c].name = conn[c].name
          /\ conn'[c].limits = conn[c].limits /\ conn'[c].over = conn[c].over
          /\ conn'[c].stale = s
      BY <1>0, <2>1 DEF ConnType
    <2> QED BY <2>3, <2>4
  <1>k. ASSUME conn'[c].pc = conn[c].pc, conn'[c].name = conn[c].name,
               conn'[c].limits = conn[c].limits, conn'[c].over = conn[c].over,
               ~conn[c].stale, users'[conn[c].name] = users[conn[c].name],
               UNCHANGED <<usage, today>>
        PROVE  StillOver(c)'
    <2>1. StillOver(c) /\ conn[c].pc \in Login
      BY <1>k DEF OverInv
    <2>2. conn[c].name \in Keys
      BY <2>1 DEF TypeInv, ConnInv, Known, Keys
    <2>3. \A w \in Windows : /\ get_usage(conn[c].name, w)' = get_usage(conn[c].name, w)
                             /\ get_usage(conn[c].name, w) \in Nat
      BY <1>k, <2>2, UsageType DEF get_usage, InWindow
    <2>4. \A w \in Windows : /\ get_usage(conn[c].name, w)' >= get_usage(conn[c].name, w)
                             /\ get_usage(conn[c].name, w)' \in Nat
      BY <2>3
    <2> QED BY <1>k, <2>1, <2>4, StillOverKept
  <1>1. ASSUME NEW n \in Names, NEW row, Statement(n, row)
        PROVE  StillOver(c)'
    <2>1. /\ users' = [users EXCEPT ![n] = row] /\ Touched({n})
          /\ UNCHANGED <<usage, today>>
      BY <1>1 DEF Statement, recordVars
    <2>2. conn[c].name \notin {n}
      BY <1>s, <2>1
    <2>3. users'[conn[c].name] = users[conn[c].name]
      BY <1>0, <2>1, <2>2 DEF TypeOK
    <2> QED BY <1>k, <1>s, <2>1, <2>3
  <1>2. CASE NextDay
    <2>1. Touched(Names)
      BY <1>2 DEF NextDay
    <2>2. conn[c].name \notin Names /\ conn[c].pc \in Login
      BY <1>s, <2>1
    <2> QED BY <2>2 DEF TypeInv, ConnInv, Known
  <1>3. ASSUME NEW n \in Names, NEW p \in Passwords, AddColumn(n, p)
        PROVE  StillOver(c)'
    <2>1. /\ Touched(IF has_raw THEN {} ELSE Names) /\ UNCHANGED users
          /\ UNCHANGED <<usage, today>>
      BY <1>3 DEF AddColumn, recordVars
    <2> QED BY <1>k, <1>s, <2>1
  <1>4. CASE InsertUser \/ SetUserQuota
    <2>1. admin.name \in Names
      BY <1>0, <1>4 DEF TypeOK, CommandType, InsertUser, SetUserQuota
    <2> QED BY <1>1, <1>4, <2>1 DEF InsertUser, SetUserQuota
  <1>5. ASSUME NEW n \in Names, UserDel(n) PROVE StillOver(c)'
    BY <1>1, <1>5 DEF UserDel
  <1>6. ASSUME NEW n \in Names, NEW e, NEW d, NEW w, UserSetEnabled(n, e, d, w)
        PROVE  StillOver(c)'
    BY <1>1, <1>6 DEF UserSetEnabled
  <1>7. CASE UNCHANGED <<users, conn, usage, today>>
    BY <1>k, <1>7
  <1> QED BY <1>2, <1>3, <1>4, <1>5, <1>6, <1>7
          DEF Admin, CommandFails, UserSetQuota, recordVars

\* The steps of the login itself: each query that finds a window used up refuses,
\* and the handler goes on to those that are left.
LEMMA OwnOver ==
    ASSUME TypeInv, OverInv, NEW c \in Conns, Handler(c),
           conn'[c].pc \in Login, conn'[c].over, ~conn'[c].stale
    PROVE  StillOver(c)'
  <1>0. TypeOK /\ Known(conn[c]) /\ conn[c] \in ConnType
    BY DEF TypeInv, ConnInv, Known
  <1>m. ASSUME NEW r, Moves(c, r)
        PROVE  conn'[c] = r /\ UNCHANGED <<users, today>>
    BY <1>0, <1>m DEF TypeOK, Moves, adminVars
  \* Only a query that is answered leaves the login fresh.
  <1>q. ASSUME NEW r, Queries(c, r)
        PROVE  /\ conn'[c] = r /\ UNCHANGED <<users, today, usage>>
               /\ \A n, w : get_usage(n, w)' = get_usage(n, w)
               /\ \A n : OverQuota(n)' <=> OverQuota(n)
    <2>1. conn'[c] = r /\ UNCHANGED <<users, today, usage>>
      BY <1>m, <1>q DEF Queries, recordVars
    <2>2. \A n, w : get_usage(n, w)' = get_usage(n, w)
      BY <2>1 DEF get_usage, InWindow
    <2>3. \A n : OverQuota(n)' <=> OverQuota(n)
      BY <2>1, <2>2 DEF OverQuota
    <2> QED BY <2>1, <2>2, <2>3
  <1>u. ASSUME NEW r, Known(r) PROVE ~Unanswered(c, r)
    <2> SUFFICES ASSUME Unanswered(c, r) PROVE FALSE
      OBVIOUS
    <2> DEFINE q == [r EXCEPT !.stale = TRUE]
    <2>1. Moves(c, q)
      BY DEF Unanswered
    <2>2. q.stale
      BY <1>u DEF Known, ConnType
    <2> HIDE DEF q
    <2> QED BY <1>m, <2>1, <2>2
  <1>r. Refused.pc \notin Login
    BY DEF Refused, NewConn, Login
  <1>1. ASSUME NEW n \in Names, NEW p \in Passwords \cup {Empty}, Present(c, n, p)
        PROVE  StillOver(c)'
    <2> DEFINE over == users[n] # NoRow /\ OverQuota(n)
               r == [NewConn EXCEPT !.pc = "user", !.name = n, !.password = p,
                                    !.over = over]
    <2>1. Queries(c, r)
      BY <1>1 DEF Present
    <2>2. over => users[n] # NoRow /\ OverQuota(n)
      OBVIOUS
    <2> HIDE DEF over
    <2>3. r.pc = "user" /\ r.name = n /\ r.over = over
      BY DEF NewConn
    <2> HIDE DEF r
    <2>4. conn'[c] = r /\ UNCHANGED users /\ (OverQuota(n)' <=> OverQuota(n))
      BY <1>q, <2>1
    <2>5. over
      BY <2>3, <2>4
    <2>6. conn'[c].pc = "user" /\ conn'[c].name = n /\ users'[n] # NoRow /\ OverQuota(n)'
      BY <2>2, <2>3, <2>4, <2>5
    <2> QED BY <2>6 DEF StillOver, Windows
  \* A step that only goes on to the next query of the account.
  <1>2. ASSUME NEW r, Queries(c, r), conn[c].pc \in {"user", "password"},
               r.pc \in {"password", "check"}, r.name = conn[c].name,
               r.over = conn[c].over, r.stale = conn[c].stale
        PROVE  StillOver(c)'
    <2>0. PICK n : n = conn[c].name
      OBVIOUS
    <2>1. conn'[c] = r /\ UNCHANGED users /\ (OverQuota(n)' <=> OverQuota(n))
      BY <1>q, <1>2
    <2>2. users[n] # NoRow /\ OverQuota(n)
      BY <1>2, <2>0, <2>1 DEF OverInv, StillOver, Login
    <2>3. conn'[c].pc \in {"password", "check"} /\ conn'[c].name = n
      BY <1>2, <2>0, <2>1
    <2>4. users'[n] # NoRow /\ OverQuota(n)'
      BY <2>1, <2>2
    <2> QED BY <2>3, <2>4 DEF StillOver, Windows
  <1>3. CASE GetUser(c)
    <2> DEFINE next == [conn[c] EXCEPT !.pc = "password"]
    <2>1. conn[c].pc = "user" /\ (Queries(c, next) \/ Queries(c, Refused))
      BY <1>3 DEF GetUser, At
    <2>2. /\ next.pc = "password" /\ next.name = conn[c].name
          /\ next.over = conn[c].over /\ next.stale = conn[c].stale
      BY <1>0 DEF ConnType
    <2> HIDE DEF next
    <2> QED BY <1>2, <1>q, <1>r, <2>1, <2>2
  <1>4. CASE GetPassword(c)
    <2>1. conn[c].pc = "password" /\ (\/ Queries(c, Refused) \/ Queries(c, Accepted(c))
                                      \/ Unanswered(c, Accepted(c)))
      BY <1>4 DEF GetPassword, At
    <2>2. Known(Accepted(c))
      BY <1>0, <2>1 DEF Known, ConnType, Accepted, Login, Tested, Windows
    <2>3. /\ Accepted(c).pc = "check" /\ Accepted(c).name = conn[c].name
          /\ Accepted(c).over = conn[c].over /\ Accepted(c).stale = conn[c].stale
      BY <1>0 DEF ConnType, Accepted
    <2> QED BY <1>2, <1>q, <1>r, <1>u, <2>1, <2>2, <2>3
  \* Going on with windows of which one is used up.
  <1>5. ASSUME NEW limits \in PerWindow,
               NEW S \in {Windows, Later["daily"], Later["weekly"], Later["monthly"]},
               NEW w \in S, w \in Windows, Exceeded(limits[w], get_usage(conn[c].name, w)),
               Queries(c, Continue(c, limits, S))
        PROVE  StillOver(c)'
    <2> DEFINE next == NextCheck(limits, S)
    <2>1. limits[w] > 0
      BY <1>5 DEF Exceeded
    <2>2. next \in Windows /\ w \in {next} \cup Later[next]
      BY <1>5, <2>1, NextCheckFinds
    <2>3. Continue(c, limits, S) =
            [conn[c] EXCEPT !.pc = next,
                            !.limits = IF next = "start" THEN None ELSE limits]
      BY DEF Continue
    <2> HIDE DEF next
    <2>0. PICK n : n = conn[c].name
      OBVIOUS
    <2>4. conn'[c] = Continue(c, limits, S) /\ get_usage(n, w)' = get_usage(n, w)
      BY <1>5, <1>q
    <2>5. conn'[c].pc = next /\ conn'[c].name = n /\ conn'[c].limits = limits
      BY <1>0, <2>0, <2>2, <2>3, <2>4 DEF ConnType, Windows
    <2>6. Exceeded(limits[w], get_usage(n, w)')
      BY <1>5, <2>0, <2>4
    <2>7. next \notin {"user", "password", "check", "start"}
      BY <2>2 DEF Windows
    <2>8. \E v \in {conn'[c].pc} \cup Later[conn'[c].pc] :
            Exceeded(conn'[c].limits[v], get_usage(n, v)')
      BY <2>2, <2>5, <2>6
    <2> QED BY <2>5, <2>7, <2>8 DEF StillOver
  <1>6. ASSUME NEW limits, NEW S, Queries(c, Continue(c, limits, S))
        PROVE  conn[c].over /\ ~conn[c].stale
    <2> DEFINE next == NextCheck(limits, S)
    <2>1. Continue(c, limits, S) =
            [conn[c] EXCEPT !.pc = next,
                            !.limits = IF next = "start" THEN None ELSE limits]
      BY DEF Continue
    <2> HIDE DEF next
    <2>2. conn'[c] = Continue(c, limits, S)
      BY <1>6, <1>q
    <2>3. conn'[c].over = conn[c].over /\ conn'[c].stale = conn[c].stale
      BY <1>0, <2>1, <2>2 DEF ConnType
    <2> QED BY <2>3
  <1>7. CASE CheckUser(c)
    <2> DEFINE n == conn[c].name
               limits == UserLimits(Limits, users[n])
    <2>1. /\ conn[c].pc = "check"
          /\ \/ Enabled(n) /\ Queries(c, Continue(c, limits, Windows))
             \/ Queries(c, Refused)
      BY <1>7 DEF CheckUser, At
    <2>2. CASE Enabled(n) /\ Queries(c, Continue(c, limits, Windows))
      <3>1. conn[c].over /\ ~conn[c].stale
        BY <1>6, <2>2
      <3>2. OverQuota(n) /\ users[n] # NoRow
        BY <2>1, <3>1 DEF OverInv, StillOver, Login
      <3>3. n \in Names
        BY <1>0, <2>1 DEF Known, Login
      <3>4. limits \in PerWindow
        BY <1>0, <3>2, <3>3, LimitsType DEF TypeOK
      <3>5. PICK w \in Windows : Exceeded(limits[w], get_usage(n, w))
        BY <3>2 DEF OverQuota
      <3> HIDE DEF limits
      <3> QED BY <1>5, <2>2, <3>4, <3>5
    <2>3. CASE Queries(c, Refused)
      BY <1>q, <1>r, <2>3
    <2> QED BY <2>1, <2>2, <2>3
  <1>8. ASSUME NEW v \in Windows, CheckWindow(c, v) PROVE StillOver(c)'
    <2> DEFINE n == conn[c].name
               limits == conn[c].limits
               next == Continue(c, limits, Later[v])
    <2>1. conn[c].pc = v /\ n \in Names /\ limits \in PerWindow
      BY <1>0, <1>8 DEF CheckWindow, At, Known, Login, Windows
    <2>2. Known(next)
      BY <2>1, ContinueKnown DEF TypeInv
    <2>3. \/ ~Exceeded(limits[v], get_usage(n, v)) /\ Queries(c, next)
          \/ Queries(c, Refused)
      <3>1. ~Unanswered(c, next)
        <4> HIDE DEF next
        <4> QED BY <1>u, <2>2
      <3> QED BY <1>8, <3>1 DEF CheckWindow
    <2>4. CASE ~Exceeded(limits[v], get_usage(n, v)) /\ Queries(c, next)
      <3>1. conn[c].over /\ ~conn[c].stale
        BY <1>6, <2>4
      <3>2. PICK w \in {v} \cup Later[v] : Exceeded(limits[w], get_usage(n, w))
        BY <2>1, <3>1 DEF OverInv, StillOver, Login, Windows
      <3>3. w \in Later[v]
        BY <2>4, <3>2
      <3>4. w \in Windows
        BY <3>3 DEF Later, Windows
      <3>5. Later[v] \in {Windows, Later["daily"], Later["weekly"], Later["monthly"]}
        BY DEF Windows
      <3> QED BY <1>5, <2>1, <2>4, <3>2, <3>3, <3>4, <3>5
    <2>5. CASE Queries(c, Refused)
      BY <1>q, <1>r, <2>5
    <2> QED BY <2>3, <2>4, <2>5
  <1>9. CASE HandlerFails(c)
    BY <1>9, <1>m, <1>r DEF HandlerFails
  <1>10. CASE StartSession(c)
    <2> DEFINE r == [NewConn EXCEPT !.pc = "run", !.name = conn[c].name]
    <2>1. Moves(c, r)
      BY <1>10 DEF StartSession
    <2>2. r.pc \notin Login
      BY DEF NewConn, Login
    <2> HIDE DEF r
    <2> QED BY <1>m, <2>1, <2>2
  <1>11. ASSUME NEW b \in Sizes, TestEnds(c, b) \/ EnforcerStops(c, b) PROVE StillOver(c)'
    <2> DEFINE r == [conn[c] EXCEPT !.pc = "record", !.bytes = b]
    <2>1. Moves(c, r)
      BY <1>11 DEF TestEnds, EnforcerStops, Joins
    <2>2. r.pc \notin Login
      BY <1>0 DEF ConnType, Login
    <2> HIDE DEF r
    <2> QED BY <1>m, <2>1, <2>2
  <1>12. CASE RecordUsage(c) \/ RecordIpUsage(c) \/ EndSession(c)
    BY <1>12, GoesTo DEF RecordUsage, RecordIpUsage, EndSession, Login
  <1> QED BY <1>1, <1>3, <1>4, <1>7, <1>8, <1>9, <1>10, <1>11, <1>12 DEF Handler

LEMMA NextOver == TypeInv /\ SessionInv /\ OverInv /\ [Next]_vars => OverInv'
  <1> SUFFICES ASSUME TypeInv, SessionInv, OverInv, [Next]_vars PROVE OverInv'
    OBVIOUS
  <1>1. ASSUME NEW d \in Conns, Handler(d) PROVE OverInv'
    <2> SUFFICES ASSUME NEW c \in Conns, conn'[c].pc \in Login, conn'[c].over, ~conn'[c].stale
                 PROVE  StillOver(c)'
      BY DEF OverInv
    <2> QED BY <1>1, OwnOver, OtherOver
  <1>2. CASE Crash
    <2> DEFINE gone == [NewConn EXCEPT !.pc = "gone"]
    <2>1. gone.pc \notin Login
      BY DEF NewConn, Login
    <2>2. conn' = [c \in Conns |-> IF conn[c].pc \in Login THEN gone ELSE conn[c]]
      BY <1>2 DEF Crash
    <2> HIDE DEF gone
    <2>3. \A c \in Conns : conn'[c].pc \notin Login
      BY <2>1, <2>2
    <2> QED BY <2>3 DEF OverInv
  <1>3. CASE UNCHANGED vars
    <2>1. UNCHANGED <<conn, users, usage, today>>
      BY <1>3 DEF vars, adminVars, recordVars
    <2>2. \A n, w : get_usage(n, w)' = get_usage(n, w)
      BY <2>1 DEF get_usage, InWindow
    <2>3. \A n : OverQuota(n)' <=> OverQuota(n)
      BY <2>1, <2>2 DEF OverQuota
    <2>4. ASSUME NEW c \in Conns, StillOver(c) PROVE StillOver(c)'
      BY <2>1, <2>4 DEF StillOver, OverQuota, get_usage, InWindow
    <2> QED BY <2>1, <2>4 DEF OverInv
  <1> QED BY <1>1, <1>2, <1>3, AdminOver DEF Next

\* However many windows are read in however many steps, and whatever other tests are
\* recorded between them: a user over a limit is refused, unless what counts changed
\* or a query failed (check_user, called by handle_pro_connection).
THEOREM OverQuotaRefusedHolds == Spec => []OverQuotaRefused
  <1>1. OverInv => OverQuotaRefused
    BY DEF OverInv, StillOver, OverQuotaRefused, Login
  <1> QED BY <1>1, InitTypes, NextTypes, InitSessions, NextSessions, InitOver, NextOver,
             PTL DEF Spec
=============================================================================
