-------------------------- MODULE ProServer_proofs --------------------------
(***************************************************************************)
(* Proofs about ProServer, for every number of connections, addresses,     *)
(* users and tokens and for all limits.                                    *)
(***************************************************************************)
EXTENDS ProServer, Sums_proofs, TLAPS

-----------------------------------------------------------------------------
(* Quota: what an admitted test may rely on *)

\* The limits that apply to a user are limits again.
LEMMA UserLimitsType ==
    ASSUME NEW q \in QuotaType, NEW uq \in UserQuotaType
    PROVE  UserLimits(q, uq) \in PerWindow
  BY DEF QuotaType, UserQuotaType, UserLimits, PerWindow, Windows

\* One cap: never above the budget or what is left of the limit, and positive
\* as long as the budget was and the limit is not used up.
LEMMA CapLemma ==
    ASSUME NEW b \in Nat, NEW limit \in Nat, NEW spent \in Nat
    PROVE  /\ Cap(b, limit, spent) \in Nat
           /\ Cap(b, limit, spent) <= b
           /\ limit > 0 => Cap(b, limit, spent) <= SaturatingSub(limit, spent)
           /\ b > 0 /\ ~Exceeded(limit, spent) => Cap(b, limit, spent) > 0
  BY DEF Cap, SaturatingSub, Exceeded

\* The same of the three windows together.
LEMMA CapWindowsLemma ==
    ASSUME NEW b \in Nat, NEW limits \in [Windows -> Nat],
           NEW spent \in [Windows -> Nat]
    PROVE  /\ CapWindows(b, limits, spent) \in Nat
           /\ CapWindows(b, limits, spent) <= b
           /\ \A w \in Windows : limits[w] > 0 =>
                CapWindows(b, limits, spent) <= SaturatingSub(limits[w], spent[w])
           /\ b > 0 /\ FirstExceeded(limits, spent) = "ok" =>
                CapWindows(b, limits, spent) > 0
  <1> DEFINE d == Cap(b, limits["daily"], spent["daily"])
             w2 == Cap(d, limits["weekly"], spent["weekly"])
             m == Cap(w2, limits["monthly"], spent["monthly"])
  <1>0. \A w \in Windows : limits[w] \in Nat /\ spent[w] \in Nat
    OBVIOUS
  <1>1. /\ d \in Nat /\ d <= b
        /\ limits["daily"] > 0 => d <= SaturatingSub(limits["daily"], spent["daily"])
        /\ b > 0 /\ ~Exceeded(limits["daily"], spent["daily"]) => d > 0
    BY <1>0, CapLemma DEF Windows
  <1> HIDE DEF d
  <1>2. /\ w2 \in Nat /\ w2 <= d
        /\ limits["weekly"] > 0 => w2 <= SaturatingSub(limits["weekly"], spent["weekly"])
        /\ d > 0 /\ ~Exceeded(limits["weekly"], spent["weekly"]) => w2 > 0
    BY <1>0, <1>1, CapLemma DEF Windows
  <1> HIDE DEF w2
  <1>3. /\ m \in Nat /\ m <= w2
        /\ limits["monthly"] > 0 => m <= SaturatingSub(limits["monthly"], spent["monthly"])
        /\ w2 > 0 /\ ~Exceeded(limits["monthly"], spent["monthly"]) => m > 0
    BY <1>0, <1>2, CapLemma DEF Windows
  <1>4. CapWindows(b, limits, spent) = m
    BY DEF CapWindows, d, w2
  <1> HIDE DEF m
  <1>5. \A w \in Windows : SaturatingSub(limits[w], spent[w]) \in Nat
    BY <1>0 DEF SaturatingSub
  <1>6. \A w \in Windows : limits[w] > 0 => m <= SaturatingSub(limits[w], spent[w])
    BY <1>1, <1>2, <1>3, <1>5 DEF Windows
  <1>7. b > 0 /\ FirstExceeded(limits, spent) = "ok" => m > 0
    BY <1>1, <1>2, <1>3 DEF FirstExceeded
  <1> QED BY <1>1, <1>2, <1>3, <1>4, <1>6, <1>7

\* The budget of a test is at most what is left of every limit that applies:
\* the user's, the IP's combined and the IP's in each direction, in every
\* window.  A test that keeps to its budget exceeds none of them.
THEOREM BudgetWithinEveryLimit ==
    ASSUME NEW q \in QuotaType, NEW uq \in UserQuotaType,
           NEW spent \in [Windows -> Nat], NEW inb \in [Windows -> Nat],
           NEW outb \in [Windows -> Nat], NEW w \in Windows
    PROVE  LET b == remaining_budget(q, uq, spent, inb, outb) IN
           /\ b \in 0 .. U64Max
           /\ UserLimits(q, uq)[w] > 0 =>
                b <= SaturatingSub(UserLimits(q, uq)[w], spent[w])
           /\ q.ip[w] > 0 => b <= SaturatingSub(q.ip[w], inb[w] + outb[w])
           /\ q.ip_in[w] > 0 => b <= SaturatingSub(q.ip_in[w], inb[w])
           /\ q.ip_out[w] > 0 => b <= SaturatingSub(q.ip_out[w], outb[w])
  <1> DEFINE b1 == CapWindows(U64Max, UserLimits(q, uq), spent)
             b2 == CapWindows(b1, q.ip, Both(inb, outb))
             b3 == CapWindows(b2, q.ip_in, inb)
             b4 == CapWindows(b3, q.ip_out, outb)
  <1>0. /\ UserLimits(q, uq) \in [Windows -> Nat]
        /\ q.ip \in [Windows -> Nat] /\ q.ip_in \in [Windows -> Nat]
        /\ q.ip_out \in [Windows -> Nat]
        /\ U64Max \in Nat
    BY UserLimitsType, U64MaxAssumption DEF QuotaType, PerWindow
  <1>s. /\ Both(inb, outb) \in [Windows -> Nat]
        /\ Both(inb, outb)[w] = inb[w] + outb[w]
    BY DEF Both
  <1>1. /\ b1 \in Nat /\ b1 <= U64Max
        /\ UserLimits(q, uq)[w] > 0 =>
             b1 <= SaturatingSub(UserLimits(q, uq)[w], spent[w])
    BY <1>0, CapWindowsLemma
  <1> HIDE DEF b1
  <1>2. /\ b2 \in Nat /\ b2 <= b1
        /\ q.ip[w] > 0 => b2 <= SaturatingSub(q.ip[w], Both(inb, outb)[w])
    BY <1>0, <1>s, <1>1, CapWindowsLemma
  <1> HIDE DEF b2
  <1>3. /\ b3 \in Nat /\ b3 <= b2
        /\ q.ip_in[w] > 0 => b3 <= SaturatingSub(q.ip_in[w], inb[w])
    BY <1>0, <1>2, CapWindowsLemma
  <1> HIDE DEF b3
  <1>4. /\ b4 \in Nat /\ b4 <= b3
        /\ q.ip_out[w] > 0 => b4 <= SaturatingSub(q.ip_out[w], outb[w])
    BY <1>0, <1>3, CapWindowsLemma
  <1>5. remaining_budget(q, uq, spent, inb, outb) = b4
    BY DEF remaining_budget, b1, b2, b3
  <1> HIDE DEF b4
  <1>6. /\ UserLimits(q, uq)[w] \in Nat /\ spent[w] \in Nat
        /\ q.ip[w] \in Nat /\ inb[w] \in Nat /\ outb[w] \in Nat
        /\ q.ip_in[w] \in Nat /\ q.ip_out[w] \in Nat
    BY <1>0
  <1>7. /\ UserLimits(q, uq)[w] > 0 =>
             b4 <= SaturatingSub(UserLimits(q, uq)[w], spent[w])
        /\ q.ip[w] > 0 => b4 <= SaturatingSub(q.ip[w], inb[w] + outb[w])
        /\ q.ip_in[w] > 0 => b4 <= SaturatingSub(q.ip_in[w], inb[w])
    BY <1>1, <1>2, <1>3, <1>4, <1>6, <1>s DEF SaturatingSub
  <1>8. b4 \in 0 .. U64Max
    BY <1>0, <1>1, <1>2, <1>3, <1>4
  <1> QED BY <1>4, <1>5, <1>7, <1>8

\* A connection that passes both checks, with the usage unchanged since, is
\* given a budget it can move at least one byte of.
THEOREM AdmittedHasBudget ==
    ASSUME NEW q \in QuotaType, NEW uq \in UserQuotaType,
           NEW spent \in [Windows -> Nat], NEW inb \in [Windows -> Nat],
           NEW outb \in [Windows -> Nat], NEW current \in Nat,
           check_user(q, uq, spent) = "ok",
           check_ip(q, current, inb, outb) = "ok"
    PROVE  remaining_budget(q, uq, spent, inb, outb) > 0
  <1> DEFINE b1 == CapWindows(U64Max, UserLimits(q, uq), spent)
             b2 == CapWindows(b1, q.ip, Both(inb, outb))
             b3 == CapWindows(b2, q.ip_in, inb)
             b4 == CapWindows(b3, q.ip_out, outb)
  <1>0. /\ UserLimits(q, uq) \in [Windows -> Nat]
        /\ q.ip \in [Windows -> Nat] /\ q.ip_in \in [Windows -> Nat]
        /\ q.ip_out \in [Windows -> Nat]
        /\ U64Max \in Nat /\ U64Max > 0
        /\ Both(inb, outb) \in [Windows -> Nat]
    BY UserLimitsType, U64MaxAssumption DEF QuotaType, PerWindow, Both
  <1>c. /\ FirstExceeded(UserLimits(q, uq), spent) = "ok"
        /\ FirstExceeded(q.ip, Both(inb, outb)) = "ok"
        /\ FirstExceeded(q.ip_in, inb) = "ok"
        /\ FirstExceeded(q.ip_out, outb) = "ok"
    BY DEF check_user, check_ip
  <1>1. b1 \in Nat /\ b1 > 0
    BY <1>0, <1>c, CapWindowsLemma
  <1> HIDE DEF b1
  <1>2. b2 \in Nat /\ b2 > 0
    BY <1>0, <1>c, <1>1, CapWindowsLemma
  <1> HIDE DEF b2
  <1>3. b3 \in Nat /\ b3 > 0
    BY <1>0, <1>c, <1>2, CapWindowsLemma
  <1> HIDE DEF b3
  <1>4. b4 \in Nat /\ b4 > 0
    BY <1>0, <1>c, <1>3, CapWindowsLemma
  <1> QED BY <1>4 DEF remaining_budget, b1, b2, b3

-----------------------------------------------------------------------------
(* Types *)

\* The handler of c has not yet returned or started a test.
Early == {"command", "check", "connect", "auth", "admit", "register"}

\* What the handler of c has learnt when it gets to pc[c].
PcInv(c) ==
    /\ pc[c] \in Early => ip[c] \in Ips
    /\ pc[c] \in {"admit", "register"} => user[c] \in Users
    /\ pc[c] = "register" => count[c] > 0

TypeInv == TypeOK /\ \A c \in Conns : PcInv(c)

LEMMA TodayType ==
    ASSUME NEW n \in Nat
    PROVE  Today(n) \in [Windows -> Nat]
  BY ProServerAssumption DEF Today

LEMMA DisconnectedType ==
    ASSUME TypeOK, NEW i \in Ips
    PROVE  Disconnected(i) \in [Ips -> Nat]
  BY DEF TypeOK, Disconnected

LEMMA BudgetType ==
    ASSUME TypeOK, NEW u \in Users, NEW i \in Ips
    PROVE  Budget(u, i) \in 0 .. U64Max
  <1>1. /\ quota \in QuotaType /\ UserQuota[u] \in UserQuotaType
        /\ Today(used[u]) \in [Windows -> Nat]
        /\ Today(in[i]) \in [Windows -> Nat] /\ Today(out[i]) \in [Windows -> Nat]
    BY ProServerAssumption, TodayType DEF TypeOK
  <1>2. "daily" \in Windows
    BY DEF Windows
  <1> QED BY <1>1, <1>2, BudgetWithinEveryLimit DEF Budget

LEMMA NewTestType ==
    ASSUME NEW u \in Users, NEW i \in Ips, NEW S \in SUBSET Conns,
           NEW single \in BOOLEAN, NEW alone \in BOOLEAN
    PROVE  NewTest(u, i, S, single, alone) \in TestType
  BY U64MaxAssumption DEF NewTest, TestType

LEMMA InitTypes == Init => TypeInv
  <1> SUFFICES ASSUME Init PROVE TypeInv
    OBVIOUS
  <1>1. sessions \in [Tokens -> SessionType \cup {NoSession}]
    BY DEF Init
  <1>2. test \in [Conns -> TestType \cup {NoTest}]
    BY DEF Init
  <1>3. \A c \in Conns : PcInv(c)
    BY DEF Init, PcInv, Early
  <1> QED BY <1>1, <1>2, <1>3 DEF Init, TypeInv, TypeOK

LEMMA FiniteConns == \A S : S \subseteq Conns => IsFiniteSet(S) /\ Cardinality(S) \in Nat
  <1>1. IsFiniteSet(Conns)
    BY ProServerAssumption
  <1> QED BY <1>1, FS_Subset, FS_CardinalityType

\* Steps of the handler of c that touch nothing but its own variables.
LEMMA HandlerTypes ==
    ASSUME TypeInv, NEW c \in Conns, Handler(c)
    PROVE  TypeInv'
  <1>0. TypeOK /\ PcInv(c) /\ \A d \in Conns : PcInv(d)
    BY DEF TypeInv
  <1>d. pc[c] \in Early => Disconnected(ip[c]) \in [Ips -> Nat]
    BY <1>0, DisconnectedType DEF PcInv, Early
  <1>1. ASSUME NEW i \in Ips, Accept(c, i) PROVE TypeInv'
    BY <1>0, <1>1 DEF TypeInv, TypeOK, PcInv, Early, Accept, usageVars
  <1>2. CASE Drop(c)
    <2>1. ip[c] \in Ips
      BY <1>0, <1>2 DEF PcInv, Early, Drop
    <2> QED BY <1>0, <1>d, <1>2, <2>1 DEF TypeInv, TypeOK, PcInv, Early, Drop, usageVars
  <1>3. CASE CheckIp(c)
    BY <1>0, <1>3 DEF TypeInv, TypeOK, PcInv, Early, CheckIp, usageVars
  <1>4. CASE Connect(c)
    <2>1. ip[c] \in Ips
      BY <1>0, <1>4 DEF PcInv, Early, Connect
    <2> QED BY <1>0, <1>4, <2>1 DEF TypeInv, TypeOK, PcInv, Early, Connect, usageVars
  <1>5. CASE AuthFails(c)
    BY <1>0, <1>d, <1>5 DEF TypeInv, TypeOK, PcInv, Early, AuthFails, usageVars
  <1>6. CASE Refuse(c)
    BY <1>0, <1>d, <1>6 DEF TypeInv, TypeOK, PcInv, Early, Refuse, usageVars
  <1>7. CASE Admit(c)
    <2>1. ip[c] \in Ips /\ user[c] \in Users
      BY <1>0, <1>7 DEF PcInv, Early, Admit
    <2>2. \A alone \in BOOLEAN : NewTest(user[c], ip[c], {c}, TRUE, alone) \in TestType
      BY <2>1, NewTestType
    <2>3. test' \in [Conns -> TestType \cup {NoTest}]
      <3>1. \/ test' = test
            \/ \E alone \in BOOLEAN :
                 test' = [test EXCEPT ![c] = NewTest(user[c], ip[c], {c}, TRUE, alone)]
        BY <1>7 DEF Admit
      <3>2. test \in [Conns -> TestType \cup {NoTest}]
        BY <1>0 DEF TypeOK
      <3> QED BY <2>2, <3>1, <3>2
    <2> QED BY <1>0, <1>7, <2>3 DEF TypeInv, TypeOK, PcInv, Early, Admit, usageVars
  <1>8. ASSUME NEW t \in Tokens, Join(c, t) PROVE TypeInv'
    <2> DEFINE S == sessions[t].streams \cup {c}
    <2>1. ip[c] \in Ips /\ sessions[t] \in SessionType
      BY <1>0, <1>8 DEF TypeOK, PcInv, Early, Join, Joinable
    <2>2. S \in SUBSET Conns
      BY <2>1 DEF SessionType
    <2>3. NewTest(sessions[t].user, ip[c], S, FALSE, FALSE) \in TestType
      BY <2>1, <2>2, NewTestType DEF SessionType
    <2>4. [sessions[t] EXCEPT !.streams = S] \in SessionType
      BY <2>1, <2>2 DEF SessionType
    <2>5. /\ \/ test' = [test EXCEPT ![c] = NewTest(sessions[t].user, ip[c], S, FALSE, FALSE)]
             \/ test' = test
          /\ \/ sessions' = [sessions EXCEPT ![t] = NoSession]
             \/ sessions' = [sessions EXCEPT ![t] = [sessions[t] EXCEPT !.streams = S]]
          /\ \/ pc' = [d \in Conns |-> IF d \in S THEN "test" ELSE pc[d]]
             \/ pc' = [pc EXCEPT ![c] = "pending"]
          /\ UNCHANGED <<quota, ip, count, user, active, used, in, out, registered,
                         spurious, overlapped, unwritten>>
      BY <1>8 DEF Join, usageVars
    <2> HIDE DEF S
    <2>6. test' \in [Conns -> TestType \cup {NoTest}]
      BY <1>0, <2>3, <2>5 DEF TypeOK
    <2>7. sessions' \in [Tokens -> SessionType \cup {NoSession}]
      BY <1>0, <2>4, <2>5 DEF TypeOK
    <2>8. \A d \in Conns : pc'[d] \in Early => pc'[d] = pc[d]
      BY <1>0, <2>5 DEF TypeOK, Early
    <2>9. pc' \in [Conns -> {"idle", "command", "check", "connect", "auth", "admit",
                             "register", "pending", "test", "done"}]
      BY <1>0, <2>5 DEF TypeOK
    <2>10. \A d \in Conns : PcInv(d)'
      BY <1>0, <2>5, <2>8 DEF PcInv, Early
    <2> QED BY <1>0, <2>5, <2>6, <2>7, <2>9, <2>10 DEF TypeInv, TypeOK
  <1>9. ASSUME NEW t \in Tokens, Register(c, t) PROVE TypeInv'
    <2> DEFINE s == [ip |-> ip[c], user |-> user[c], expected |-> count[c], streams |-> {c}]
    <2>1. s \in SessionType
      BY <1>0, <1>9 DEF TypeOK, PcInv, Early, Register, SessionType
    <2>2. sessions' = [sessions EXCEPT ![t] = s]
      BY <1>9 DEF Register
    <2> HIDE DEF s
    <2>3. sessions' \in [Tokens -> SessionType \cup {NoSession}]
      BY <1>0, <2>1, <2>2 DEF TypeOK
    <2>4. /\ pc' \in [Conns -> {"idle", "command", "check", "connect", "auth", "admit",
                                "register", "pending", "test", "done"}]
          /\ \A d \in Conns : pc'[d] \in Early => pc'[d] = pc[d]
      BY <1>0, <1>9 DEF TypeOK, Register, Close, Early
    <2>5. \A d \in Conns : PcInv(d)'
      BY <1>0, <1>9, <2>4 DEF PcInv, Early, Register
    <2> QED BY <1>0, <1>9, <2>3, <2>4, <2>5 DEF TypeInv, TypeOK, Register, usageVars
  <1>10. ASSUME NEW head, NEW n \in Counts, Request(c, head, n) PROVE TypeInv'
    <2>1. n \in Nat
      BY ProServerAssumption
    <2> QED BY <1>0, <1>10, <2>1 DEF TypeInv, TypeOK, PcInv, Early, Request, usageVars
  <1>11. ASSUME NEW u \in Users, AuthOk(c, u) PROVE TypeInv'
    BY <1>0, <1>11 DEF TypeInv, TypeOK, PcInv, Early, AuthOk, usageVars
  <1> QED BY <1>1, <1>2, <1>3, <1>4, <1>5, <1>6, <1>7, <1>8, <1>9, <1>10, <1>11 DEF Handler

\* What a test and its enforcer may do to anything but usage: only the test
\* itself changes, never in whose name it runs, and either it stays live or it
\* ends, its streams are dropped and a single connection is given back.
TestStep(k) ==
    /\ test[k] \in TestType /\ test'[k] \in TestType /\ Live(k)
    /\ test' = [test EXCEPT ![k] = test'[k]]
    /\ test'[k].single = test[k].single /\ test'[k].alone = test[k].alone
    /\ test'[k].user = test[k].user /\ test'[k].ip = test[k].ip
    /\ test'[k].streams = test[k].streams
    /\ UNCHANGED <<quota, ip, count, user, sessions, registered, spurious>>
    /\ \/ test'[k].phase \in Occupied /\ UNCHANGED <<pc, active>>
       \/ /\ test'[k].phase = "ended"
          /\ pc' = Close(test[k].streams) /\ active' = Released(k)

LEMMA StartedType ==
    ASSUME TypeOK, NEW k \in Conns, test[k].phase # "none"
    PROVE  test[k] \in TestType
  BY DEF TypeOK, NoTest

LEMMA TestSteps ==
    ASSUME TypeInv, NEW k \in Conns, Test(k) \/ Enforcer(k)
    PROVE  TestStep(k)
  <1>0. TypeOK
    BY DEF TypeInv
  <1>t. test \in [Conns -> TestType \cup {NoTest}]
    BY <1>0 DEF TypeOK
  <1>n. test[k] \in TestType
    <2>1. test[k].phase # "none"
      BY DEF Test, Enforcer, StartFails, Start, MoveIn, MoveOut, BudgetStop, ClientLeaves,
         TransferReturns, RecordUser, RecordIp, EnforcerSeesEnd, EnforcerTimeout,
         EnforcerUser, EnforcerIp, Enforcing
    <2> QED BY <1>0, <2>1, StartedType
  <1>1. CASE StartFails(k)
    BY <1>t, <1>n, <1>1 DEF StartFails, TestStep, TestType, Live, Occupied
  <1>2. CASE Start(k)
    <2>1. Budget(test[k].user, test[k].ip) \in 0 .. U64Max
      BY <1>0, <1>n, BudgetType DEF TestType
    <2> HIDE DEF Budget
    <2> QED BY <1>t, <1>n, <1>2, <2>1 DEF Start, TestStep, TestType, Live, Occupied, connVars
  <1>3. CASE MoveIn(k)
    BY <1>t, <1>n, <1>3 DEF MoveIn, TestStep, TestType, Live, Occupied, connVars
  <1>4. CASE MoveOut(k)
    BY <1>t, <1>n, <1>4 DEF MoveOut, TestStep, TestType, Live, Occupied, connVars
  <1>5. CASE BudgetStop(k)
    BY <1>t, <1>n, <1>5 DEF BudgetStop, TestStep, TestType, Live, Occupied, connVars
  <1>6. CASE ClientLeaves(k)
    BY <1>t, <1>n, <1>6 DEF ClientLeaves, TestStep, TestType, Live, Occupied, connVars
  <1>7. CASE TransferReturns(k)
    <2>1. PICK n \in 0 .. test[k].in, m \in 0 .. test[k].out :
            test' = [test EXCEPT ![k].phase = "join", ![k].in = n, ![k].out = m]
      BY <1>7 DEF TransferReturns
    <2>2. n \in Nat /\ m \in Nat
      BY <1>n DEF TestType
    <2> QED BY <1>t, <1>n, <1>7, <2>1, <2>2 DEF TransferReturns, TestStep, TestType, Live,
                                               Occupied, connVars
  <1>8. ASSUME NEW written, RecordUser(k, written) PROVE TestStep(k)
    BY <1>t, <1>n, <1>8 DEF RecordUser, TestStep, TestType, Live, Occupied, connVars
  <1>9. ASSUME NEW written, RecordIp(k, written) PROVE TestStep(k)
    BY <1>t, <1>n, <1>9 DEF RecordIp, TestStep, TestType, Live, Occupied
  <1>10. CASE Enforcer(k)
    <2>1. PICK reason \in {"ClientDisconnected", "MaxDuration", "UserQuota", "IpQuota"} :
            Enforcing(k) /\ StoppedBy(k, reason)
      BY <1>10 DEF Enforcer, EnforcerSeesEnd, EnforcerTimeout, EnforcerUser, EnforcerIp
    <2> QED BY <1>t, <1>n, <2>1 DEF Enforcing, StoppedBy, TestStep, TestType, Live, Occupied,
                                    connVars
  <1> QED BY <1>1, <1>2, <1>3, <1>4, <1>5, <1>6, <1>7, <1>8, <1>9, <1>10 DEF Test

\* The usage tables a test writes keep their types.
LEMMA TestUsageTypes ==
    ASSUME TypeInv, NEW k \in Conns, Test(k) \/ Enforcer(k)
    PROVE  /\ used' \in [Users -> Nat] /\ in' \in [Ips -> Nat] /\ out' \in [Ips -> Nat]
           /\ overlapped' \in BOOLEAN /\ unwritten' \in BOOLEAN
  <1>0. TypeOK /\ test[k] \in TestType
    BY TestSteps DEF TypeInv, TestStep
  <1>1. CASE \E written \in BOOLEAN : RecordUser(k, written)
    BY <1>0, <1>1 DEF TypeOK, TestType, RecordUser, Charged, Bytes
  <1>2. CASE \E written \in BOOLEAN : RecordIp(k, written)
    BY <1>0, <1>2 DEF TypeOK, TestType, RecordIp, Charged
  <1>3. CASE ~ \E written \in BOOLEAN : RecordUser(k, written) \/ RecordIp(k, written)
    <2>1. UNCHANGED <<used, in, out, unwritten>> /\ overlapped' \in BOOLEAN
      BY <1>0, <1>3 DEF TypeOK, Test, Enforcer, StartFails, Start, MoveIn, MoveOut,
         BudgetStop, ClientLeaves, TransferReturns, EnforcerSeesEnd, EnforcerTimeout,
         EnforcerUser, EnforcerIp, StoppedBy, usageVars
    <2> QED BY <1>0, <2>1 DEF TypeOK
  <1> QED BY <1>1, <1>2, <1>3

LEMMA TestTypes ==
    ASSUME TypeInv, NEW k \in Conns, Test(k) \/ Enforcer(k)
    PROVE  TypeInv'
  <1>0. TypeOK /\ TestStep(k) /\ \A d \in Conns : PcInv(d)
    BY TestSteps DEF TypeInv
  <1>1. active' \in [Ips -> Nat]
    BY <1>0, DisconnectedType DEF TypeOK, TestStep, Released, TestType
  <1>2. test' \in [Conns -> TestType \cup {NoTest}]
    BY <1>0 DEF TypeOK, TestStep
  <1>3. /\ pc' \in [Conns -> {"idle", "command", "check", "connect", "auth", "admit",
                              "register", "pending", "test", "done"}]
        /\ \A d \in Conns : pc'[d] \in Early => pc'[d] = pc[d]
    BY <1>0 DEF TypeOK, TestStep, Close, Early
  <1>4. \A d \in Conns : PcInv(d)'
    BY <1>0, <1>3 DEF PcInv, Early, TestStep
  <1> QED BY <1>0, <1>1, <1>2, <1>3, <1>4, TestUsageTypes DEF TypeInv, TypeOK, TestStep

LEMMA NextTypes ==
    ASSUME TypeInv, [Next]_vars
    PROVE  TypeInv'
  <1>1. CASE UNCHANGED vars
    BY <1>1 DEF vars, connVars, usageVars, TypeInv, TypeOK, PcInv
  <1> QED BY <1>1, HandlerTypes, TestTypes DEF Next, Quiet

LEMMA TypeInvariant == Spec => []TypeInv
  BY InitTypes, NextTypes, PTL DEF Spec

\* The variables of the pro server keep their types; the connection counts stay
\* natural numbers although the code gives back connections it never counted
\* (QuotaManager::disconnect), and a budget is a u64.
THEOREM TypeCorrect == Spec => []TypeOK
  BY TypeInvariant, PTL DEF TypeInv

-----------------------------------------------------------------------------
(* Ownership of streams *)

\* A session holds pending streams; every pending stream is in one session.
SessionsOwn ==
    /\ \A c \in Conns, t \in Tokens : c \in sessions[t].streams => pc[c] = "pending"
    /\ \A c \in Conns : pc[c] = "pending" => \E t \in Tokens : c \in sessions[t].streams
    /\ \A c \in Conns, t, s \in Tokens :
         c \in sessions[t].streams /\ c \in sessions[s].streams => t = s

\* A live test has streams under test; every such stream is in one live test.
TestsOwn ==
    /\ \A c, k \in Conns : Live(k) /\ c \in test[k].streams => pc[c] = "test"
    /\ \A c \in Conns : pc[c] = "test" => \E k \in Conns : Live(k) /\ c \in test[k].streams
    /\ \A c, k, j \in Conns :
         /\ Live(k) /\ c \in test[k].streams
         /\ Live(j) /\ c \in test[j].streams
         => k = j

\* The connection whose handler started a test is one of its streams.
Starters ==
    \A k \in Conns :
      test[k] # NoTest => pc[k] \in {"test", "done"} /\ k \in test[k].streams

OwnInv == SessionsOwn /\ TestsOwn /\ Starters

\* Handler steps that neither register, join nor start a test.
HandlerAside(c) ==
    /\ UNCHANGED <<sessions, test, registered>>
    /\ pc' = [pc EXCEPT ![c] = pc'[c]]
    /\ pc[c] \in Early \cup {"idle"}
    /\ pc'[c] \in Early \cup {"done"}

LEMMA HandlerSteps ==
    ASSUME TypeInv, NEW c \in Conns, Handler(c)
    PROVE  \/ HandlerAside(c)
           \/ Admit(c)
           \/ \E t \in Tokens : Join(c, t) \/ Register(c, t)
  <1>0. pc \in [Conns -> {"idle", "command", "check", "connect", "auth", "admit",
                          "register", "pending", "test", "done"}]
    BY DEF TypeInv, TypeOK
  <1>1. ASSUME NEW i \in Ips, Accept(c, i) PROVE HandlerAside(c)
    BY <1>0, <1>1 DEF HandlerAside, Early, Accept
  <1>2. ASSUME NEW head, NEW n, Request(c, head, n) PROVE HandlerAside(c)
    BY <1>0, <1>2 DEF HandlerAside, Early, Request
  <1>3. ASSUME NEW u, AuthOk(c, u) PROVE HandlerAside(c)
    BY <1>0, <1>3 DEF HandlerAside, Early, AuthOk
  <1>4. ASSUME Drop(c) \/ CheckIp(c) \/ Connect(c) \/ AuthFails(c) \/ Refuse(c)
        PROVE  HandlerAside(c)
    BY <1>0, <1>4 DEF HandlerAside, Early, Drop, CheckIp, Connect, AuthFails, Refuse
  <1> QED BY <1>1, <1>2, <1>3, <1>4 DEF Handler

LEMMA InitOwns == Init => OwnInv
  BY DEF Init, OwnInv, SessionsOwn, TestsOwn, Starters, NoSession, NoTest, Live, Occupied

\* A connection whose handler has not returned has no test and is in none.
LEMMA NotTested ==
    ASSUME OwnInv, NEW c \in Conns, pc[c] \in Early
    PROVE  /\ test[c] = NoTest /\ ~Live(c)
           /\ \A k \in Conns : Live(k) => c \notin test[k].streams
  <1>1. test[c] = NoTest
    BY DEF OwnInv, Starters, Early
  <1>2. ~Live(c)
    BY <1>1 DEF NoTest, Live, Occupied
  <1>3. \A k \in Conns : Live(k) => c \notin test[k].streams
    BY DEF OwnInv, TestsOwn, Early
  <1> QED BY <1>1, <1>2, <1>3

LEMMA AdmitOwns ==
    ASSUME TypeInv, OwnInv, NEW c \in Conns, Admit(c)
    PROVE  OwnInv'
  <1>0. /\ test \in [Conns -> TestType \cup {NoTest}]
        /\ pc \in [Conns -> {"idle", "command", "check", "connect", "auth", "admit",
                             "register", "pending", "test", "done"}]
    BY DEF TypeInv, TypeOK
  <1>1. CASE count[c] > 0
    <2>1. /\ pc[c] = "admit" /\ pc' = [pc EXCEPT ![c] = "register"]
          /\ UNCHANGED <<sessions, test>>
      BY <1>1 DEF Admit
    <2>2. SessionsOwn'
      BY <1>0, <2>1 DEF OwnInv, SessionsOwn
    <2>3. TestsOwn'
      BY <1>0, <2>1 DEF OwnInv, TestsOwn, Live
    <2>4. Starters'
      BY <1>0, <2>1 DEF OwnInv, Starters
    <2> QED BY <2>2, <2>3, <2>4 DEF OwnInv
  <1>2. CASE ~(count[c] > 0)
    <2>1. PICK alone \in BOOLEAN :
            test' = [test EXCEPT ![c] = NewTest(user[c], ip[c], {c}, TRUE, alone)]
      BY <1>2 DEF Admit
    <2>2. /\ test'[c] # NoTest /\ test'[c].streams = {c} /\ Live(c)'
          /\ \A k \in Conns \ {c} : test'[k] = test[k] /\ (Live(k)' <=> Live(k))
      BY <1>0, <2>1 DEF NewTest, NoTest, Live, Occupied
    <2>3. /\ pc[c] = "admit" /\ pc' = [pc EXCEPT ![c] = "test"] /\ sessions' = sessions
      BY <1>2 DEF Admit
    <2>4. SessionsOwn'
      BY <1>0, <2>3 DEF OwnInv, SessionsOwn
    <2>5. TestsOwn'
      <3>1. \A k \in Conns : Live(k) => c \notin test[k].streams
        BY <2>3, NotTested DEF Early
      <3>2. ~Live(c)
        BY <2>3, NotTested DEF Early
      <3>3. pc'[c] = "test" /\ \A d \in Conns \ {c} : pc'[d] = pc[d]
        BY <1>0, <2>3
      <3>4. c \in test'[c].streams
        BY <2>2
      <3>5. \A d \in Conns : d # c => d \notin test'[c].streams
        BY <2>2
      <3>6. \A d, k \in Conns : Live(k)' /\ d \in test'[k].streams => pc'[d] = "test"
        BY <2>2, <3>1, <3>3, <3>5 DEF OwnInv, TestsOwn
      <3>7. \A d \in Conns : pc'[d] = "test" => \E k \in Conns : Live(k)' /\ d \in test'[k].streams
        BY <2>2, <3>1, <3>2, <3>3, <3>4 DEF OwnInv, TestsOwn
      <3>8. \A d, k, j \in Conns : /\ Live(k)' /\ d \in test'[k].streams
                                   /\ Live(j)' /\ d \in test'[j].streams
                                   => k = j
        BY <2>2, <3>1, <3>5 DEF OwnInv, TestsOwn
      <3> QED BY <3>6, <3>7, <3>8 DEF TestsOwn
    <2>6. Starters'
      BY <1>0, <2>2, <2>3 DEF OwnInv, Starters
    <2> QED BY <2>4, <2>5, <2>6 DEF OwnInv
  <1> QED BY <1>1, <1>2

LEMMA JoinOwns ==
    ASSUME TypeInv, OwnInv, NEW c \in Conns, NEW t \in Tokens, Join(c, t)
    PROVE  OwnInv'
  <1> DEFINE S == sessions[t].streams \cup {c}
  <1>0. /\ test \in [Conns -> TestType \cup {NoTest}]
        /\ sessions \in [Tokens -> SessionType \cup {NoSession}]
        /\ pc \in [Conns -> {"idle", "command", "check", "connect", "auth", "admit",
                             "register", "pending", "test", "done"}]
    BY DEF TypeInv, TypeOK
  <1>1. /\ pc[c] = "command" /\ sessions[t] \in SessionType /\ S \in SUBSET Conns /\ c \in S
        /\ \A d \in S : d # c => d \in sessions[t].streams
        /\ \A d \in sessions[t].streams : d \in S
    BY <1>0 DEF Join, Joinable, SessionType
  <1>2. CASE Cardinality(S) >= sessions[t].expected
    <2>1. /\ sessions' = [sessions EXCEPT ![t] = NoSession]
          /\ pc' = [d \in Conns |-> IF d \in S THEN "test" ELSE pc[d]]
          /\ test' = [test EXCEPT ![c] = NewTest(sessions[t].user, ip[c], S, FALSE, FALSE)]
      BY <1>2 DEF Join
    <2>2. /\ test'[c] # NoTest /\ test'[c].streams = S /\ Live(c)'
          /\ \A k \in Conns \ {c} : test'[k] = test[k] /\ (Live(k)' <=> Live(k))
      BY <1>0, <2>1 DEF NewTest, NoTest, Live, Occupied
    <2>3. /\ sessions'[t].streams = {}
          /\ \A s \in Tokens \ {t} : sessions'[s] = sessions[s]
      BY <1>0, <2>1 DEF NoSession
    <2> HIDE DEF S
    <2>4. SessionsOwn'
      BY <1>0, <1>1, <2>1, <2>3 DEF OwnInv, SessionsOwn
    <2>5. TestsOwn'
      <3>1. \A d \in S, k \in Conns : Live(k) => d \notin test[k].streams
        BY <1>0, <1>1, NotTested DEF Early, OwnInv, SessionsOwn, TestsOwn
      <3>2. \A d \in Conns : pc'[d] = IF d \in S THEN "test" ELSE pc[d]
        BY <2>1
      <3>3. ~Live(c)
        BY <1>1, NotTested DEF Early
      <3> QED BY <1>0, <1>1, <3>2, <2>2, <3>1, <3>3 DEF OwnInv, TestsOwn
    <2>6. Starters'
      <3>1. \A d \in Conns : pc'[d] = IF d \in S THEN "test" ELSE pc[d]
        BY <2>1
      <3> QED BY <1>1, <2>2, <3>1 DEF OwnInv, Starters
    <2> QED BY <2>4, <2>5, <2>6 DEF OwnInv
  <1>3. CASE ~(Cardinality(S) >= sessions[t].expected)
    <2>1. /\ sessions' = [sessions EXCEPT ![t].streams = S]
          /\ pc' = [pc EXCEPT ![c] = "pending"] /\ test' = test
      BY <1>3 DEF Join
    <2>2. /\ sessions'[t].streams = S
          /\ \A s \in Tokens \ {t} : sessions'[s] = sessions[s]
      BY <1>0, <1>1, <2>1 DEF SessionType
    <2> HIDE DEF S
    <2>3. SessionsOwn'
      BY <1>0, <1>1, <2>1, <2>2 DEF OwnInv, SessionsOwn
    <2>4. TestsOwn' /\ Starters'
      BY <1>0, <1>1, <2>1 DEF OwnInv, TestsOwn, Starters, Live
    <2> QED BY <2>3, <2>4 DEF OwnInv
  <1> QED BY <1>2, <1>3

LEMMA RegisterOwns ==
    ASSUME TypeInv, OwnInv, NEW c \in Conns, NEW t \in Tokens, Register(c, t)
    PROVE  OwnInv'
  <1>0. /\ sessions \in [Tokens -> SessionType \cup {NoSession}]
        /\ pc \in [Conns -> {"idle", "command", "check", "connect", "auth", "admit",
                             "register", "pending", "test", "done"}]
    BY DEF TypeInv, TypeOK
  <1>1. /\ pc[c] = "register" /\ pc'[c] = "pending" /\ test' = test
        /\ \A d \in Conns \ {c} :
             pc'[d] = IF d \in sessions[t].streams THEN "done" ELSE pc[d]
    BY <1>0 DEF Register, Close
  <1>2. /\ sessions'[t].streams = {c}
        /\ \A s \in Tokens \ {t} : sessions'[s] = sessions[s]
    BY <1>0 DEF Register
  <1>3. SessionsOwn'
    BY <1>0, <1>1, <1>2 DEF OwnInv, SessionsOwn
  <1>4. TestsOwn' /\ Starters'
    BY <1>0, <1>1 DEF OwnInv, SessionsOwn, TestsOwn, Starters, Live
  <1> QED BY <1>3, <1>4 DEF OwnInv

LEMMA HandlerOwns ==
    ASSUME TypeInv, OwnInv, NEW c \in Conns, Handler(c)
    PROVE  OwnInv'
  <1>1. CASE HandlerAside(c)
    <2>1. pc \in [Conns -> {"idle", "command", "check", "connect", "auth", "admit",
                            "register", "pending", "test", "done"}]
      BY DEF TypeInv, TypeOK
    <2>2. \A d \in Conns : d # c => pc'[d] = pc[d]
      BY <1>1, <2>1 DEF HandlerAside
    <2> QED BY <1>1, <2>1, <2>2 DEF HandlerAside, Early, OwnInv, SessionsOwn, TestsOwn,
                                    Starters, Live
  <1> QED BY <1>1, HandlerSteps, AdmitOwns, JoinOwns, RegisterOwns

LEMMA TestOwns ==
    ASSUME TypeInv, OwnInv, NEW k \in Conns, TestStep(k)
    PROVE  OwnInv'
  <1>0. /\ test \in [Conns -> TestType \cup {NoTest}]
        /\ pc \in [Conns -> {"idle", "command", "check", "connect", "auth", "admit",
                             "register", "pending", "test", "done"}]
    BY DEF TypeInv, TypeOK
  <1>1. /\ \A j \in Conns \ {k} : test'[j] = test[j] /\ (Live(j)' <=> Live(j))
        /\ Live(k) /\ test'[k].streams = test[k].streams /\ test[k] # NoTest
    BY <1>0 DEF TestStep, Live, NoTest, Occupied
  <1>2. CASE test'[k].phase \in Occupied /\ pc' = pc
    <2>1. Live(k)'
      BY <1>2 DEF Live
    <2> QED BY <1>0, <1>1, <1>2, <2>1 DEF TestStep, OwnInv, SessionsOwn, TestsOwn, Starters
  <1>3. CASE test'[k].phase = "ended" /\ pc' = Close(test[k].streams)
    <2>1. ~Live(k)'
      BY <1>3 DEF Live, Occupied
    <2>2. \A d \in Conns : pc'[d] = IF d \in test[k].streams THEN "done" ELSE pc[d]
      BY <1>3 DEF Close
    <2>3. SessionsOwn'
      BY <1>0, <1>1, <2>2 DEF TestStep, OwnInv, SessionsOwn, TestsOwn
    <2>4. TestsOwn'
      BY <1>0, <1>1, <2>1, <2>2 DEF OwnInv, TestsOwn
    <2>5. Starters'
      BY <1>0, <1>1, <2>2 DEF OwnInv, Starters
    <2> QED BY <2>3, <2>4, <2>5 DEF OwnInv
  <1> QED BY <1>2, <1>3 DEF TestStep

LEMMA NextOwns ==
    ASSUME TypeInv, OwnInv, [Next]_vars
    PROVE  OwnInv'
  <1>1. CASE UNCHANGED vars
    BY <1>1 DEF vars, connVars, usageVars, OwnInv, SessionsOwn, TestsOwn, Starters, Live
  <1> QED BY <1>1, HandlerOwns, TestSteps, TestOwns DEF Next, Quiet

LEMMA OwnInvariant == Spec => []OwnInv
  BY InitOwns, TypeInvariant, NextOwns, PTL DEF Spec

LEMMA OwnedOnce ==
    ASSUME TypeInv, OwnInv
    PROVE  StreamsOwned
  <1> SUFFICES ASSUME NEW c \in Conns
               PROVE  /\ Cardinality({t \in Tokens : c \in sessions[t].streams})
                           = IF pc[c] = "pending" THEN 1 ELSE 0
                      /\ Cardinality({k \in Conns : Live(k) /\ c \in test[k].streams})
                           = IF pc[c] = "test" THEN 1 ELSE 0
    BY DEF StreamsOwned
  <1> DEFINE T == {t \in Tokens : c \in sessions[t].streams}
             K == {k \in Conns : Live(k) /\ c \in test[k].streams}
  <1>1. CASE pc[c] = "pending"
    <2>1. PICK t \in Tokens : c \in sessions[t].streams
      BY <1>1 DEF OwnInv, SessionsOwn
    <2>2. T = {t}
      BY <2>1 DEF OwnInv, SessionsOwn
    <2>3. K = {}
      BY <1>1 DEF OwnInv, TestsOwn
    <2> HIDE DEF T, K
    <2> QED BY <1>1, <2>2, <2>3, FS_Singleton, FS_EmptySet DEF T, K
  <1>2. CASE pc[c] = "test"
    <2>1. PICK k \in Conns : Live(k) /\ c \in test[k].streams
      BY <1>2 DEF OwnInv, TestsOwn
    <2>2. K = {k}
      BY <2>1 DEF OwnInv, TestsOwn
    <2>3. T = {}
      BY <1>2 DEF OwnInv, SessionsOwn
    <2> QED BY <1>2, <2>2, <2>3, FS_Singleton, FS_EmptySet
  <1>3. CASE pc[c] \notin {"pending", "test"}
    <2>1. T = {} /\ K = {}
      BY <1>3 DEF OwnInv, SessionsOwn, TestsOwn
    <2> QED BY <1>3, <2>1, FS_EmptySet
  <1> QED BY <1>1, <1>2, <1>3

\* Every stream is held in one place, whatever joins, collides or overwrites: a
\* pending one by exactly one session of the map, one under test by exactly one
\* live test (handle_pro_connection, run_pro_multiconn_test).
THEOREM StreamOwnership == Spec => []StreamsOwned
  BY TypeInvariant, OwnInvariant, OwnedOnce, PTL

-----------------------------------------------------------------------------
(* Multi-connection sessions and tests *)

\* The handler of such a connection has returned or become a test.
Settled == {"pending", "test", "done"}

\* A pending session has the connection that registered it, which named its
\* user and how many to expect, no more than it expects, all of one address.
SessionWhole(t) ==
    sessions[t] # NoSession =>
      /\ \E p \in sessions[t].streams \cap registered :
           sessions[t].expected = count[p] /\ sessions[t].user = user[p]
      /\ Cardinality(sessions[t].streams) <= sessions[t].expected
      /\ \A c \in sessions[t].streams : ip[c] = sessions[t].ip

WholeInv ==
    /\ \A c \in registered : pc[c] \in Settled
    /\ \A t \in Tokens : SessionWhole(t)
    /\ MultiTestWhole

\* A handler writes nothing of a connection but its own, and nothing once it
\* has returned.
LEMMA HandlerFrame ==
    ASSUME TypeInv, NEW c \in Conns, Handler(c)
    PROVE  /\ pc[c] \notin Settled
           /\ \A d \in Conns \ {c} :
                ip'[d] = ip[d] /\ count'[d] = count[d] /\ user'[d] = user[d]
  <1>0. TypeOK
    BY DEF TypeInv
  <1>1. ASSUME NEW i \in Ips, Accept(c, i)
        PROVE  pc[c] = "idle" /\ UNCHANGED <<count, user>> /\ ip' = [ip EXCEPT ![c] = i]
    BY <1>1 DEF Accept
  <1>2. ASSUME NEW head, NEW n, Request(c, head, n)
        PROVE  pc[c] = "command" /\ UNCHANGED <<ip, user>> /\ count' = [count EXCEPT ![c] = n]
    BY <1>2 DEF Request
  <1>3. ASSUME NEW u, AuthOk(c, u)
        PROVE  pc[c] = "auth" /\ UNCHANGED <<ip, count>> /\ user' = [user EXCEPT ![c] = u]
    BY <1>3 DEF AuthOk
  <1>4. ASSUME \/ Drop(c) \/ CheckIp(c) \/ Connect(c) \/ AuthFails(c) \/ Refuse(c) \/ Admit(c)
               \/ \E t \in Tokens : Join(c, t) \/ Register(c, t)
        PROVE  /\ pc[c] \in {"command", "check", "connect", "auth", "admit", "register"}
               /\ UNCHANGED <<ip, count, user>>
    BY <1>4 DEF Drop, CheckIp, Connect, AuthFails, Refuse, Admit, Join, Register
  <1> QED BY <1>0, <1>1, <1>2, <1>3, <1>4 DEF Handler, TypeOK, Settled

LEMMA InitWhole == Init => WholeInv
  BY DEF Init, WholeInv, SessionWhole, MultiTestWhole, NoTest, Live, Occupied

\* What a session says of its streams survives the steps of other handlers.
LEMMA SessionStays ==
    ASSUME TypeInv, OwnInv, NEW t \in Tokens, SessionWhole(t), NEW c \in Conns,
           Handler(c), sessions'[t] = sessions[t], registered \subseteq registered'
    PROVE  SessionWhole(t)'
  <1> SUFFICES ASSUME sessions[t] # NoSession
               PROVE  /\ \E p \in sessions[t].streams \cap registered' :
                           /\ sessions[t].expected = count'[p]
                           /\ sessions[t].user = user'[p]
                      /\ Cardinality(sessions[t].streams) <= sessions[t].expected
                      /\ \A d \in sessions[t].streams : ip'[d] = sessions[t].ip
    BY DEF SessionWhole
  <1>1. sessions[t] \in SessionType
    BY DEF TypeInv, TypeOK
  <1>2. \A d \in sessions[t].streams : d \in Conns /\ pc[d] = "pending"
    BY <1>1 DEF OwnInv, SessionsOwn, SessionType
  <1>3. \A d \in sessions[t].streams :
          ip'[d] = ip[d] /\ count'[d] = count[d] /\ user'[d] = user[d]
    BY <1>2, HandlerFrame DEF Settled
  <1> QED BY <1>3 DEF SessionWhole

\* So does what a live test says of its streams.
LEMMA TestStays ==
    ASSUME TypeInv, OwnInv, MultiTestWhole, NEW k \in Conns, NEW c \in Conns,
           Handler(c), test'[k] = test[k], registered \subseteq registered',
           Live(k), ~test[k].single
    PROVE  \E p \in test[k].streams \cap registered' :
             /\ Cardinality(test[k].streams) = count'[p]
             /\ test[k].user = user'[p]
             /\ \A d \in test[k].streams : ip'[d] = test[k].ip
  <1>1. test[k] \in TestType
    BY StartedType DEF TypeInv, Live, Occupied
  <1>2. \A d \in test[k].streams : d \in Conns /\ pc[d] = "test"
    BY <1>1 DEF OwnInv, TestsOwn, TestType
  <1>3. \A d \in test[k].streams :
          ip'[d] = ip[d] /\ count'[d] = count[d] /\ user'[d] = user[d]
    BY <1>2, HandlerFrame DEF Settled
  <1> QED BY <1>3 DEF MultiTestWhole

LEMMA JoinCount ==
    ASSUME TypeInv, OwnInv, NEW c \in Conns, NEW t \in Tokens, Join(c, t)
    PROVE  Cardinality(sessions[t].streams \cup {c})
             = Cardinality(sessions[t].streams) + 1
  <1>1. sessions[t].streams \subseteq Conns /\ c \notin sessions[t].streams
    BY DEF TypeInv, TypeOK, SessionType, Join, Joinable, OwnInv, SessionsOwn
  <1> QED BY <1>1, FiniteConns, FS_AddElement

LEMMA JoinWhole ==
    ASSUME TypeInv, OwnInv, WholeInv, NEW c \in Conns, NEW t \in Tokens, Join(c, t)
    PROVE  WholeInv'
  <1> DEFINE S == sessions[t].streams \cup {c}
  <1>h. Handler(c)
    BY DEF Handler
  <1>0. TypeOK
    BY DEF TypeInv
  <1>1. /\ pc[c] = "command" /\ sessions[t] \in SessionType
        /\ UNCHANGED <<ip, count, user, registered>> /\ sessions[t].ip = ip[c]
        /\ Cardinality(sessions[t].streams) < sessions[t].expected
        /\ sessions[t].expected \in Nat
    BY <1>0 DEF TypeOK, Join, Joinable, SessionType
  <1>2. /\ Cardinality(S) = Cardinality(sessions[t].streams) + 1
        /\ Cardinality(sessions[t].streams) \in Nat
    BY <1>1, JoinCount, FiniteConns DEF SessionType
  <1>3. PICK p \in sessions[t].streams \cap registered :
          sessions[t].expected = count[p] /\ sessions[t].user = user[p]
    BY <1>1 DEF WholeInv, SessionWhole, Joinable, Join
  <1>4. \A d \in S : ip[d] = ip[c]
    BY <1>1 DEF WholeInv, SessionWhole, Joinable, Join
  <1>5. \A d \in registered' : pc'[d] \in Settled
    BY <1>0, <1>1 DEF WholeInv, Settled, Join, TypeOK
  <1>6. p \in S
    OBVIOUS
  <1>7. CASE Cardinality(S) >= sessions[t].expected
    <2>1. /\ sessions' = [sessions EXCEPT ![t] = NoSession]
          /\ test' = [test EXCEPT ![c] = NewTest(sessions[t].user, ip[c], S, FALSE, FALSE)]
      BY <1>7 DEF Join
    <2>2. \A s \in Tokens : SessionWhole(s)'
      <3> TAKE s \in Tokens
      <3>1. CASE s = t
        BY <1>0, <2>1, <3>1 DEF TypeOK, SessionWhole
      <3>2. CASE s # t
        <4>1. sessions'[s] = sessions[s]
          BY <1>0, <2>1, <3>2 DEF TypeOK
        <4> QED BY <1>h, <1>1, <4>1, SessionStays DEF WholeInv
      <3> QED BY <3>1, <3>2
    <2>3. /\ test'[c].streams = S /\ test'[c].user = sessions[t].user /\ test'[c].ip = ip[c]
          /\ \A k \in Conns \ {c} : test'[k] = test[k] /\ (Live(k)' <=> Live(k))
      BY <1>0, <2>1 DEF TypeOK, NewTest, Live
    <2>4. Cardinality(S) = count[p]
      BY <1>1, <1>2, <1>3, <1>7
    <2> HIDE DEF S
    <2>5. MultiTestWhole'
      <3> SUFFICES ASSUME NEW k \in Conns, Live(k)', ~test'[k].single
                   PROVE  \E q \in test'[k].streams \cap registered' :
                            /\ Cardinality(test'[k].streams) = count'[q]
                            /\ test'[k].user = user'[q]
                            /\ \A d \in test'[k].streams : ip'[d] = test'[k].ip
        BY DEF MultiTestWhole
      <3>1. CASE k = c
        BY <1>1, <1>3, <1>4, <1>6, <2>3, <2>4, <3>1
      <3>2. CASE k # c
        BY <1>h, <1>1, <2>3, <3>2, TestStays DEF WholeInv
      <3> QED BY <3>1, <3>2
    <2> QED BY <1>5, <2>2, <2>5 DEF WholeInv
  <1>8. CASE ~(Cardinality(S) >= sessions[t].expected)
    <2>1. sessions' = [sessions EXCEPT ![t].streams = S] /\ test' = test
      BY <1>8 DEF Join
    <2>2. \A s \in Tokens : SessionWhole(s)'
      <3> TAKE s \in Tokens
      <3>1. CASE s = t
        <4>1. /\ sessions'[t].streams = S /\ sessions'[t].ip = sessions[t].ip
              /\ sessions'[t].expected = sessions[t].expected
              /\ sessions'[t].user = sessions[t].user
          BY <1>0, <1>1, <2>1 DEF TypeOK, SessionType
        <4>2. Cardinality(S) <= sessions[t].expected
          BY <1>1, <1>2
        <4> HIDE DEF S
        <4> QED BY <1>1, <1>3, <1>4, <1>6, <4>1, <4>2, <3>1 DEF SessionWhole
      <3>2. CASE s # t
        <4>1. sessions'[s] = sessions[s]
          BY <1>0, <2>1, <3>2 DEF TypeOK
        <4> QED BY <1>h, <1>1, <4>1, SessionStays DEF WholeInv
      <3> QED BY <3>1, <3>2
    <2>3. MultiTestWhole'
      BY <1>1, <2>1 DEF WholeInv, MultiTestWhole, Live
    <2> QED BY <1>5, <2>2, <2>3 DEF WholeInv
  <1> QED BY <1>7, <1>8

LEMMA RegisterWhole ==
    ASSUME TypeInv, OwnInv, WholeInv, NEW c \in Conns, NEW t \in Tokens, Register(c, t)
    PROVE  WholeInv'
  <1>h. Handler(c)
    BY DEF Handler
  <1>0. TypeOK /\ PcInv(c)
    BY DEF TypeInv
  <1>1. /\ pc[c] = "register" /\ registered' = registered \cup {c}
        /\ UNCHANGED <<ip, count, user, test>>
        /\ sessions' = [sessions EXCEPT ![t] =
                          [ip |-> ip[c], user |-> user[c], expected |-> count[c],
                           streams |-> {c}]]
    BY DEF Register
  <1>2. \A d \in registered' : pc'[d] \in Settled
    BY <1>0, <1>1 DEF WholeInv, Settled, Register, Close, TypeOK
  <1>3. \A s \in Tokens : SessionWhole(s)'
    <2> TAKE s \in Tokens
    <2>1. CASE s = t
      <3>1. sessions'[t] = [ip |-> ip[c], user |-> user[c], expected |-> count[c],
                            streams |-> {c}]
        BY <1>0, <1>1 DEF TypeOK
      <3>2. Cardinality({c}) = 1 /\ count[c] > 0 /\ count[c] \in Nat
        BY <1>0, <1>1, FS_Singleton DEF PcInv, TypeOK
      <3> QED BY <1>1, <2>1, <3>1, <3>2 DEF SessionWhole
    <2>2. CASE s # t
      <3>1. sessions'[s] = sessions[s]
        BY <1>0, <1>1, <2>2 DEF TypeOK
      <3> QED BY <1>h, <1>1, <3>1, SessionStays DEF WholeInv
    <2> QED BY <2>1, <2>2
  <1>4. MultiTestWhole'
    BY <1>1 DEF WholeInv, MultiTestWhole, Live
  <1> QED BY <1>2, <1>3, <1>4 DEF WholeInv

LEMMA HandlerWhole ==
    ASSUME TypeInv, OwnInv, WholeInv, NEW c \in Conns, Handler(c)
    PROVE  WholeInv'
  <1>0. TypeOK
    BY DEF TypeInv
  <1>1. ASSUME sessions' = sessions, registered' = registered,
               \A d \in Conns \ {c} : pc'[d] = pc[d],
               \A k \in Conns \ {c} : test'[k] = test[k],
               test'[c] = test[c] \/ test'[c].single = TRUE
        PROVE  WholeInv'
    <2>1. \A d \in registered' : pc'[d] \in Settled
      BY <1>0, <1>1, HandlerFrame DEF TypeOK, WholeInv
    <2>2. \A t \in Tokens : SessionWhole(t)'
      BY <1>1, SessionStays DEF WholeInv
    <2>3. MultiTestWhole'
      <3> SUFFICES ASSUME NEW k \in Conns, Live(k)', ~test'[k].single
                   PROVE  \E q \in test'[k].streams \cap registered' :
                            /\ Cardinality(test'[k].streams) = count'[q]
                            /\ test'[k].user = user'[q]
                            /\ \A d \in test'[k].streams : ip'[d] = test'[k].ip
        BY DEF MultiTestWhole
      <3>1. test'[k] = test[k] /\ Live(k)
        BY <1>1 DEF Live
      <3> QED BY <1>1, <3>1, TestStays DEF WholeInv
    <2> QED BY <2>1, <2>2, <2>3 DEF WholeInv
  <1>2. CASE HandlerAside(c)
    <2>1. \A d \in Conns \ {c} : pc'[d] = pc[d]
      BY <1>0, <1>2 DEF HandlerAside, TypeOK
    <2> QED BY <1>1, <1>2, <2>1 DEF HandlerAside
  <1>3. CASE Admit(c)
    <2>1. /\ sessions' = sessions /\ registered' = registered
          /\ \A d \in Conns \ {c} : pc'[d] = pc[d]
          /\ \A k \in Conns \ {c} : test'[k] = test[k]
      BY <1>0, <1>3 DEF TypeOK, Admit
    <2>2. test'[c] = test[c] \/ test'[c].single = TRUE
      BY <1>0, <1>3 DEF TypeOK, Admit, NewTest
    <2> QED BY <1>1, <2>1, <2>2
  <1> QED BY <1>2, <1>3, HandlerSteps, JoinWhole, RegisterWhole

LEMMA TestWhole ==
    ASSUME TypeInv, OwnInv, WholeInv, NEW k \in Conns, TestStep(k)
    PROVE  WholeInv'
  <1>0. TypeOK
    BY DEF TypeInv
  <1>1. \A d \in registered' : pc'[d] \in Settled
    BY <1>0 DEF TypeOK, TestStep, WholeInv, Settled, Close
  <1>2. \A t \in Tokens : SessionWhole(t)'
    BY DEF TestStep, WholeInv, SessionWhole
  <1>3. \A j \in Conns : /\ test'[j].single = test[j].single
                         /\ Live(j)' => Live(j) /\ test'[j].streams = test[j].streams
                         /\ Live(j)' => test'[j].user = test[j].user /\ test'[j].ip = test[j].ip
    BY <1>0 DEF TypeOK, TestStep, Live
  <1>4. MultiTestWhole'
    BY <1>3 DEF TestStep, WholeInv, MultiTestWhole
  <1> QED BY <1>1, <1>2, <1>4 DEF WholeInv

LEMMA NextWhole ==
    ASSUME TypeInv, OwnInv, WholeInv, [Next]_vars
    PROVE  WholeInv'
  <1>1. CASE UNCHANGED vars
    BY <1>1 DEF vars, connVars, usageVars, WholeInv, SessionWhole, MultiTestWhole, Live
  <1> QED BY <1>1, HandlerWhole, TestSteps, TestWhole DEF Next, Quiet

LEMMA WholeInvariant == Spec => []WholeInv
  BY InitWhole, TypeInvariant, OwnInvariant, NextWhole, PTL DEF Spec

\* A multi-connection test has exactly the connections its primary asked for,
\* all from the primary's address, and is charged to the primary's user, also
\* when tokens collide and sessions are overwritten (handle_pro_connection).
THEOREM WholeMultiTests == Spec => []MultiTestWhole
  BY WholeInvariant, PTL DEF WholeInv

-----------------------------------------------------------------------------
(* Active connections *)

\* c counts against the limit of its address.
InCount(c) ==
    \/ pc[c] \in {"auth", "admit", "register"}
    \/ Live(c) /\ test[c].single

\* A single-connection test is counted for the address it gives back.
SingleIp == \A k \in Conns : Live(k) /\ test[k].single => test[k].ip = ip[k]

\* Primaries that have registered a session and count for ever.
Registered(i) == {c \in registered : ip[c] = i}

\* The count is that of the counted connections and the registered primaries.
ActiveCount ==
    \A i \in Ips :
      /\ active[i] <= Cardinality(Counted(i)) + Cardinality(Registered(i))
      /\ i \notin spurious =>
           active[i] = Cardinality(Counted(i)) + Cardinality(Registered(i))

\* The handler of a registered primary started no test.
RegisteredStartNothing == \A c \in registered : test[c] = NoTest

AccountInv == SingleIp /\ RegisteredStartNothing /\ ActiveCount

LEMMA CountedSame ==
    ASSUME \A d \in Conns : (InCount(d)' <=> InCount(d)) /\ (InCount(d) => ip'[d] = ip[d])
    PROVE  \A i \in Ips : Counted(i)' = Counted(i)
  BY DEF Counted, InCount

LEMMA CountedGains ==
    ASSUME NEW c \in Conns, ip' = ip, ~InCount(c), InCount(c)',
           \A d \in Conns \ {c} : InCount(d)' <=> InCount(d), NEW i \in Ips
    PROVE  Cardinality(Counted(i))' =
             IF ip[c] = i THEN Cardinality(Counted(i)) + 1 ELSE Cardinality(Counted(i))
  <1>1. Counted(i)' = IF ip[c] = i THEN Counted(i) \cup {c} ELSE Counted(i)
    BY DEF Counted, InCount
  <1>2. Counted(i) \subseteq Conns /\ c \notin Counted(i)
    BY DEF Counted, InCount
  <1> HIDE DEF Counted
  <1>3. Cardinality(Counted(i) \cup {c}) = Cardinality(Counted(i)) + 1
    BY <1>2, FiniteConns, FS_AddElement
  <1> QED BY <1>1, <1>3

LEMMA CountedLoses ==
    ASSUME NEW c \in Conns, ip' = ip, InCount(c), ~InCount(c)',
           \A d \in Conns \ {c} : InCount(d)' <=> InCount(d), NEW i \in Ips
    PROVE  /\ Cardinality(Counted(i))' =
                IF ip[c] = i THEN Cardinality(Counted(i)) - 1 ELSE Cardinality(Counted(i))
           /\ ip[c] = i => Cardinality(Counted(i)) >= 1
  <1>1. Counted(i)' = IF ip[c] = i THEN Counted(i) \ {c} ELSE Counted(i)
    BY DEF Counted, InCount
  <1>2. Counted(i) \subseteq Conns /\ (ip[c] = i => c \in Counted(i))
    BY DEF Counted, InCount
  <1> HIDE DEF Counted
  <1>3. /\ Cardinality(Counted(i)) \in Nat /\ Cardinality(Counted(i) \ {c}) \in Nat
        /\ ip[c] = i => Cardinality(Counted(i) \ {c}) = Cardinality(Counted(i)) - 1
    BY <1>2, FiniteConns, FS_RemoveElement
  <1> QED BY <1>1, <1>3

LEMMA CountNat ==
    ASSUME TypeOK, NEW i \in Ips
    PROVE  Cardinality(Counted(i)) \in Nat /\ Cardinality(Registered(i)) \in Nat
  <1>1. Counted(i) \subseteq Conns /\ Registered(i) \subseteq Conns
    BY DEF Counted, Registered, TypeOK
  <1> QED BY <1>1, FiniteConns

LEMMA InitAccount == Init => AccountInv
  <1> SUFFICES ASSUME Init PROVE AccountInv
    OBVIOUS
  <1>1. SingleIp
    BY DEF Init, SingleIp, Live, NoTest, Occupied
  <1>2. ASSUME NEW i \in Ips PROVE Counted(i) = {} /\ Registered(i) = {}
    BY DEF Init, Counted, Registered, Live, NoTest, Occupied
  <1>3. ActiveCount
    BY <1>2, FS_EmptySet DEF ActiveCount, Init
  <1>4. RegisteredStartNothing
    BY DEF Init, RegisteredStartNothing
  <1> QED BY <1>1, <1>3, <1>4 DEF AccountInv

\* A step that counts nobody in or out.
LEMMA AccountSame ==
    ASSUME TypeOK, ActiveCount, active' = active, spurious' = spurious,
           \A i \in Ips : Registered(i)' = Registered(i),
           \A d \in Conns : (InCount(d)' <=> InCount(d)) /\ (InCount(d) => ip'[d] = ip[d])
    PROVE  ActiveCount'
  BY CountedSame DEF ActiveCount

\* A step that gives back a connection that was counted.
LEMMA AccountLoses ==
    ASSUME TypeOK, ActiveCount, NEW c \in Conns, ip[c] \in Ips, ip' = ip, InCount(c),
           ~InCount(c)', \A d \in Conns \ {c} : InCount(d)' <=> InCount(d),
           active' = Disconnected(ip[c]), UNCHANGED <<spurious, registered>>
    PROVE  ActiveCount'
  <1> SUFFICES ASSUME NEW i \in Ips
               PROVE  /\ active'[i] <= Cardinality(Counted(i))' + Cardinality(Registered(i))'
                      /\ i \notin spurious =>
                           active'[i] = Cardinality(Counted(i))' + Cardinality(Registered(i))'
    BY DEF ActiveCount
  <1>1. /\ Cardinality(Counted(i))' =
             IF ip[c] = i THEN Cardinality(Counted(i)) - 1 ELSE Cardinality(Counted(i))
        /\ ip[c] = i => Cardinality(Counted(i)) >= 1
    BY CountedLoses
  <1>2. Registered(i)' = Registered(i)
    BY DEF Registered
  <1>3. active'[i] = IF ip[c] = i THEN (IF active[i] > 0 THEN active[i] - 1 ELSE 0)
                     ELSE active[i]
    BY DEF Disconnected, TypeOK
  <1>4. active[i] \in Nat
    BY DEF TypeOK
  <1> QED BY <1>1, <1>2, <1>3, <1>4, CountNat DEF ActiveCount

LEMMA HandlerAccount ==
    ASSUME TypeInv, OwnInv, WholeInv, AccountInv, NEW c \in Conns, Handler(c)
    PROVE  ActiveCount'
  <1>0. TypeOK /\ PcInv(c) /\ ActiveCount /\ pc[c] \in Early \cup {"idle"}
    <2>1. pc[c] \notin Settled
      BY HandlerFrame
    <2> QED BY <2>1 DEF TypeInv, AccountInv, Early, Settled, TypeOK
  <1>1. test[c] = NoTest /\ ~Live(c) /\ c \notin registered
    BY <1>0 DEF OwnInv, Starters, WholeInv, Early, Settled, Live, NoTest, Occupied
  <1>2. InCount(c) <=> pc[c] \in {"auth", "admit", "register"}
    BY <1>1 DEF InCount
  <1>3. pc[c] \in Early => ip[c] \in Ips
    BY <1>0 DEF PcInv
  \* what the other connections see of a step
  <1>4. ASSUME \A d \in Conns \ {c} : pc'[d] = pc[d], test' = test
        PROVE  /\ \A d \in Conns \ {c} : InCount(d)' <=> InCount(d)
               /\ InCount(c)' <=> pc'[c] \in {"auth", "admit", "register"}
    BY <1>1, <1>4 DEF InCount, Live
  <1>5. ASSUME registered' = registered, NEW i \in Ips PROVE Registered(i)' = Registered(i)
    BY <1>0, <1>1, <1>5, HandlerFrame DEF Registered, TypeOK
  <1>6. ASSUME \/ \E i \in Ips : Accept(c, i)
               \/ CheckIp(c)
               \/ \E head \in Tokens \cup {NoToken}, n \in Counts : Request(c, head, n)
               \/ \E u \in Users : AuthOk(c, u)
        PROVE  ActiveCount'
    <2>1. /\ active' = active /\ spurious' = spurious /\ registered' = registered
          /\ test' = test
      BY <1>6 DEF Accept, CheckIp, Request, AuthOk
    <2>2. /\ \A d \in Conns \ {c} : pc'[d] = pc[d]
          /\ pc'[c] \in {"auth", "admit", "register"} <=> pc[c] \in {"auth", "admit", "register"}
          /\ pc[c] \in {"auth", "admit", "register"} => ip'[c] = ip[c]
      BY <1>0, <1>6 DEF Accept, CheckIp, Request, AuthOk, TypeOK
    <2>3. \A d \in Conns : (InCount(d)' <=> InCount(d)) /\ (InCount(d) => ip'[d] = ip[d])
      BY <1>2, <1>4, <2>1, <2>2, HandlerFrame
    <2> QED BY <1>0, <1>5, <2>1, <2>3, AccountSame
  <1>7. CASE Drop(c)
    <2>1. /\ UNCHANGED <<registered, test, ip>> /\ pc[c] = "command"
          /\ active' = Disconnected(ip[c]) /\ spurious' = spurious \cup {ip[c]}
      BY <1>7 DEF Drop
    <2>2. \A d \in Conns \ {c} : pc'[d] = pc[d]
      BY <1>0, <1>7 DEF Drop, TypeOK
    <2>3. pc'[c] = "done"
      BY <1>0, <1>7 DEF Drop, TypeOK
    <2>4. \A d \in Conns : (InCount(d)' <=> InCount(d)) /\ (InCount(d) => ip'[d] = ip[d])
      BY <1>2, <1>4, <2>1, <2>2, <2>3
    <2>5. \A i \in Ips : Counted(i)' = Counted(i) /\ Registered(i)' = Registered(i)
      BY <1>5, <2>1, <2>4, CountedSame
    <2>6. \A i \in Ips : /\ active'[i] <= active[i]
                         /\ i # ip[c] => active'[i] = active[i]
                         /\ active'[i] \in Nat /\ active[i] \in Nat
      BY <1>0, <2>1 DEF Disconnected, TypeOK
    <2> QED BY <1>0, <2>1, <2>5, <2>6, CountNat DEF ActiveCount
  <1>8. CASE Connect(c)
    <2>1. /\ UNCHANGED <<registered, test, ip, spurious>> /\ pc[c] = "connect"
          /\ active' = [active EXCEPT ![ip[c]] = @ + 1]
          /\ pc'[c] = "auth" /\ \A d \in Conns \ {c} : pc'[d] = pc[d]
      BY <1>0, <1>8 DEF Connect, TypeOK
    <2>2. \A i \in Ips : Cardinality(Counted(i))' =
             IF ip[c] = i THEN Cardinality(Counted(i)) + 1 ELSE Cardinality(Counted(i))
      BY <1>2, <1>4, <2>1, CountedGains
    <2>3. \A i \in Ips : /\ active'[i] = IF ip[c] = i THEN active[i] + 1 ELSE active[i]
                         /\ active[i] \in Nat
      BY <1>0, <2>1 DEF TypeOK
    <2>4. \A i \in Ips : Registered(i)' = Registered(i)
      BY <1>5, <2>1
    <2> QED BY <1>0, <2>1, <2>2, <2>3, <2>4, CountNat DEF ActiveCount
  <1>9. CASE AuthFails(c) \/ Refuse(c)
    <2>1. /\ UNCHANGED <<registered, test, ip, spurious>> /\ pc[c] \in {"auth", "admit"}
          /\ active' = Disconnected(ip[c])
          /\ pc'[c] = "done" /\ \A d \in Conns \ {c} : pc'[d] = pc[d]
      BY <1>0, <1>9 DEF AuthFails, Refuse, TypeOK
    <2>2. /\ InCount(c) /\ ~InCount(c)' /\ ip[c] \in Ips
          /\ \A d \in Conns \ {c} : InCount(d)' <=> InCount(d)
      BY <1>2, <1>3, <1>4, <2>1 DEF Early
    <2> QED BY <1>0, <2>1, <2>2, AccountLoses
  <1>10. CASE Admit(c)
    <2>1. /\ UNCHANGED <<registered, active, ip, spurious>> /\ pc[c] = "admit"
          /\ \A d \in Conns \ {c} : pc'[d] = pc[d] /\ test'[d] = test[d]
      BY <1>0, <1>10 DEF Admit, TypeOK
    <2>2. pc'[c] = "register" \/ (test'[c].single /\ test'[c].phase = "start")
      BY <1>0, <1>10 DEF Admit, NewTest, TypeOK
    <2>3. \A d \in Conns : (InCount(d)' <=> InCount(d)) /\ (InCount(d) => ip'[d] = ip[d])
      BY <2>1, <2>2 DEF InCount, Live, Occupied
    <2> QED BY <1>0, <1>5, <2>1, <2>3, AccountSame
  <1>11. ASSUME NEW t \in Tokens, Join(c, t) PROVE ActiveCount'
    <2>1. /\ UNCHANGED <<registered, active, ip, spurious>> /\ pc[c] = "command"
          /\ pc'[c] \in {"test", "pending"}
          /\ \A d \in Conns \ {c} :
               test'[d] = test[d] /\ pc'[d] \in {pc[d], "test"}
          /\ test'[c] = test[c] \/ test'[c].single = FALSE
      BY <1>0, <1>11 DEF Join, NewTest, TypeOK
    <2>2. \A d \in Conns \ {c} : pc'[d] # pc[d] => pc[d] = "pending"
      <3>1. \A d \in sessions[t].streams : d \in Conns => pc[d] = "pending"
        BY DEF OwnInv, SessionsOwn
      <3>2. \A d \in Conns \ {c} : pc'[d] # pc[d] => d \in sessions[t].streams
        BY <1>0, <1>11 DEF Join, TypeOK
      <3> QED BY <3>1, <3>2
    <2>3. \A d \in Conns \ {c} : InCount(d)' <=> InCount(d)
      BY <2>1, <2>2 DEF InCount, Live
    <2>4. ~InCount(c) /\ ~InCount(c)'
      BY <1>1, <2>1 DEF InCount, Live
    <2>5. \A d \in Conns : (InCount(d)' <=> InCount(d)) /\ (InCount(d) => ip'[d] = ip[d])
      BY <2>1, <2>3, <2>4
    <2> QED BY <1>0, <1>5, <2>1, <2>5, AccountSame
  <1>12. ASSUME NEW t \in Tokens, Register(c, t) PROVE ActiveCount'
    <2>1. /\ UNCHANGED <<test, active, ip, spurious>> /\ pc[c] = "register"
          /\ registered' = registered \cup {c} /\ pc'[c] = "pending"
          /\ \A d \in Conns \ {c} :
               pc'[d] = IF d \in sessions[t].streams THEN "done" ELSE pc[d]
      BY <1>0, <1>12 DEF Register, Close, TypeOK
    <2>2. \A d \in Conns \ {c} : pc'[d] # pc[d] => pc[d] = "pending" /\ pc'[d] = "done"
      BY <2>1 DEF OwnInv, SessionsOwn
    <2>3. \A d \in Conns \ {c} : InCount(d)' <=> InCount(d)
      BY <2>1, <2>2 DEF InCount, Live
    <2>4. InCount(c) /\ ~InCount(c)'
      BY <1>1, <2>1 DEF InCount, Live
    <2> SUFFICES ASSUME NEW i \in Ips
                 PROVE  Cardinality(Counted(i))' + Cardinality(Registered(i))'
                          = Cardinality(Counted(i)) + Cardinality(Registered(i))
      BY <1>0, <2>1 DEF ActiveCount
    <2>5. /\ Cardinality(Counted(i))' =
               IF ip[c] = i THEN Cardinality(Counted(i)) - 1 ELSE Cardinality(Counted(i))
          /\ ip[c] = i => Cardinality(Counted(i)) >= 1
      BY <2>1, <2>3, <2>4, CountedLoses
    <2>6. Registered(i)' = IF ip[c] = i THEN Registered(i) \cup {c} ELSE Registered(i)
      BY <2>1 DEF Registered
    <2>7. Registered(i) \subseteq Conns /\ c \notin Registered(i)
      BY <1>0, <1>1 DEF Registered, TypeOK
    <2> HIDE DEF Registered
    <2>8. Cardinality(Registered(i) \cup {c}) = Cardinality(Registered(i)) + 1
      BY <2>7, FiniteConns, FS_AddElement
    <2> QED BY <1>0, <2>5, <2>6, <2>8, CountNat
  <1> QED BY <1>6, <1>7, <1>8, <1>9, <1>10, <1>11, <1>12 DEF Handler

LEMMA HandlerSingleIp ==
    ASSUME TypeInv, OwnInv, WholeInv, SingleIp, NEW c \in Conns, Handler(c)
    PROVE  SingleIp'
  <1>0. TypeOK /\ pc[c] \notin Settled
    BY HandlerFrame DEF TypeInv
  <1>1. test[c] = NoTest /\ ~Live(c)
    BY <1>0 DEF OwnInv, Starters, Settled, Live, NoTest, Occupied
  <1> DEFINE Fits == /\ \A k \in Conns \ {c} : test'[k] = test[k]
                     /\ \/ test'[c] = test[c] \/ test'[c].single = FALSE
                        \/ test'[c].ip = ip[c] /\ ip' = ip
  <1>2. ASSUME HandlerAside(c) PROVE Fits
    BY <1>2 DEF HandlerAside
  <1>3. ASSUME Admit(c) PROVE Fits
    BY <1>0, <1>3 DEF TypeOK, Admit, NewTest
  <1>4. ASSUME NEW t \in Tokens, Join(c, t) PROVE Fits
    BY <1>0, <1>4 DEF TypeOK, Join, NewTest
  <1>5. ASSUME NEW t \in Tokens, Register(c, t) PROVE Fits
    BY <1>5 DEF Register
  <1>6. Fits
    BY <1>2, <1>3, <1>4, <1>5, HandlerSteps
  <1> QED BY <1>1, <1>6, HandlerFrame DEF SingleIp, Live

LEMMA HandlerRegistered ==
    ASSUME TypeInv, OwnInv, WholeInv, RegisteredStartNothing, NEW c \in Conns, Handler(c)
    PROVE  RegisteredStartNothing'
  <1>0. TypeOK /\ pc[c] \notin Settled /\ c \notin registered
    BY HandlerFrame DEF TypeInv, WholeInv
  <1>1. test[c] = NoTest
    BY <1>0 DEF OwnInv, Starters, Settled
  <1>2. CASE HandlerAside(c)
    BY <1>2 DEF HandlerAside, RegisteredStartNothing
  <1>3. CASE Admit(c)
    BY <1>0, <1>3 DEF TypeOK, Admit, RegisteredStartNothing
  <1>4. ASSUME NEW t \in Tokens, Join(c, t) PROVE RegisteredStartNothing'
    BY <1>0, <1>4 DEF TypeOK, Join, RegisteredStartNothing
  <1>5. ASSUME NEW t \in Tokens, Register(c, t) PROVE RegisteredStartNothing'
    BY <1>1, <1>5 DEF Register, RegisteredStartNothing
  <1> QED BY <1>2, <1>3, <1>4, <1>5, HandlerSteps

LEMMA TestAccount ==
    ASSUME TypeInv, OwnInv, WholeInv, AccountInv, NEW k \in Conns, TestStep(k)
    PROVE  AccountInv'
  <1>0. TypeOK /\ SingleIp /\ ActiveCount
    BY DEF TypeInv, AccountInv
  <1>1. /\ \A j \in Conns \ {k} : test'[j] = test[j]
        /\ test'[k].single = test[k].single /\ test'[k].ip = test[k].ip /\ Live(k)
        /\ UNCHANGED <<ip, registered, spurious>> /\ test[k] \in TestType
    BY <1>0 DEF TestStep, TypeOK
  <1>2. SingleIp' /\ RegisteredStartNothing'
    <2>1. test[k] # NoTest
      BY <1>1 DEF Live, Occupied, NoTest
    <2>2. SingleIp'
      BY <1>0, <1>1 DEF SingleIp, Live
    <2>3. RegisteredStartNothing'
      BY <1>0, <1>1, <2>1 DEF AccountInv, RegisteredStartNothing, TypeOK
    <2> QED BY <2>2, <2>3
  <1>3. \A i \in Ips : Registered(i)' = Registered(i)
    BY <1>1 DEF Registered
  <1>4. CASE test'[k].phase \in Occupied /\ UNCHANGED <<pc, active>>
    <2>1. \A d \in Conns : (InCount(d)' <=> InCount(d)) /\ (InCount(d) => ip'[d] = ip[d])
      BY <1>1, <1>4 DEF InCount, Live
    <2> QED BY <1>0, <1>1, <1>2, <1>3, <1>4, <2>1, AccountSame DEF AccountInv
  <1>5. CASE /\ test'[k].phase = "ended" /\ pc' = Close(test[k].streams)
             /\ active' = Released(k)
    <2>1. pc[k] \in {"test", "done"} /\ pc'[k] \in {"test", "done"}
      BY <1>1, <1>5 DEF OwnInv, Starters, NoTest, Live, Occupied, Close
    <2>2. \A d \in Conns : pc'[d] # pc[d] => pc[d] = "test" /\ pc'[d] = "done"
      BY <1>1, <1>5 DEF OwnInv, TestsOwn, Close
    <2>3. \A d \in Conns \ {k} : InCount(d)' <=> InCount(d)
      BY <1>1, <2>2 DEF InCount, Live
    <2>4. ~InCount(k)' /\ (InCount(k) <=> test[k].single)
      BY <1>1, <1>5, <2>1 DEF InCount, Live, Occupied
    <2>5. CASE test[k].single
      <3>1. ip[k] \in Ips /\ active' = Disconnected(ip[k])
        BY <1>0, <1>1, <1>5, <2>5 DEF SingleIp, TestType, Released
      <3> QED BY <1>0, <1>1, <1>2, <2>3, <2>4, <2>5, <3>1, AccountLoses DEF AccountInv
    <2>6. CASE ~test[k].single
      <3>1. active' = active
        BY <1>5, <2>6 DEF Released
      <3>2. \A d \in Conns : (InCount(d)' <=> InCount(d)) /\ (InCount(d) => ip'[d] = ip[d])
        BY <1>1, <2>3, <2>4, <2>6
      <3> QED BY <1>0, <1>1, <1>2, <1>3, <3>1, <3>2, AccountSame DEF AccountInv
    <2> QED BY <2>5, <2>6
  <1> QED BY <1>4, <1>5 DEF TestStep

LEMMA NextAccount ==
    ASSUME TypeInv, OwnInv, WholeInv, AccountInv, [Next]_vars
    PROVE  AccountInv'
  <1>1. CASE UNCHANGED vars
    BY <1>1 DEF vars, connVars, usageVars, AccountInv, SingleIp, RegisteredStartNothing,
       ActiveCount, Counted, Registered, Live
  <1>2. ASSUME NEW c \in Conns, Handler(c) PROVE AccountInv'
    BY <1>2, HandlerAccount, HandlerSingleIp, HandlerRegistered DEF AccountInv
  <1> QED BY <1>1, <1>2, TestSteps, TestAccount DEF Next, Quiet

\* What the count means to the address: its open counted connections.
LEMMA AccountOfOpen ==
    ASSUME TypeInv, OwnInv, WholeInv, AccountInv
    PROVE  ActiveAccount
  <1>0. TypeOK
    BY DEF TypeInv
  <1> SUFFICES ASSUME NEW i \in Ips
               PROVE  /\ Closed(i) = {} => active[i] <= Cardinality(Open(i))
                      /\ i \notin spurious => active[i] >= Cardinality(Open(i))
    BY DEF ActiveAccount
  <1> DEFINE R == {c \in registered : ip[c] = i /\ pc[c] \in {"pending", "test"}}
  <1>1. /\ Counted(i) \subseteq Conns /\ R \subseteq Registered(i)
        /\ Registered(i) \subseteq Conns /\ Open(i) = Counted(i) \cup R
    BY <1>0 DEF Counted, Registered, Open, TypeOK
  <1>2. Closed(i) = {} => R = Registered(i)
    BY DEF Closed, Registered, WholeInv, Settled
  <1>3. Counted(i) \cap Registered(i) = {}
    <2> SUFFICES ASSUME NEW c \in Conns, c \in registered, c \in Counted(i)
                 PROVE  FALSE
      BY <1>1 DEF Registered
    <2>1. pc[c] \in Settled
      BY DEF WholeInv
    <2>2. Live(c) /\ test[c].single
      BY <2>1 DEF Counted, Settled
    <2> QED BY <2>2 DEF AccountInv, RegisteredStartNothing, Live, Occupied, NoTest
  <1>4. /\ Cardinality(Counted(i)) \in Nat /\ Cardinality(R) \in Nat
        /\ Cardinality(Registered(i)) \in Nat /\ IsFiniteSet(Counted(i)) /\ IsFiniteSet(R)
        /\ Cardinality(R) <= Cardinality(Registered(i))
    BY <1>1, FiniteConns, FS_Subset
  <1> HIDE DEF R
  <1>5. Cardinality(Open(i)) = Cardinality(Counted(i)) + Cardinality(R)
    <2>1. Counted(i) \cap R = {}
      BY <1>1, <1>3
    <2>2. Cardinality(Counted(i) \cap R) = 0
      BY <2>1, FS_EmptySet
    <2>3. Cardinality(Counted(i) \cup R)
            = Cardinality(Counted(i)) + Cardinality(R) - Cardinality(Counted(i) \cap R)
      BY <1>4, FS_Union
    <2>4. Cardinality(Counted(i) \cup R) = Cardinality(Counted(i)) + Cardinality(R)
      BY <1>4, <2>2, <2>3
    <2> QED BY <1>1, <2>4
  <1>6. active[i] \in Nat
    BY <1>0 DEF TypeOK
  <1> QED BY <1>2, <1>4, <1>5, <1>6 DEF AccountInv, ActiveCount

\* The active count of an address is the number of its open counted connections,
\* unless a registered primary is closed, which nobody gives back, or a
\* connection was disconnected that was never counted (QuotaManager::connect,
\* disconnect and their callers).
THEOREM ConnectionAccounting == Spec => []ActiveAccount
  <1>1. Spec => []AccountInv
    BY InitAccount, TypeInvariant, OwnInvariant, WholeInvariant, NextAccount, PTL DEF Spec
  <1> QED BY <1>1, AccountOfOpen, TypeInvariant, OwnInvariant, WholeInvariant, PTL

-----------------------------------------------------------------------------
(* Quotas *)

\* The phases in which a test has its budget and is not wholly recorded.
Busy == {"run", "join", "charged"}

AllAlone == \A k \in Conns : test[k] # NoTest => test[k].alone

\* A test that has not started has moved nothing.
StartsAtZero == \A k \in Conns : test[k].phase = "start" => test[k].in = 0 /\ test[k].out = 0

\* No two busy tests have their user or their address in common.
Apart ==
    \A j, k \in Conns :
      j # k /\ test[j].phase \in Busy /\ test[k].phase \in Busy =>
        test[j].user # test[k].user /\ test[j].ip # test[k].ip

WithinBudget == \A k \in Conns : test[k].phase \in Busy => Bytes(k) <= test[k].budget

\* n bytes still fit in every window.
Fits(n, limits, now) ==
    \A w \in Windows : limits[w] > 0 => n <= SaturatingSub(limits[w], now[w])

\* Until its user is charged, the budget of a test fits the user's limits ...
UserFits ==
    \A k \in Conns :
      test[k].phase \in {"run", "join"} =>
        Fits(test[k].budget, UserLimits(quota, UserQuota[test[k].user]),
             Today(used[test[k].user]))

\* ... and until its address is charged, those of the address.
IpFits ==
    \A k \in Conns :
      test[k].phase \in Busy =>
        LET i == test[k].ip IN
        /\ Fits(test[k].budget, quota.ip, Both(Today(in[i]), Today(out[i])))
        /\ Fits(test[k].budget, quota.ip_in, Today(in[i]))
        /\ Fits(test[k].budget, quota.ip_out, Today(out[i]))

BudgetsFit == Apart /\ WithinBudget /\ UserFits /\ IpFits /\ QuotaRespected

QuotaInv == StartsAtZero /\ (~overlapped /\ AllAlone => BudgetsFit)

LEMMA InitQuota == Init => QuotaInv
  <1> SUFFICES ASSUME Init PROVE QuotaInv
    OBVIOUS
  <1>1. /\ \A k \in Conns : test[k].phase = "none"
        /\ \A u \in Users : Today(used[u]) = Earlier
        /\ \A i \in Ips : Today(in[i]) = Earlier /\ Today(out[i]) = Earlier
    BY ProServerAssumption DEF Init, NoTest, Today
  <1>2. QuotaRespected
    BY <1>1 DEF QuotaRespected, WithinLimits
  <1>3. StartsAtZero /\ Apart /\ WithinBudget /\ UserFits /\ IpFits
    BY <1>1 DEF StartsAtZero, Apart, WithinBudget, UserFits, IpFits, Busy
  <1> QED BY <1>2, <1>3 DEF QuotaInv, BudgetsFit

\* A step that starts nothing and records nothing.
LEMMA FitPlain ==
    ASSUME BudgetsFit, UNCHANGED <<quota, used, in, out>>,
           \A k \in Conns : test'[k].phase \in Busy =>
             /\ test[k].phase \in Busy /\ Bytes(k)' <= test'[k].budget
             /\ test'[k].user = test[k].user /\ test'[k].ip = test[k].ip
             /\ test'[k].budget = test[k].budget
             /\ test'[k].phase # "charged" => test[k].phase # "charged"
    PROVE  BudgetsFit'
  <1>1. Apart'
    BY DEF BudgetsFit, Apart
  <1>2. WithinBudget'
    BY DEF WithinBudget
  <1>t. \A n : Today(n)' = Today(n)
    BY DEF Today
  <1>3. UserFits'
    <2> SUFFICES ASSUME NEW k \in Conns, test'[k].phase \in {"run", "join"}
                 PROVE  Fits(test'[k].budget, UserLimits(quota, UserQuota[test'[k].user]),
                             Today(used[test'[k].user]))
      BY <1>t DEF UserFits
    <2>1. /\ test[k].phase \in {"run", "join"} /\ test'[k].user = test[k].user
          /\ test'[k].budget = test[k].budget
      BY DEF Busy
    <2> QED BY <2>1 DEF BudgetsFit, UserFits
  <1>4. IpFits'
    <2> SUFFICES ASSUME NEW k \in Conns, test'[k].phase \in Busy
                 PROVE  LET i == test'[k].ip IN
                        /\ Fits(test'[k].budget, quota.ip, Both(Today(in[i]), Today(out[i])))
                        /\ Fits(test'[k].budget, quota.ip_in, Today(in[i]))
                        /\ Fits(test'[k].budget, quota.ip_out, Today(out[i]))
      BY <1>t DEF IpFits
    <2> QED BY DEF BudgetsFit, IpFits
  <1>5. QuotaRespected'
    BY DEF BudgetsFit, QuotaRespected, Today
  <1> QED BY <1>1, <1>2, <1>3, <1>4, <1>5 DEF BudgetsFit

LEMMA HandlerQuota ==
    ASSUME TypeInv, OwnInv, QuotaInv, NEW c \in Conns, Handler(c)
    PROVE  QuotaInv'
  <1>0. TypeOK /\ pc[c] \notin Settled
    BY HandlerFrame DEF TypeInv
  <1>1. test[c] = NoTest
    BY <1>0 DEF OwnInv, Starters, Settled
  <1> DEFINE Fresh == \/ test'[c] = test[c]
                      \/ test'[c].phase = "start" /\ test'[c].in = 0 /\ test'[c].out = 0
             Shape == /\ \A k \in Conns \ {c} : test'[k] = test[k]
                      /\ Fresh
                      /\ UNCHANGED <<quota, used, in, out, overlapped>>
  <1>2. Shape
    <2>1. ASSUME NEW i \in Ips, Accept(c, i) PROVE Shape
      BY <2>1 DEF Accept, usageVars
    <2>2. ASSUME NEW head, NEW n, Request(c, head, n) PROVE Shape
      BY <2>2 DEF Request, usageVars
    <2>3. ASSUME NEW u, AuthOk(c, u) PROVE Shape
      BY <2>3 DEF AuthOk, usageVars
    <2>4. ASSUME Drop(c) \/ CheckIp(c) \/ Connect(c) \/ AuthFails(c) \/ Refuse(c) PROVE Shape
      BY <2>4 DEF Drop, CheckIp, Connect, AuthFails, Refuse, usageVars
    <2>5. ASSUME Admit(c) PROVE Shape
      BY <1>0, <2>5 DEF TypeOK, Admit, NewTest, usageVars
    <2>6. ASSUME NEW t \in Tokens, Join(c, t) PROVE Shape
      BY <1>0, <2>6 DEF TypeOK, Join, NewTest, usageVars
    <2>7. ASSUME NEW t \in Tokens, Register(c, t) PROVE Shape
      BY <2>7 DEF Register, usageVars
    <2> QED BY <2>1, <2>2, <2>3, <2>4, <2>5, <2>6, <2>7 DEF Handler
  <1>3. StartsAtZero'
    BY <1>2 DEF QuotaInv, StartsAtZero
  <1>4. ASSUME ~overlapped', AllAlone' PROVE BudgetsFit'
    <2>1. ~overlapped /\ AllAlone
      BY <1>1, <1>2, <1>4 DEF AllAlone
    <2>2. BudgetsFit
      BY <2>1 DEF QuotaInv
    <2>3. \A k \in Conns : test'[k].phase \in Busy => test'[k] = test[k]
      BY <1>2 DEF Busy
    <2>4. \A k \in Conns : test'[k].phase \in Busy =>
            test[k].phase \in Busy /\ Bytes(k)' <= test'[k].budget
      BY <2>2, <2>3 DEF BudgetsFit, WithinBudget, Bytes
    <2> QED BY <1>2, <2>2, <2>3, <2>4, FitPlain
  <1> QED BY <1>3, <1>4 DEF QuotaInv

LEMMA StartQuota ==
    ASSUME TypeInv, StartsAtZero, BudgetsFit, NEW k \in Conns, Start(k), ~overlapped'
    PROVE  BudgetsFit'
  <1> DEFINE u == test[k].user
             i == test[k].ip
             b == Budget(u, i)
  <1>0. TypeOK /\ test[k] \in TestType /\ test[k].phase = "start"
    BY StartedType DEF TypeInv, Start
  <1>1. /\ \A j \in Conns \ {k} : test'[j] = test[j]
        /\ test'[k].phase = "run" /\ test'[k].budget = b /\ test'[k].user = u
        /\ test'[k].ip = i /\ test'[k].in = test[k].in /\ test'[k].out = test[k].out
        /\ UNCHANGED <<quota, used, in, out>>
    BY <1>0 DEF Start, TypeOK, TestType, usageVars
  <1>2. \A j \in Conns : test[j].phase \in Busy => test[j].user # u /\ test[j].ip # i
    BY DEF Start, Sharing, Busy
  <1>t. \A n : Today(n)' = Today(n)
    BY DEF Today
  <1>3. /\ quota \in QuotaType /\ UserQuota[u] \in UserQuotaType
        /\ Today(used[u]) \in [Windows -> Nat]
        /\ Today(in[i]) \in [Windows -> Nat] /\ Today(out[i]) \in [Windows -> Nat]
    BY <1>0, ProServerAssumption, TodayType DEF TypeOK, TestType
  <1>4. /\ b \in Nat
        /\ Fits(b, UserLimits(quota, UserQuota[u]), Today(used[u]))
        /\ Fits(b, quota.ip, Both(Today(in[i]), Today(out[i])))
        /\ Fits(b, quota.ip_in, Today(in[i])) /\ Fits(b, quota.ip_out, Today(out[i]))
    <2>1. b \in Nat
      BY <1>0, BudgetType, U64MaxAssumption DEF TestType
    <2>2. ASSUME NEW w \in Windows
          PROVE  /\ UserLimits(quota, UserQuota[u])[w] > 0 =>
                      b <= SaturatingSub(UserLimits(quota, UserQuota[u])[w], Today(used[u])[w])
                 /\ quota.ip[w] > 0 =>
                      b <= SaturatingSub(quota.ip[w], Today(in[i])[w] + Today(out[i])[w])
                 /\ quota.ip_in[w] > 0 => b <= SaturatingSub(quota.ip_in[w], Today(in[i])[w])
                 /\ quota.ip_out[w] > 0 => b <= SaturatingSub(quota.ip_out[w], Today(out[i])[w])
      BY <1>3, BudgetWithinEveryLimit DEF Budget
    <2>3. \A w \in Windows :
            Both(Today(in[i]), Today(out[i]))[w] = Today(in[i])[w] + Today(out[i])[w]
      BY DEF Both
    <2> HIDE DEF b
    <2> QED BY <2>1, <2>2, <2>3 DEF Fits
  <1> HIDE DEF b
  <1>5. Apart'
    BY <1>1, <1>2 DEF BudgetsFit, Apart
  <1>6. WithinBudget'
    <2>1. Bytes(k)' = 0
      BY <1>0, <1>1 DEF StartsAtZero, Bytes
    <2>2. \A j \in Conns \ {k} : Bytes(j)' = Bytes(j)
      BY <1>1 DEF Bytes
    <2> QED BY <1>1, <1>4, <2>1, <2>2 DEF BudgetsFit, WithinBudget
  <1>7. UserFits'
    <2> SUFFICES ASSUME NEW j \in Conns, test'[j].phase \in {"run", "join"}
                 PROVE  Fits(test'[j].budget, UserLimits(quota, UserQuota[test'[j].user]),
                             Today(used[test'[j].user]))
      BY <1>1, <1>t DEF UserFits
    <2> QED BY <1>1, <1>4 DEF BudgetsFit, UserFits
  <1>8. IpFits'
    <2> SUFFICES ASSUME NEW j \in Conns, test'[j].phase \in Busy
                 PROVE  LET a == test'[j].ip IN
                        /\ Fits(test'[j].budget, quota.ip, Both(Today(in[a]), Today(out[a])))
                        /\ Fits(test'[j].budget, quota.ip_in, Today(in[a]))
                        /\ Fits(test'[j].budget, quota.ip_out, Today(out[a]))
      BY <1>1, <1>t DEF IpFits
    <2> QED BY <1>1, <1>4 DEF BudgetsFit, IpFits
  <1>9. QuotaRespected'
    BY <1>1 DEF BudgetsFit, QuotaRespected, Today
  <1> QED BY <1>5, <1>6, <1>7, <1>8, <1>9 DEF BudgetsFit

\* What fits in the budget may be charged.
LEMMA ChargeFits ==
    ASSUME NEW limits \in [Windows -> Nat], NEW before, NEW now \in [Windows -> Nat],
           NEW then \in [Windows -> Nat], NEW n \in Nat, NEW b \in Nat,
           WithinLimits(limits, before, now), Fits(b, limits, now), n <= b,
           \A w \in Windows : then[w] = now[w] + n
    PROVE  WithinLimits(limits, before, then)
  <1> SUFFICES ASSUME NEW w \in Windows, limits[w] > 0
               PROVE  then[w] <= limits[w] \/ then[w] = before[w]
    BY DEF WithinLimits
  <1>1. b <= SaturatingSub(limits[w], now[w])
    BY DEF Fits
  <1>2. now[w] <= limits[w] \/ now[w] = before[w]
    BY DEF WithinLimits
  <1>3. limits[w] \in Nat /\ now[w] \in Nat /\ then[w] = now[w] + n
    OBVIOUS
  <1> QED BY <1>1, <1>2, <1>3 DEF SaturatingSub

LEMMA RecordUserQuota ==
    ASSUME TypeInv, BudgetsFit, NEW k \in Conns, NEW written \in BOOLEAN,
           RecordUser(k, written)
    PROVE  BudgetsFit'
  <1> DEFINE u == test[k].user
  <1>0. TypeOK /\ test[k] \in TestType /\ test[k].phase = "join"
    BY StartedType DEF TypeInv, RecordUser
  <1>1. /\ \A j \in Conns \ {k} : test'[j] = test[j]
        /\ test'[k].phase = "charged" /\ test'[k].budget = test[k].budget
        /\ test'[k].user = u /\ test'[k].ip = test[k].ip
        /\ test'[k].in = test[k].in /\ test'[k].out = test[k].out
        /\ UNCHANGED <<quota, in, out>>
    BY <1>0 DEF RecordUser, TypeOK, TestType
  <1>2. /\ used'[u] = IF written THEN used[u] + Bytes(k) ELSE used[u]
        /\ \A v \in Users \ {u} : used'[v] = used[v]
        /\ u \in Users /\ used[u] \in Nat /\ used'[u] \in Nat
    BY <1>0 DEF RecordUser, Charged, TypeOK, TestType, Bytes
  <1>t. \A n : Today(n)' = Today(n)
    BY DEF Today
  <1>m. \A j \in Conns : Bytes(j)' = Bytes(j)
    BY <1>1 DEF Bytes
  <1>3. Apart'
    BY <1>0, <1>1 DEF BudgetsFit, Apart, Busy
  <1>4. WithinBudget'
    BY <1>0, <1>1, <1>m DEF BudgetsFit, WithinBudget, Busy
  <1>5. UserFits'
    <2> SUFFICES ASSUME NEW j \in Conns, test'[j].phase \in {"run", "join"}
                 PROVE  Fits(test'[j].budget, UserLimits(quota, UserQuota[test'[j].user]),
                             Today(used'[test'[j].user]))
      BY <1>1, <1>t DEF UserFits
    <2>1. j # k /\ test'[j] = test[j]
      BY <1>1
    <2>2. test[j] \in TestType
      BY <1>0, <2>1, StartedType
    <2>3. test[j].user # u /\ test[j].user \in Users
      BY <1>0, <2>1, <2>2 DEF BudgetsFit, Apart, Busy, TestType
    <2> QED BY <1>2, <2>1, <2>3 DEF BudgetsFit, UserFits
  <1>6. IpFits'
    <2> SUFFICES ASSUME NEW j \in Conns, test'[j].phase \in Busy
                 PROVE  LET a == test'[j].ip IN
                        /\ Fits(test'[j].budget, quota.ip, Both(Today(in[a]), Today(out[a])))
                        /\ Fits(test'[j].budget, quota.ip_in, Today(in[a]))
                        /\ Fits(test'[j].budget, quota.ip_out, Today(out[a]))
      BY <1>1, <1>t DEF IpFits
    <2> QED BY <1>0, <1>1 DEF BudgetsFit, IpFits, Busy
  <1>7. QuotaRespected'
    <2>1. ASSUME NEW v \in Users
          PROVE  WithinLimits(UserLimits(quota, UserQuota[v]), Earlier, Today(used'[v]))
      <3>1. CASE v # u \/ ~written
        BY <1>2, <3>1 DEF BudgetsFit, QuotaRespected
      <3>2. CASE v = u /\ written
        <4> DEFINE limits == UserLimits(quota, UserQuota[u])
        <4>1. limits \in [Windows -> Nat]
          BY <1>0, ProServerAssumption, UserLimitsType, U64MaxAssumption
             DEF TypeOK, TestType, PerWindow
        <4>2. /\ Today(used[u]) \in [Windows -> Nat] /\ Today(used'[u]) \in [Windows -> Nat]
          BY <1>2, TodayType
        <4>3. WithinLimits(limits, Earlier, Today(used[u]))
          BY <1>2 DEF BudgetsFit, QuotaRespected
        <4>4. Fits(test[k].budget, limits, Today(used[u])) /\ Bytes(k) <= test[k].budget
          BY <1>0 DEF BudgetsFit, UserFits, WithinBudget, Busy
        <4>5. Bytes(k) \in Nat /\ test[k].budget \in Nat
          BY <1>0, U64MaxAssumption DEF TestType, Bytes
        <4>6. \A w \in Windows : Today(used'[u])[w] = Today(used[u])[w] + Bytes(k)
          BY <1>2, <3>2, <4>5, ProServerAssumption DEF Today
        <4> HIDE DEF limits
        <4>7. WithinLimits(limits, Earlier, Today(used'[u]))
          BY <4>1, <4>2, <4>3, <4>4, <4>5, <4>6, ChargeFits
        <4> QED BY <3>2, <4>7 DEF limits
      <3> QED BY <3>1, <3>2
    <2> QED BY <1>1, <1>t, <2>1 DEF BudgetsFit, QuotaRespected
  <1> QED BY <1>3, <1>4, <1>5, <1>6, <1>7 DEF BudgetsFit

LEMMA RecordIpQuota ==
    ASSUME TypeInv, BudgetsFit, NEW k \in Conns, NEW written \in BOOLEAN,
           RecordIp(k, written)
    PROVE  BudgetsFit'
  <1> DEFINE i == test[k].ip
  <1>0. TypeOK /\ test[k] \in TestType /\ test[k].phase = "charged"
    BY StartedType DEF TypeInv, RecordIp
  <1>1. /\ \A j \in Conns \ {k} : test'[j] = test[j]
        /\ test'[k].phase = "ended" /\ UNCHANGED <<quota, used>>
    BY <1>0 DEF RecordIp, TypeOK, TestType
  <1>2. /\ in'[i] = IF written THEN in[i] + test[k].out ELSE in[i]
        /\ out'[i] = IF written THEN out[i] + test[k].in ELSE out[i]
        /\ \A a \in Ips \ {i} : in'[a] = in[a] /\ out'[a] = out[a]
        /\ i \in Ips /\ in[i] \in Nat /\ in'[i] \in Nat /\ out[i] \in Nat /\ out'[i] \in Nat
    BY <1>0 DEF RecordIp, Charged, TypeOK, TestType
  <1>t. \A n : Today(n)' = Today(n)
    BY DEF Today
  <1>b. \A j \in Conns : test'[j].phase \in Busy => j # k /\ test'[j] = test[j]
    BY <1>1 DEF Busy
  <1>3. Apart'
    BY <1>b DEF BudgetsFit, Apart
  <1>4. WithinBudget'
    BY <1>b DEF BudgetsFit, WithinBudget, Bytes
  <1>5. UserFits'
    <2> SUFFICES ASSUME NEW j \in Conns, test'[j].phase \in {"run", "join"}
                 PROVE  Fits(test'[j].budget, UserLimits(quota, UserQuota[test'[j].user]),
                             Today(used[test'[j].user]))
      BY <1>1, <1>t DEF UserFits
    <2> QED BY <1>b DEF BudgetsFit, UserFits, Busy
  <1>6. IpFits'
    <2> SUFFICES ASSUME NEW j \in Conns, test'[j].phase \in Busy
                 PROVE  LET a == test'[j].ip IN
                        /\ Fits(test'[j].budget, quota.ip, Both(Today(in'[a]), Today(out'[a])))
                        /\ Fits(test'[j].budget, quota.ip_in, Today(in'[a]))
                        /\ Fits(test'[j].budget, quota.ip_out, Today(out'[a]))
      BY <1>1, <1>t DEF IpFits
    <2>1. test[j] \in TestType
      BY <1>0, <1>b, StartedType DEF Busy
    <2>2. test[j].ip # i /\ test[j].ip \in Ips
      BY <1>0, <1>b, <2>1 DEF BudgetsFit, Apart, Busy, TestType
    <2> QED BY <1>b, <1>2, <2>2 DEF BudgetsFit, IpFits
  <1>7. QuotaRespected'
    <2>1. ASSUME NEW a \in Ips
          PROVE  /\ WithinLimits(quota.ip, Both(Earlier, Earlier),
                                 Both(Today(in'[a]), Today(out'[a])))
                 /\ WithinLimits(quota.ip_in, Earlier, Today(in'[a]))
                 /\ WithinLimits(quota.ip_out, Earlier, Today(out'[a]))
      <3>1. CASE a # i \/ ~written
        BY <1>2, <3>1 DEF BudgetsFit, QuotaRespected
      <3>2. CASE a = i /\ written
        <4> DEFINE b == test[k].budget
                   rx == test[k].in
                   tx == test[k].out
        <4>1. /\ quota.ip \in [Windows -> Nat] /\ quota.ip_in \in [Windows -> Nat]
              /\ quota.ip_out \in [Windows -> Nat]
          BY <1>0, ProServerAssumption, U64MaxAssumption DEF TypeOK, QuotaType, PerWindow
        <4>2. /\ Today(in[i]) \in [Windows -> Nat] /\ Today(in'[i]) \in [Windows -> Nat]
              /\ Today(out[i]) \in [Windows -> Nat] /\ Today(out'[i]) \in [Windows -> Nat]
          BY <1>2, TodayType
        <4>3. /\ Both(Today(in[i]), Today(out[i])) \in [Windows -> Nat]
              /\ Both(Today(in'[i]), Today(out'[i])) \in [Windows -> Nat]
          BY <4>2 DEF Both
        <4>4. b \in Nat /\ rx \in Nat /\ tx \in Nat /\ rx + tx \in Nat
          BY <1>0, U64MaxAssumption DEF TestType
        <4>5. rx + tx <= b
          BY <1>0 DEF BudgetsFit, WithinBudget, Busy, Bytes
        <4>6. /\ Fits(b, quota.ip, Both(Today(in[i]), Today(out[i])))
              /\ Fits(b, quota.ip_in, Today(in[i])) /\ Fits(b, quota.ip_out, Today(out[i]))
          BY <1>0 DEF BudgetsFit, IpFits, Busy
        <4>7. \A w \in Windows : /\ Today(in'[i])[w] = Today(in[i])[w] + tx
                                 /\ Today(out'[i])[w] = Today(out[i])[w] + rx
          BY <1>2, <3>2, <4>4, ProServerAssumption DEF Today
        <4>8. \A w \in Windows :
                Both(Today(in'[i]), Today(out'[i]))[w]
                  = Both(Today(in[i]), Today(out[i]))[w] + (rx + tx)
          BY <4>2, <4>4, <4>7 DEF Both
        <4>9. /\ WithinLimits(quota.ip, Both(Earlier, Earlier),
                              Both(Today(in[i]), Today(out[i])))
              /\ WithinLimits(quota.ip_in, Earlier, Today(in[i]))
              /\ WithinLimits(quota.ip_out, Earlier, Today(out[i]))
          BY <1>2 DEF BudgetsFit, QuotaRespected
        <4>10. rx <= b /\ tx <= b
          BY <4>4, <4>5
        <4>a. /\ \A w \in Windows : Today(in'[i])[w] = Today(in[i])[w] + tx
              /\ \A w \in Windows : Today(out'[i])[w] = Today(out[i])[w] + rx
          BY <4>7
        <4> HIDE DEF b, rx, tx
        <4>11. WithinLimits(quota.ip, Both(Earlier, Earlier),
                            Both(Today(in'[i]), Today(out'[i])))
          BY <4>1, <4>3, <4>4, <4>5, <4>6, <4>8, <4>9, ChargeFits
        <4>12. WithinLimits(quota.ip_in, Earlier, Today(in'[i]))
          <5> DEFINE limits == quota.ip_in
                     now == Today(in[i])
                     later == Today(in'[i])
          <5>1. /\ limits \in [Windows -> Nat] /\ now \in [Windows -> Nat]
                /\ later \in [Windows -> Nat]
            BY <4>1, <4>2
          <5>2. WithinLimits(limits, Earlier, now) /\ Fits(b, limits, now)
            BY <4>6, <4>9
          <5>3. \A w \in Windows : later[w] = now[w] + tx
            BY <4>a
          <5> HIDE DEF limits, now, later
          <5>4. WithinLimits(limits, Earlier, later)
            BY <4>4, <4>10, <5>1, <5>2, <5>3, ChargeFits
          <5> QED BY <5>4 DEF limits, later
        <4>13. WithinLimits(quota.ip_out, Earlier, Today(out'[i]))
          <5> DEFINE limits == quota.ip_out
                     now == Today(out[i])
                     later == Today(out'[i])
          <5>1. /\ limits \in [Windows -> Nat] /\ now \in [Windows -> Nat]
                /\ later \in [Windows -> Nat]
            BY <4>1, <4>2
          <5>2. WithinLimits(limits, Earlier, now) /\ Fits(b, limits, now)
            BY <4>6, <4>9
          <5>3. \A w \in Windows : later[w] = now[w] + rx
            BY <4>a
          <5> HIDE DEF limits, now, later
          <5>4. WithinLimits(limits, Earlier, later)
            BY <4>4, <4>10, <5>1, <5>2, <5>3, ChargeFits
          <5> QED BY <5>4 DEF limits, later
        <4> QED BY <3>2, <4>11, <4>12, <4>13
      <3> QED BY <3>1, <3>2
    <2> QED BY <1>1, <1>t, <2>1 DEF BudgetsFit, QuotaRespected
  <1> QED BY <1>3, <1>4, <1>5, <1>6, <1>7 DEF BudgetsFit

\* Moving a byte that spend_budget lets pass keeps the budget.
LEMMA MoveKeepsBudget ==
    ASSUME TypeInv, NEW k \in Conns, MoveIn(k) \/ MoveOut(k), test[k].alone
    PROVE  Bytes(k)' <= test'[k].budget
  <1>0. TypeOK /\ test[k] \in TestType
    BY StartedType DEF TypeInv, MoveIn, MoveOut
  <1>1. /\ Passes(test'[k]) /\ test'[k].alone /\ Bytes(k)' = Bytes(k) + 1
        /\ test'[k].budget = test[k].budget /\ Bytes(k) \in Nat /\ test[k].budget \in Nat
        /\ Bytes(k) < MaxMoved
    BY <1>0, U64MaxAssumption DEF MoveIn, MoveOut, TypeOK, TestType, Bytes
  <1>2. MaxMoved \in 0 .. U64Max /\ U64Max \in Nat
    BY ProServerAssumption, U64MaxAssumption
  <1>3. Passes(test'[k]) => \/ test'[k].budget = U64Max \/ Bytes(k)' <= test'[k].budget
                            \/ ~test'[k].alone
    BY DEF Passes, Bytes
  <1> QED BY <1>1, <1>2, <1>3

\* A transfer returns a summary of no more than it moved.
LEMMA Returned ==
    ASSUME TypeOK, NEW k \in Conns, TransferReturns(k)
    PROVE  /\ test[k].phase = "run" /\ test'[k].phase = "join"
           /\ test'[k].budget = test[k].budget
           /\ Bytes(k)' <= Bytes(k) /\ Bytes(k) \in Nat /\ Bytes(k)' \in Nat
           /\ UNCHANGED <<quota, used, in, out, unwritten>>
  <1>1. test[k] \in TestType /\ test[k].phase = "run"
    BY StartedType DEF TransferReturns
  <1>2. PICK n \in 0 .. test[k].in, m \in 0 .. test[k].out :
          test' = [test EXCEPT ![k].phase = "join", ![k].in = n, ![k].out = m]
    BY DEF TransferReturns
  <1>3. /\ test'[k].in = n /\ test'[k].out = m /\ test'[k].phase = "join"
        /\ test'[k].budget = test[k].budget
    BY <1>1, <1>2 DEF TypeOK, TestType
  <1>4. test[k].in \in Nat /\ test[k].out \in Nat
    BY <1>1 DEF TestType
  <1>5. Bytes(k)' <= Bytes(k) /\ Bytes(k) \in Nat /\ Bytes(k)' \in Nat
    BY <1>3, <1>4 DEF Bytes
  <1> QED BY <1>1, <1>3, <1>5 DEF TransferReturns, usageVars

LEMMA TestQuota ==
    ASSUME TypeInv, QuotaInv, NEW k \in Conns, Test(k) \/ Enforcer(k)
    PROVE  QuotaInv'
  <1>0. TypeOK /\ TestStep(k)
    BY TestSteps DEF TypeInv
  <1>1. /\ \A j \in Conns \ {k} : test'[j] = test[j]
        /\ test[k] \in TestType /\ test'[k] \in TestType
        /\ test'[k].user = test[k].user /\ test'[k].ip = test[k].ip
        /\ test'[k].alone = test[k].alone
    BY <1>0 DEF TestStep, TypeOK
  <1>2. overlapped => overlapped'
    BY DEF Test, Enforcer, StartFails, Start, MoveIn, MoveOut, BudgetStop, ClientLeaves,
       TransferReturns, RecordUser, RecordIp, EnforcerSeesEnd, EnforcerTimeout,
       EnforcerUser, EnforcerIp, StoppedBy
  <1>3. test'[k].phase # "start"
    <2>1. CASE TransferReturns(k)
      BY <1>0, <1>1, <2>1, Returned
    <2>2. CASE ~TransferReturns(k)
      BY <1>0, <1>1, <2>2 DEF TypeOK, TestType, Test, Enforcer, StartFails, Start, MoveIn,
         MoveOut, BudgetStop, ClientLeaves, RecordUser, RecordIp, EnforcerSeesEnd,
         EnforcerTimeout, EnforcerUser, EnforcerIp, Enforcing, StoppedBy
    <2> QED BY <2>1, <2>2
  <1>4. StartsAtZero'
    BY <1>1, <1>3 DEF QuotaInv, StartsAtZero
  <1>5. ASSUME ~overlapped', AllAlone' PROVE BudgetsFit'
    <2>1. AllAlone /\ test[k].alone
      BY <1>1, <1>5 DEF AllAlone, NoTest, TestType
    <2>2. BudgetsFit /\ StartsAtZero
      BY <1>2, <1>5, <2>1 DEF QuotaInv
    <2>3. ASSUME UNCHANGED <<quota, used, in, out>>,
                 test'[k].phase \in Busy =>
                   /\ test[k].phase \in Busy /\ Bytes(k)' <= test'[k].budget
                   /\ test'[k].budget = test[k].budget
                   /\ test'[k].phase # "charged" => test[k].phase # "charged"
          PROVE  BudgetsFit'
      <3>1. \A j \in Conns \ {k} : Bytes(j)' = Bytes(j)
        BY <1>1 DEF Bytes
      <3> QED BY <1>1, <2>2, <2>3, <3>1, FitPlain DEF BudgetsFit, WithinBudget
    <2>4. CASE Start(k)
      BY <1>5, <2>2, <2>4, StartQuota
    <2>5. CASE \E written \in BOOLEAN : RecordUser(k, written) \/ RecordIp(k, written)
      BY <2>2, <2>5, RecordUserQuota, RecordIpQuota
    <2>6. CASE MoveIn(k) \/ MoveOut(k)
      <3>1. /\ test[k].phase = "run" /\ test'[k].phase = "run"
            /\ test'[k].budget = test[k].budget /\ UNCHANGED <<quota, used, in, out>>
        BY <1>0, <1>1, <2>6 DEF TypeOK, TestType, MoveIn, MoveOut, usageVars
      <3>2. Bytes(k)' <= test'[k].budget
        BY <2>1, <2>6, MoveKeepsBudget
      <3> QED BY <2>3, <3>1, <3>2 DEF Busy
    <2>7. CASE StartFails(k) \/ BudgetStop(k) \/ ClientLeaves(k)
      <3>1. /\ test'[k].budget = test[k].budget /\ test'[k].in = test[k].in
            /\ test'[k].out = test[k].out /\ UNCHANGED <<quota, used, in, out>>
            /\ test'[k].phase \in Busy => test[k].phase = "run"
        BY <1>0, <1>1, <2>7 DEF TypeOK, TestType, StartFails, BudgetStop, ClientLeaves,
           usageVars, Busy
      <3>2. Bytes(k)' = Bytes(k)
        BY <3>1 DEF Bytes
      <3> QED BY <2>2, <2>3, <3>1, <3>2 DEF BudgetsFit, WithinBudget, Busy
    <2>8. CASE Enforcer(k)
      <3>1. /\ test'[k].budget = test[k].budget /\ test'[k].in = test[k].in
            /\ test'[k].out = test[k].out /\ UNCHANGED <<quota, used, in, out>>
            /\ test'[k].phase = test[k].phase /\ test[k].phase \in {"run", "join"}
        BY <1>0, <1>1, <2>8 DEF TypeOK, TestType, Enforcer, EnforcerSeesEnd,
           EnforcerTimeout, EnforcerUser, EnforcerIp, Enforcing, StoppedBy, usageVars
      <3>2. Bytes(k)' = Bytes(k)
        BY <3>1 DEF Bytes
      <3> QED BY <2>2, <2>3, <3>1, <3>2 DEF BudgetsFit, WithinBudget, Busy
    <2>9. CASE TransferReturns(k)
      <3>1. Bytes(k) <= test[k].budget
        BY <1>0, <2>2, <2>9, Returned DEF BudgetsFit, WithinBudget, Busy
      <3>2. test[k].budget \in Nat
        BY <1>1, U64MaxAssumption DEF TestType
      <3>3. Bytes(k)' <= test'[k].budget
        BY <1>0, <2>9, <3>1, <3>2, Returned
      <3> QED BY <1>0, <2>3, <2>9, <3>3, Returned DEF Busy
    <2> QED BY <2>4, <2>5, <2>6, <2>7, <2>8, <2>9 DEF Test
  <1> QED BY <1>4, <1>5 DEF QuotaInv

LEMMA NextQuota ==
    ASSUME TypeInv, OwnInv, QuotaInv, [Next]_vars
    PROVE  QuotaInv'
  <1>1. CASE UNCHANGED vars
    BY <1>1 DEF vars, connVars, usageVars, QuotaInv, StartsAtZero, AllAlone, BudgetsFit,
       Apart, WithinBudget, UserFits, IpFits, QuotaRespected, Bytes, Today
  <1> QED BY <1>1, HandlerQuota, TestQuota DEF Next, Quiet

LEMMA QuotaInvariant == Spec => []QuotaInv
  BY InitQuota, TypeInvariant, OwnInvariant, NextQuota, PTL DEF Spec

\* As long as every test has one task that spends its budget, and no two tests
\* of a user or an address run at once, the budget computed at the start of a
\* test keeps every limit of user and address in every window
\* (QuotaManager::remaining_budget, spend_budget, record_usage).
THEOREM QuotaKeptAlone == Spec => []QuotaRespectedAlone
  <1>1. QuotaInv => QuotaRespectedAlone
    BY DEF QuotaInv, AllAlone, BudgetsFit, QuotaRespectedAlone, BudgetKeepsQuota
  <1> QED BY <1>1, QuotaInvariant, PTL

-----------------------------------------------------------------------------
(* Usage *)

\* Test k has what charges its user, and its address, charged.
UserDone(k) == test[k].phase \in {"charged", "ended"}

LEMMA InitUsage == Init => UsageExact
  <1> SUFFICES ASSUME Init PROVE UsageExact
    OBVIOUS
  <1>1. \A u \in Users : ChargedTo(u) = {}
    BY DEF Init, ChargedTo, NoTest
  <1>2. \A i \in Ips : EndedAt(i) = {}
    BY DEF Init, EndedAt, Ended, NoTest
  <1>3. \A u \in Users : SumOf([k \in ChargedTo(u) |-> Bytes(k)]) = 0
    BY <1>1, SumOfEmpty
  <1>4. \A i \in Ips : SumOf([k \in EndedAt(i) |-> Bytes(k)]) = 0
    BY <1>2, SumOfEmpty
  <1> QED BY <1>3, <1>4 DEF UsageExact, Init

\* The tests that are charged are the same and have not moved a byte.
LEMMA ChargedSame ==
    ASSUME \A k \in Conns : /\ UserDone(k)' <=> UserDone(k)
                            /\ UserDone(k) => /\ test'[k].user = test[k].user
                                              /\ test'[k].in = test[k].in
                                              /\ test'[k].out = test[k].out,
           NEW u \in Users
    PROVE  SumOf([k \in ChargedTo(u) |-> Bytes(k)])' = SumOf([k \in ChargedTo(u) |-> Bytes(k)])
  <1>1. ChargedTo(u)' = ChargedTo(u)
    BY DEF ChargedTo, UserDone
  <1>2. \A k \in ChargedTo(u) : Bytes(k)' = Bytes(k)
    BY DEF ChargedTo, UserDone, Bytes
  <1>3. [k \in ChargedTo(u) |-> Bytes(k)]' = [k \in ChargedTo(u) |-> Bytes(k)]
    BY <1>1, <1>2
  <1> QED BY <1>3

LEMMA EndedSame ==
    ASSUME \A k \in Conns : /\ Ended(k)' <=> Ended(k)
                            /\ Ended(k) => /\ test'[k].ip = test[k].ip
                                           /\ test'[k].in = test[k].in
                                           /\ test'[k].out = test[k].out,
           NEW i \in Ips
    PROVE  SumOf([k \in EndedAt(i) |-> Bytes(k)])' = SumOf([k \in EndedAt(i) |-> Bytes(k)])
  <1>1. EndedAt(i)' = EndedAt(i)
    BY DEF EndedAt
  <1>2. \A k \in EndedAt(i) : Bytes(k)' = Bytes(k)
    BY DEF EndedAt, Bytes
  <1>3. [k \in EndedAt(i) |-> Bytes(k)]' = [k \in EndedAt(i) |-> Bytes(k)]
    BY <1>1, <1>2
  <1> QED BY <1>3

\* A test joins those whose user is charged.
LEMMA ChargedGains ==
    ASSUME TypeOK, NEW c \in Conns, ~UserDone(c), UserDone(c)', test'[c] \in TestType,
           \A k \in Conns \ {c} : test'[k] = test[k], NEW u \in Users
    PROVE  SumOf([k \in ChargedTo(u) |-> Bytes(k)])' =
             IF test'[c].user = u
               THEN SumOf([k \in ChargedTo(u) |-> Bytes(k)]) + Bytes(c)'
               ELSE SumOf([k \in ChargedTo(u) |-> Bytes(k)])
  <1> DEFINE D == ChargedTo(u)
             f == [k \in D |-> Bytes(k)]
             g == [k \in D \cup {c} |-> Bytes(k)']
  <1>1. /\ ChargedTo(u)' = IF test'[c].user = u THEN D \cup {c} ELSE D
        /\ c \notin D /\ D \subseteq Conns
    BY DEF ChargedTo, UserDone
  <1>2. \A k \in D : test[k] \in TestType /\ test'[k] = test[k]
    BY <1>1, StartedType DEF ChargedTo
  <1>3. \A k \in D : Bytes(k) \in Nat /\ Bytes(k)' = Bytes(k)
    BY <1>2 DEF Bytes, TestType
  <1>4. Bytes(c)' \in Nat
    BY DEF Bytes, TestType
  <1>5. IsFiniteSet(D)
    BY <1>1, FiniteConns
  <1> HIDE DEF D
  <1>6. /\ f \in [D -> Nat] /\ g \in [D \cup {c} -> Nat] /\ g[c] = Bytes(c)'
        /\ \A k \in D : g[k] = f[k]
    BY <1>3, <1>4
  <1>7. CASE test'[c].user = u
    <2>1. [k \in ChargedTo(u) |-> Bytes(k)]' = g
      BY <1>1, <1>7
    <2> HIDE DEF f, g
    <2>2. SumOf(g) = SumOf(f) + g[c]
      <3>1. OneMore(f, g, D, c)
        BY <1>1, <1>5, <1>6 DEF OneMore
      <3> QED BY <3>1, SumOfAdd
    <2> QED BY <1>6, <1>7, <2>1, <2>2 DEF f, D
  <1>8. CASE test'[c].user # u
    <2>1. [k \in ChargedTo(u) |-> Bytes(k)]' = f
      BY <1>1, <1>3, <1>8
    <2> QED BY <1>8, <2>1 DEF D
  <1> QED BY <1>7, <1>8

\* A test joins those whose address is charged.
LEMMA EndedGains ==
    ASSUME TypeOK, NEW c \in Conns, ~Ended(c), Ended(c)', test'[c] \in TestType,
           \A k \in Conns \ {c} : test'[k] = test[k], NEW i \in Ips
    PROVE  SumOf([k \in EndedAt(i) |-> Bytes(k)])' =
             IF test'[c].ip = i
               THEN SumOf([k \in EndedAt(i) |-> Bytes(k)]) + Bytes(c)'
               ELSE SumOf([k \in EndedAt(i) |-> Bytes(k)])
  <1> DEFINE D == EndedAt(i)
             f == [k \in D |-> Bytes(k)]
             g == [k \in D \cup {c} |-> Bytes(k)']
  <1>1. /\ EndedAt(i)' = IF test'[c].ip = i THEN D \cup {c} ELSE D
        /\ c \notin D /\ D \subseteq Conns
    BY DEF EndedAt, Ended
  <1>2. \A k \in D : test[k] \in TestType /\ test'[k] = test[k]
    BY <1>1, StartedType DEF EndedAt, Ended
  <1>3. \A k \in D : Bytes(k) \in Nat /\ Bytes(k)' = Bytes(k)
    BY <1>2 DEF Bytes, TestType
  <1>4. Bytes(c)' \in Nat
    BY DEF Bytes, TestType
  <1>5. IsFiniteSet(D)
    BY <1>1, FiniteConns
  <1> HIDE DEF D
  <1>6. /\ f \in [D -> Nat] /\ g \in [D \cup {c} -> Nat] /\ g[c] = Bytes(c)'
        /\ \A k \in D : g[k] = f[k]
    BY <1>3, <1>4
  <1>7. CASE test'[c].ip = i
    <2>1. [k \in EndedAt(i) |-> Bytes(k)]' = g
      BY <1>1, <1>7
    <2> HIDE DEF f, g
    <2>2. SumOf(g) = SumOf(f) + g[c]
      <3>1. OneMore(f, g, D, c)
        BY <1>1, <1>5, <1>6 DEF OneMore
      <3> QED BY <3>1, SumOfAdd
    <2> QED BY <1>6, <1>7, <2>1, <2>2 DEF f, D
  <1>8. CASE test'[c].ip # i
    <2>1. [k \in EndedAt(i) |-> Bytes(k)]' = f
      BY <1>1, <1>3, <1>8
    <2> QED BY <1>8, <2>1 DEF D
  <1> QED BY <1>7, <1>8

\* A step that charges nothing.
LEMMA UsageSame ==
    ASSUME UsageExact, UNCHANGED <<used, in, out, unwritten>>,
           \A k \in Conns : /\ UserDone(k)' <=> UserDone(k)
                            /\ Ended(k)' <=> Ended(k)
                            /\ UserDone(k) => /\ test'[k].user = test[k].user
                                              /\ test'[k].ip = test[k].ip
                                              /\ test'[k].in = test[k].in
                                              /\ test'[k].out = test[k].out
    PROVE  UsageExact'
  <1>1. \A k \in Conns : Ended(k) => UserDone(k)
    BY DEF Ended, UserDone
  <1>2. \A u \in Users :
          SumOf([k \in ChargedTo(u) |-> Bytes(k)])' = SumOf([k \in ChargedTo(u) |-> Bytes(k)])
    BY ChargedSame
  <1>3. \A i \in Ips :
          SumOf([k \in EndedAt(i) |-> Bytes(k)])' = SumOf([k \in EndedAt(i) |-> Bytes(k)])
    BY <1>1, EndedSame
  <1> QED BY <1>2, <1>3 DEF UsageExact

LEMMA TestUsage ==
    ASSUME TypeInv, StartsAtZero, UsageExact, NEW k \in Conns, Test(k) \/ Enforcer(k)
    PROVE  UsageExact'
  <1>0. TypeOK /\ TestStep(k)
    BY TestSteps DEF TypeInv
  <1>1. /\ \A j \in Conns \ {k} : test'[j] = test[j]
        /\ test[k] \in TestType /\ test'[k] \in TestType
        /\ test'[k].user = test[k].user /\ test'[k].ip = test[k].ip
        /\ test[k].user \in Users /\ test[k].ip \in Ips
    BY <1>0 DEF TestStep, TypeOK, TestType
  <1>2. ASSUME UNCHANGED <<used, in, out, unwritten>>,
               test'[k].phase \in {"start", "run", "join"},
               test[k].phase \in {"start", "run", "join"}
        PROVE  UsageExact'
    BY <1>1, <1>2, UsageSame DEF UserDone, Ended
  <1>3. CASE Start(k) \/ MoveIn(k) \/ MoveOut(k) \/ BudgetStop(k) \/ ClientLeaves(k)
    <2>1. /\ UNCHANGED <<used, in, out, unwritten>>
          /\ test'[k].phase \in {"start", "run", "join"}
          /\ test[k].phase \in {"start", "run", "join"}
      BY <1>0, <1>1, <1>3 DEF TypeOK, TestType, Start, MoveIn, MoveOut, BudgetStop,
         ClientLeaves, usageVars
    <2> QED BY <1>2, <2>1
  <1>4. CASE Enforcer(k)
    <2>1. /\ UNCHANGED <<used, in, out, unwritten>>
          /\ test'[k].phase \in {"start", "run", "join"}
          /\ test[k].phase \in {"start", "run", "join"}
      BY <1>0, <1>1, <1>4 DEF TypeOK, TestType, Enforcer, EnforcerSeesEnd, EnforcerTimeout,
         EnforcerUser, EnforcerIp, Enforcing, StoppedBy, usageVars
    <2> QED BY <1>2, <2>1
  <1>5. CASE StartFails(k)
    <2>1. /\ test[k].phase = "start" /\ test'[k].phase = "ended"
          /\ test'[k].in = 0 /\ test'[k].out = 0
          /\ UNCHANGED <<used, in, out, unwritten>>
      BY <1>0, <1>1, <1>5 DEF StartFails, StartsAtZero, TypeOK, TestType, usageVars
    <2>2. ~UserDone(k) /\ UserDone(k)' /\ ~Ended(k) /\ Ended(k)' /\ Bytes(k)' = 0
      BY <2>1 DEF UserDone, Ended, Bytes
    <2> SUFFICES ASSUME ~unwritten
                 PROVE  /\ \A u \in Users : used[u] = SumOf([j \in ChargedTo(u) |-> Bytes(j)])'
                        /\ \A i \in Ips :
                              in[i] + out[i] = SumOf([j \in EndedAt(i) |-> Bytes(j)])'
      BY <2>1 DEF UsageExact
    <2>3. ASSUME NEW u \in Users
          PROVE  used[u] = SumOf([j \in ChargedTo(u) |-> Bytes(j)])'
      <3>1. used[u] = SumOf([j \in ChargedTo(u) |-> Bytes(j)]) /\ used[u] \in Nat
        BY <1>0 DEF UsageExact, TypeOK
      <3> QED BY <1>0, <1>1, <2>2, <3>1, ChargedGains
    <2>4. ASSUME NEW i \in Ips
          PROVE  in[i] + out[i] = SumOf([j \in EndedAt(i) |-> Bytes(j)])'
      <3>1. /\ in[i] + out[i] = SumOf([j \in EndedAt(i) |-> Bytes(j)])
            /\ in[i] \in Nat /\ out[i] \in Nat
        BY <1>0 DEF UsageExact, TypeOK
      <3> QED BY <1>0, <1>1, <2>2, <3>1, EndedGains
    <2> QED BY <2>3, <2>4
  <1>6. ASSUME NEW written \in BOOLEAN, RecordUser(k, written) PROVE UsageExact'
    <2>1. /\ test[k].phase = "join" /\ test'[k].phase = "charged" /\ UNCHANGED <<in, out>>
          /\ test'[k].in = test[k].in /\ test'[k].out = test[k].out
          /\ unwritten' = (unwritten \/ ~written)
          /\ used' = Charged(used, test[k].user, Bytes(k), written)
      BY <1>0, <1>1, <1>6 DEF RecordUser, TypeOK, TestType
    <2>2. ~UserDone(k) /\ UserDone(k)' /\ Bytes(k)' = Bytes(k) /\ Bytes(k) \in Nat
      BY <1>1, <2>1 DEF UserDone, Bytes, TestType
    <2>3. \A j \in Conns : Ended(j)' <=> Ended(j)
      BY <1>1, <2>1 DEF Ended
    <2> SUFFICES ASSUME ~unwritten, written
                 PROVE  /\ \A u \in Users : used'[u] = SumOf([j \in ChargedTo(u) |-> Bytes(j)])'
                        /\ \A i \in Ips :
                              in[i] + out[i] = SumOf([j \in EndedAt(i) |-> Bytes(j)])'
      BY <2>1 DEF UsageExact
    <2>4. ASSUME NEW u \in Users
          PROVE  used'[u] = SumOf([j \in ChargedTo(u) |-> Bytes(j)])'
      <3>1. used[u] = SumOf([j \in ChargedTo(u) |-> Bytes(j)])
        BY DEF UsageExact
      <3>2. used'[u] = IF test'[k].user = u THEN used[u] + Bytes(k) ELSE used[u]
        BY <1>0, <1>1, <2>1 DEF Charged, TypeOK
      <3> QED BY <1>0, <1>1, <2>2, <3>1, <3>2, ChargedGains
    <2>5. ASSUME NEW i \in Ips
          PROVE  in[i] + out[i] = SumOf([j \in EndedAt(i) |-> Bytes(j)])'
      <3>1. \A j \in Conns : /\ test'[j].ip = test[j].ip /\ test'[j].in = test[j].in
                             /\ test'[j].out = test[j].out
        BY <1>1, <2>1
      <3>2. in[i] + out[i] = SumOf([j \in EndedAt(i) |-> Bytes(j)])
        BY DEF UsageExact
      <3> QED BY <2>3, <3>1, <3>2, EndedSame
    <2> QED BY <2>4, <2>5
  <1>7. ASSUME NEW written \in BOOLEAN, RecordIp(k, written) PROVE UsageExact'
    <2>1. /\ test[k].phase = "charged" /\ test'[k].phase = "ended" /\ UNCHANGED <<used>>
          /\ test'[k].in = test[k].in /\ test'[k].out = test[k].out
          /\ unwritten' = (unwritten \/ ~written)
          /\ in' = Charged(in, test[k].ip, test[k].out, written)
          /\ out' = Charged(out, test[k].ip, test[k].in, written)
      BY <1>0, <1>1, <1>7 DEF RecordIp, TypeOK, TestType
    <2>2. ~Ended(k) /\ Ended(k)' /\ \A j \in Conns : UserDone(j)' <=> UserDone(j)
      BY <1>1, <2>1 DEF UserDone, Ended
    <2> SUFFICES ASSUME ~unwritten, written
                 PROVE  /\ \A u \in Users : used[u] = SumOf([j \in ChargedTo(u) |-> Bytes(j)])'
                        /\ \A i \in Ips :
                              in'[i] + out'[i] = SumOf([j \in EndedAt(i) |-> Bytes(j)])'
      BY <2>1 DEF UsageExact
    <2>3. ASSUME NEW u \in Users
          PROVE  used[u] = SumOf([j \in ChargedTo(u) |-> Bytes(j)])'
      BY <1>1, <2>1, <2>2, ChargedSame DEF UsageExact
    <2>4. ASSUME NEW i \in Ips
          PROVE  in'[i] + out'[i] = SumOf([j \in EndedAt(i) |-> Bytes(j)])'
      <3>1. /\ in[i] + out[i] = SumOf([j \in EndedAt(i) |-> Bytes(j)])
            /\ in[i] \in Nat /\ out[i] \in Nat
        BY <1>0 DEF UsageExact, TypeOK
      <3>2. /\ in'[i] = IF test'[k].ip = i THEN in[i] + test'[k].out ELSE in[i]
            /\ out'[i] = IF test'[k].ip = i THEN out[i] + test'[k].in ELSE out[i]
        BY <1>0, <1>1, <2>1 DEF Charged, TypeOK
      <3>3. /\ Bytes(k)' = test'[k].in + test'[k].out
            /\ test'[k].in \in Nat /\ test'[k].out \in Nat
        BY <1>1 DEF Bytes, TestType
      <3> QED BY <1>0, <1>1, <2>2, <3>1, <3>2, <3>3, EndedGains
    <2> QED BY <2>3, <2>4
  <1>8. CASE TransferReturns(k)
    BY <1>0, <1>2, <1>8, Returned
  <1> QED BY <1>3, <1>4, <1>5, <1>6, <1>7, <1>8 DEF Test

LEMMA HandlerUsage ==
    ASSUME TypeInv, OwnInv, UsageExact, NEW c \in Conns, Handler(c)
    PROVE  UsageExact'
  <1>0. TypeOK /\ pc[c] \notin Settled
    BY HandlerFrame DEF TypeInv
  <1>1. test[c] = NoTest
    BY <1>0 DEF OwnInv, Starters, Settled
  <1> DEFINE Shape == /\ \A k \in Conns \ {c} : test'[k] = test[k]
                      /\ test'[c] = test[c] \/ test'[c].phase = "start"
                      /\ UNCHANGED <<used, in, out, unwritten>>
  <1>2. ASSUME NEW i \in Ips, Accept(c, i) PROVE Shape
    BY <1>2 DEF Accept, usageVars
  <1>3. ASSUME NEW head, NEW n, Request(c, head, n) PROVE Shape
    BY <1>3 DEF Request, usageVars
  <1>4. ASSUME NEW u, AuthOk(c, u) PROVE Shape
    BY <1>4 DEF AuthOk, usageVars
  <1>5. ASSUME Drop(c) \/ CheckIp(c) \/ Connect(c) \/ AuthFails(c) \/ Refuse(c) PROVE Shape
    BY <1>5 DEF Drop, CheckIp, Connect, AuthFails, Refuse, usageVars
  <1>6. ASSUME Admit(c) PROVE Shape
    BY <1>0, <1>6 DEF TypeOK, Admit, NewTest, usageVars
  <1>7. ASSUME NEW t \in Tokens, Join(c, t) PROVE Shape
    BY <1>0, <1>7 DEF TypeOK, Join, NewTest, usageVars
  <1>8. ASSUME NEW t \in Tokens, Register(c, t) PROVE Shape
    BY <1>8 DEF Register, usageVars
  <1>9. Shape
    BY <1>2, <1>3, <1>4, <1>5, <1>6, <1>7, <1>8 DEF Handler
  <1>10. ~UserDone(c) /\ ~UserDone(c)' /\ ~Ended(c) /\ ~Ended(c)'
    BY <1>1, <1>9 DEF UserDone, Ended, NoTest
  <1>11. \A k \in Conns \ {c} : (UserDone(k)' <=> UserDone(k)) /\ (Ended(k)' <=> Ended(k))
    BY <1>9 DEF UserDone, Ended
  <1> QED BY <1>9, <1>10, <1>11, UsageSame

LEMMA NextUsage ==
    ASSUME TypeInv, OwnInv, QuotaInv, UsageExact, [Next]_vars
    PROVE  UsageExact'
  <1>1. CASE UNCHANGED vars
    <2>1. UNCHANGED <<used, in, out, unwritten, test>>
      BY <1>1 DEF vars, usageVars
    <2> QED BY <2>1, UsageSame DEF UserDone, Ended
  <1> QED BY <1>1, HandlerUsage, TestUsage DEF Next, Quiet, QuotaInv

\* What the summary of a finished test counts is charged exactly once, to its
\* user and to its address, however the ends of several tests interleave, unless
\* the database failed a write (run_pro_single_test, run_pro_multiconn_test,
\* record_usage).
THEOREM UsageIsExact == Spec => []UsageExact
  BY InitUsage, TypeInvariant, OwnInvariant, QuotaInvariant, NextUsage, PTL DEF Spec
=============================================================================
