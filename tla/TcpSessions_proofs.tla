------------------------ MODULE TcpSessions_proofs ------------------------
(* Proofs about TcpSessions, for every set of connections, addresses and    *)
(* tokens.                                                                 *)
EXTENDS TcpSessions, FiniteSetTheorems, TLAPS

\* A handler on its way to a session has drawn a token.
TokenInv ==
    \A c \in Conns :
      \/ pc[c] \in {"lookup", "joinauth", "rejoin", "register", "wait", "collect"}
      \/ pc[c] = "auth" /\ count[c] > 0
      => token[c] \in Tokens

\* A test contains the stream of the handler that runs it.
PrimaryInv == \A k \in Conns : test[k] # {} => k \in test[k]

SessionInv == TypeOK /\ TokenInv /\ PrimaryInv /\ StreamsOwned /\ NoOrphanSession

-----------------------------------------------------------------------------
(* Types and tokens *)

\* Initially every variable has its type and no token is needed.
LEMMA TypeInit == Init => TypeOK /\ TokenInv
  <1> SUFFICES ASSUME Init PROVE TypeOK /\ TokenInv
    OBVIOUS
  <1>1. TypeOK
    BY DEF Init, TypeOK
  <1>2. TokenInv
    BY DEF Init, TokenInv
  <1> QED BY <1>1, <1>2

\* A token is drawn when the command is read and kept until the handler ends.
LEMMA TypeStep == TypeOK /\ TokenInv /\ [Next]_vars => TypeOK' /\ TokenInv'
  <1> SUFFICES ASSUME TypeOK, TokenInv, [Next]_vars PROVE TypeOK' /\ TokenInv'
    OBVIOUS
  <1> USE DEF TypeOK, TokenInv, connVars, mapVars
  <1>1. ASSUME NEW c \in Conns, NEW i \in Ips, Accept(c, i)
        PROVE  TypeOK' /\ TokenInv'
    BY <1>1 DEF Accept
  <1>2. ASSUME NEW c \in Conns, NEW t \in Tokens, JoinByToken(c, t)
        PROVE  TypeOK' /\ TokenInv'
    BY <1>2 DEF JoinByToken
  <1>3. ASSUME NEW c \in Conns, NEW t \in Tokens, JoinByIp(c, t)
        PROVE  TypeOK' /\ TokenInv'
    BY <1>3 DEF JoinByIp
  <1>4. ASSUME NEW c \in Conns, NEW head \in Tokens \cup {NoToken},
               NEW n \in Counts, NEW t \in Tokens, Command(c, head, n, t)
        PROVE  TypeOK' /\ TokenInv'
    BY <1>4, TcpSessionsAssumption DEF Command
  <1>5. ASSUME NEW c \in Conns, Fail(c) \/ Lookup(c) \/ JoinAuth(c) \/ JoinTooLate(c)
        PROVE  TypeOK' /\ TokenInv'
    BY <1>5 DEF Fail, Lookup, JoinAuth, JoinTooLate
  <1>6. ASSUME NEW c \in Conns, Authenticate(c)
        PROVE  TypeOK' /\ TokenInv'
    BY <1>6 DEF Authenticate
  <1>7. ASSUME NEW c \in Conns, Register(c)
        PROVE  TypeOK' /\ TokenInv'
    BY <1>7 DEF Register, Close
  <1>8. ASSUME NEW c \in Conns, WaitDone(c) \/ WaitTimeout(c)
        PROVE  TypeOK' /\ TokenInv'
    BY <1>8 DEF WaitDone, WaitTimeout
  <1>9. ASSUME NEW c \in Conns, Collect(c)
        PROVE  TypeOK' /\ TokenInv'
    BY <1>9 DEF Collect
  <1>10. ASSUME NEW c \in Conns, TestEnds(c)
        PROVE  TypeOK' /\ TokenInv'
    BY <1>10 DEF TestEnds, Close
  <1>11. CASE UNCHANGED vars
    BY <1>11 DEF vars
  <1> QED BY <1>1, <1>2, <1>3, <1>4, <1>5, <1>6, <1>7, <1>8, <1>9, <1>10, <1>11
          DEF Next, Handler, Quiet

\* Type correctness of the session protocol.
THEOREM SessionTypes == Spec => []TypeOK
  BY TypeInit, TypeStep, PTL DEF Spec

-----------------------------------------------------------------------------
(* Ownership of the streams *)

\* Initially no stream is anywhere.
LEMMA OwnedInit == Init => PrimaryInv /\ StreamsOwned /\ NoOrphanSession
  BY DEF Init, PrimaryInv, StreamsOwned, NoOrphanSession

\* Each step moves a stream from one owner to the next, and only the handler
\* that registered a session, or one with the same token, removes it.
LEMMA OwnedStep ==
    SessionInv /\ [Next]_vars => PrimaryInv' /\ StreamsOwned' /\ NoOrphanSession'
  <1> DEFINE Goal == PrimaryInv' /\ StreamsOwned' /\ NoOrphanSession'
  <1> SUFFICES ASSUME TypeOK, TokenInv, PrimaryInv, StreamsOwned,
                      NoOrphanSession, [Next]_vars
               PROVE  Goal
    BY DEF SessionInv
  <1> USE DEF TypeOK, PrimaryInv, StreamsOwned, NoOrphanSession, connVars, mapVars
  <1>1. ASSUME NEW c \in Conns, NEW i \in Ips, Accept(c, i)
        PROVE  Goal
    BY <1>1 DEF Accept
  <1>2. ASSUME NEW c \in Conns, NEW t \in Tokens, JoinByToken(c, t)
        PROVE  Goal
    <2>1. /\ pc[c] \notin {"joined", "test", "wait", "collect"} /\ pc'[c] = "joined"
          /\ \A d \in Conns \ {c} : pc'[d] = pc[d]
          /\ streams' = [streams EXCEPT ![t] = @ \cup {c}]
          /\ UNCHANGED <<token, present, test>>
      BY <1>2 DEF JoinByToken
    <2>2. \A s \in Tokens : c \notin streams[s]
      BY <2>1
    <2>3. \A d \in Conns, s \in Tokens :
            d \in streams'[s] <=> d \in streams[s] \/ (d = c /\ s = t)
      BY <2>1
    <2>4. StreamsOwned'
      BY <2>1, <2>2, <2>3
    <2> QED BY <2>1, <2>4
  <1>3. ASSUME NEW c \in Conns, NEW t \in Tokens, JoinByIp(c, t)
        PROVE  Goal
    <2>1. /\ pc[c] \notin {"joined", "test", "wait", "collect"} /\ pc'[c] = "joined"
          /\ \A d \in Conns \ {c} : pc'[d] = pc[d]
          /\ streams' = [streams EXCEPT ![t] = @ \cup {c}]
          /\ UNCHANGED <<token, present, test>>
      BY <1>3 DEF JoinByIp
    <2>2. \A s \in Tokens : c \notin streams[s]
      BY <2>1
    <2>3. \A d \in Conns, s \in Tokens :
            d \in streams'[s] <=> d \in streams[s] \/ (d = c /\ s = t)
      BY <2>1
    <2>4. StreamsOwned'
      BY <2>1, <2>2, <2>3
    <2> QED BY <2>1, <2>4
  <1>4. ASSUME NEW c \in Conns, NEW head \in Tokens \cup {NoToken},
               NEW n \in Counts, NEW t \in Tokens, Command(c, head, n, t)
        PROVE  Goal
    BY <1>4 DEF Command
  <1>5. ASSUME NEW c \in Conns, Fail(c) \/ Lookup(c) \/ JoinAuth(c) \/ JoinTooLate(c)
        PROVE  Goal
    <2>1. CASE Fail(c)
      <3>1. /\ pc[c] \in {"command", "joinauth", "auth"} /\ pc'[c] = "done"
            /\ \A d \in Conns \ {c} : pc'[d] = pc[d]
            /\ UNCHANGED <<token, mapVars, test>>
        BY <2>1 DEF Fail
      <3> QED BY <3>1
    <2>2. CASE Lookup(c)
      <3>1. /\ pc[c] = "lookup" /\ pc'[c] \in {"joinauth", "auth"}
            /\ \A d \in Conns \ {c} : pc'[d] = pc[d]
            /\ UNCHANGED <<token, mapVars, test>>
        BY <2>2 DEF Lookup
      <3> QED BY <3>1
    <2>3. CASE JoinAuth(c)
      BY <2>3 DEF JoinAuth
    <2>4. CASE JoinTooLate(c)
      BY <2>4 DEF JoinTooLate
    <2> QED BY <1>5, <2>1, <2>2, <2>3, <2>4
  <1>6. ASSUME NEW c \in Conns, Authenticate(c)
        PROVE  Goal
    <2>1. CASE count[c] > 0
      <3>1. /\ pc[c] = "auth" /\ pc'[c] = "register"
            /\ \A d \in Conns \ {c} : pc'[d] = pc[d]
            /\ UNCHANGED <<token, mapVars, test>>
        BY <1>6, <2>1 DEF Authenticate
      <3> QED BY <3>1
    <2>2. CASE ~(count[c] > 0)
      <3>1. /\ test' = [test EXCEPT ![c] = {c}]
            /\ pc' = [pc EXCEPT ![c] = "test"] /\ pc[c] = "auth"
            /\ UNCHANGED <<token, mapVars>>
        BY <1>6, <2>2 DEF Authenticate
      <3>2. test[c] = {} /\ \A k \in Conns : c \notin test[k]
        BY <3>1
      <3>3. PrimaryInv' /\ NoOrphanSession'
        BY <3>1
      <3>4. \A d \in Conns \ {c} : /\ pc'[d] = pc[d]
                                  /\ \A k \in Conns : d \in test'[k] <=> d \in test[k]
        BY <3>1, <3>2
      <3>5. \A k \in Conns : c \in test'[k] <=> k = c
        BY <3>1, <3>2
      <3>6. pc'[c] = "test" /\ streams' = streams /\ \A t \in Tokens : c \notin streams[t]
        BY <3>1
      <3>7. StreamsOwned'
        BY <3>4, <3>5, <3>6
      <3> QED BY <3>3, <3>7
    <2> QED BY <2>1, <2>2
  <1>7. ASSUME NEW c \in Conns, Register(c)
        PROVE  Goal
    <2> DEFINE t == token[c]
    <2>1. /\ t \in Tokens /\ pc[c] = "register"
          /\ present' = present \cup {t}
          /\ streams' = [streams EXCEPT ![t] = {}]
          /\ pc' = [Close(streams[t]) EXCEPT ![c] = "wait"]
          /\ UNCHANGED <<token, test>>
      BY <1>7 DEF Register, TokenInv
    <2> HIDE DEF t
    <2>2. \A k \in Conns : c \notin test[k] /\ \A s \in Tokens : c \notin streams[s]
      BY <2>1
    <2>3. /\ pc'[c] = "wait"
          /\ \A d \in Conns \ {c} :
               pc'[d] = IF d \in streams[t] THEN "done" ELSE pc[d]
      BY <2>1 DEF Close
    <2>4. \A d \in Conns, s \in Tokens :
            d \in streams'[s] <=> d \in streams[s] /\ d \notin streams[t]
      BY <2>1
    <2>5. PrimaryInv'
      BY <2>1
    <2>6. StreamsOwned'
      <3> SUFFICES ASSUME NEW d \in Conns
                   PROVE  /\ pc'[d] = "joined" <=> \E s \in Tokens : d \in streams'[s]
                          /\ pc'[d] = "test" <=> \E k \in Conns : d \in test[k]
                          /\ \A t1, t2 \in Tokens :
                               d \in streams'[t1] /\ d \in streams'[t2] => t1 = t2
        BY <2>1
      <3>1. CASE d = c
        BY <3>1, <2>2, <2>3, <2>4
      <3>2. CASE d # c
        BY <3>2, <2>1, <2>3, <2>4
      <3> QED BY <3>1, <3>2
    <2>7. NoOrphanSession'
      <3> SUFFICES ASSUME NEW s \in present'
                   PROVE  \E d \in Conns : pc'[d] \in {"wait", "collect"} /\ token[d] = s
        BY <2>1
      <3>1. CASE s = t
        BY <3>1, <2>3 DEF t
      <3>2. CASE s # t
        <4>1. PICK d \in Conns : pc[d] \in {"wait", "collect"} /\ token[d] = s
          BY <3>2, <2>1
        <4>2. d \notin streams[t] /\ d # c
          BY <4>1, <2>1
        <4> QED BY <4>1, <4>2, <2>3
      <3> QED BY <3>1, <3>2
    <2> QED BY <2>5, <2>6, <2>7
  <1>8. ASSUME NEW c \in Conns, WaitDone(c) \/ WaitTimeout(c)
        PROVE  Goal
    <2>1. /\ pc[c] = "wait" /\ pc'[c] = "collect"
          /\ \A d \in Conns \ {c} : pc'[d] = pc[d]
          /\ UNCHANGED <<token, mapVars, test>>
      BY <1>8 DEF WaitDone, WaitTimeout
    <2> QED BY <2>1
  <1>9. ASSUME NEW c \in Conns, Collect(c)
        PROVE  Goal
    <2> DEFINE t == token[c]
               S == streams[t] \cup {c}
    <2>1. /\ t \in Tokens /\ pc[c] = "collect"
          /\ present' = present \ {t}
          /\ streams' = [streams EXCEPT ![t] = {}]
          /\ test' = [test EXCEPT ![c] = S]
          /\ pc' = [d \in Conns |-> IF d \in S THEN "test" ELSE pc[d]]
          /\ UNCHANGED token
      BY <1>9 DEF Collect, TokenInv
    <2>2. /\ test[c] = {}
          /\ \A d \in S, k \in Conns : d \notin test[k]
          /\ \A s \in Tokens : c \notin streams[s]
          /\ S \subseteq Conns
      BY <2>1
    <2>3. \A d \in Conns, s \in Tokens :
            d \in streams'[s] <=> d \in streams[s] /\ d \notin S
      BY <2>1, <2>2
    <2>4. \A d \in Conns, k \in Conns :
            d \in test'[k] <=> d \in test[k] \/ (d \in S /\ k = c)
      BY <2>1, <2>2
    <2>5. \A d \in Conns : pc'[d] = IF d \in S THEN "test" ELSE pc[d]
      BY <2>1
    <2>6. PrimaryInv'
      BY <2>1, <2>2
    <2>7. StreamsOwned'
      <3> HIDE DEF S
      <3> SUFFICES ASSUME NEW d \in Conns
                   PROVE  /\ pc'[d] = "joined" <=> \E s \in Tokens : d \in streams'[s]
                          /\ pc'[d] = "test" <=> \E k \in Conns : d \in test'[k]
                          /\ \A t1, t2 \in Tokens :
                               d \in streams'[t1] /\ d \in streams'[t2] => t1 = t2
                          /\ \A k1, k2 \in Conns :
                               d \in test'[k1] /\ d \in test'[k2] => k1 = k2
        OBVIOUS
      <3>1. CASE d \in S
        BY <3>1, <2>2, <2>3, <2>4, <2>5
      <3>2. CASE d \notin S
        BY <3>2, <2>3, <2>4, <2>5
      <3> QED BY <3>1, <3>2
    <2>8. NoOrphanSession'
      <3> SUFFICES ASSUME NEW s \in present'
                   PROVE  \E d \in Conns : pc'[d] \in {"wait", "collect"} /\ token[d] = s
        BY <2>1
      <3>1. PICK d \in Conns : pc[d] \in {"wait", "collect"} /\ token[d] = s
        BY <2>1
      <3>2. d \notin S
        BY <3>1, <2>1
      <3> QED BY <3>1, <3>2, <2>5
    <2> QED BY <2>6, <2>7, <2>8
  <1>10. ASSUME NEW c \in Conns, TestEnds(c)
        PROVE  Goal
    <2>1. /\ test' = [test EXCEPT ![c] = {}]
          /\ UNCHANGED <<token, mapVars>>
          /\ \A d \in Conns : pc'[d] = IF d \in test[c] THEN "done" ELSE pc[d]
      BY <1>10 DEF TestEnds, Close
    <2>2. \A d \in test[c] : pc[d] = "test" /\ d \in Conns
      OBVIOUS
    <2>3. \A d \in Conns, k \in Conns :
            d \in test'[k] <=> d \in test[k] /\ d \notin test[c]
      BY <2>1
    <2>4. PrimaryInv' /\ NoOrphanSession'
      BY <2>1, <2>2
    <2>5. StreamsOwned'
      <3> SUFFICES ASSUME NEW d \in Conns
                   PROVE  /\ pc'[d] = "joined" <=> \E s \in Tokens : d \in streams[s]
                          /\ pc'[d] = "test" <=> \E k \in Conns : d \in test'[k]
                          /\ \A k1, k2 \in Conns :
                               d \in test'[k1] /\ d \in test'[k2] => k1 = k2
        BY <2>1
      <3>1. CASE d \in test[c]
        BY <3>1, <2>1, <2>2, <2>3
      <3>2. CASE d \notin test[c]
        BY <3>2, <2>1, <2>3
      <3> QED BY <3>1, <3>2
    <2> QED BY <2>4, <2>5
  <1>11. CASE UNCHANGED vars
    BY <1>11 DEF vars
  <1> HIDE DEF Goal
  <1> QED BY <1>1, <1>2, <1>3, <1>4, <1>5, <1>6, <1>7, <1>8, <1>9, <1>10, <1>11
          DEF Next, Handler, Quiet

\* The whole invariant.
LEMMA SessionInvHolds == Spec => []SessionInv
  <1>1. Init => SessionInv
    BY TypeInit, OwnedInit DEF SessionInv
  <1>2. SessionInv /\ [Next]_vars => SessionInv'
    BY TypeStep, OwnedStep DEF SessionInv
  <1> QED BY <1>1, <1>2, PTL DEF Spec

\* Every stream is held in exactly one place.
THEOREM StreamsOwnedHolds == Spec => []StreamsOwned
  <1>1. SessionInv => StreamsOwned
    BY DEF SessionInv
  <1> QED BY <1>1, SessionInvHolds, PTL

\* Every session in the map will be collected by a waiting handler.
THEOREM NoOrphanSessionHolds == Spec => []NoOrphanSession
  <1>1. SessionInv => NoOrphanSession
    BY DEF SessionInv
  <1> QED BY <1>1, SessionInvHolds, PTL


-----------------------------------------------------------------------------
(* One client per test.  As long as no two sessions have met under one      *)
(* token, each waiting handler is the only one with its token, and the map  *)
(* holds its session as it registered it.                                   *)

Waiting(c) == pc[c] \in {"wait", "collect"}

\* The session of c is in the map, for its address and its count, and holds
\* no more streams than it expects, all from that address.
HasSession(c) ==
    /\ token[c] \in present
    /\ peer_ip[token[c]] = ip[c]
    /\ expected[token[c]] = count[c]
    /\ IsFiniteSet(streams[token[c]])
    /\ Cardinality(streams[token[c]]) <= count[c]
    /\ \A d \in streams[token[c]] : ip[d] = ip[c]

OneEach == \A c, d \in Conns : Waiting(c) /\ Waiting(d) /\ token[c] = token[d] => c = d

SessionsKept == OneEach /\ \A c \in Conns : Waiting(c) => HasSession(c)

OneClient(k) ==
    /\ \A c \in test[k] : ip[c] = ip[k]
    /\ Cardinality(test[k]) <= count[k] + 1

ClientInv == ~collided => SessionsKept /\ \A k \in Conns : OneClient(k)

\* Initially nobody waits and nothing runs.
LEMMA ClientInit == Init => ClientInv
  <1> SUFFICES ASSUME Init PROVE ClientInv
    OBVIOUS
  <1>1. Cardinality({}) = 0
    BY FS_EmptySet
  <1>2. SessionsKept
    BY DEF Init, SessionsKept, OneEach, Waiting
  <1>3. \A k \in Conns : OneClient(k)
    BY <1>1 DEF Init, OneClient
  <1> QED BY <1>2, <1>3 DEF ClientInv

\* A step that starts no test and leaves the streams under test alone.
LEMMA KeepTests ==
    ASSUME SessionInv, \A k \in Conns : OneClient(k),
           \A k \in Conns : test'[k] = test[k] \/ test'[k] = {},
           \A d \in Conns : /\ pc[d] = "test" => ip'[d] = ip[d]
                            /\ pc[d] = "test" => count'[d] = count[d]
                            /\ count'[d] \in Nat
    PROVE  \A k \in Conns : OneClient(k)'
  <1> TAKE k \in Conns
  <1>0. TypeOK /\ PrimaryInv /\ StreamsOwned
    BY DEF SessionInv
  <1>1. CASE test'[k] = {}
    <2>1. Cardinality({}) = 0
      BY FS_EmptySet
    <2>2. 0 <= count'[k] + 1
      OBVIOUS
    <2> QED BY <1>1, <2>1, <2>2 DEF OneClient
  <1>2. CASE test'[k] # {}
    <2>1. test'[k] = test[k] /\ k \in test[k] /\ test[k] \subseteq Conns
      BY <1>0, <1>2 DEF PrimaryInv, TypeOK
    <2>2. \A d \in test[k] : pc[d] = "test"
      BY <1>0, <2>1 DEF StreamsOwned
    <2>3. ip'[k] = ip[k] /\ count'[k] = count[k] /\ \A d \in test[k] : ip'[d] = ip[d]
      BY <2>1, <2>2
    <2> QED BY <2>1, <2>3 DEF OneClient
  <1> QED BY <1>1, <1>2

\* A step that registers no session and leaves those of the waiting handlers
\* alone.
LEMMA KeepSessions ==
    ASSUME SessionInv, SessionsKept,
           \A c \in Conns : Waiting(c)' => Waiting(c),
           \A c \in Conns : Waiting(c)' =>
              /\ token'[c] = token[c] /\ ip'[c] = ip[c] /\ count'[c] = count[c]
              /\ token[c] \in present'
              /\ peer_ip'[token[c]] = peer_ip[token[c]]
              /\ expected'[token[c]] = expected[token[c]]
              /\ streams'[token[c]] = streams[token[c]],
           \A d \in Conns : pc[d] = "joined" => ip'[d] = ip[d]
    PROVE  SessionsKept'
  <1>0. TypeOK /\ StreamsOwned /\ TokenInv
    BY DEF SessionInv
  <1>1. OneEach'
    BY DEF SessionsKept, OneEach
  <1>2. ASSUME NEW c \in Conns, Waiting(c)' PROVE HasSession(c)'
    <2>1. Waiting(c) /\ HasSession(c) /\ token[c] \in Tokens
      BY <1>0, <1>2 DEF SessionsKept, Waiting, TokenInv
    <2>2. \A d \in streams[token[c]] : ip'[d] = ip[d]
      BY <1>0, <2>1 DEF StreamsOwned, TypeOK
    <2> QED BY <1>2, <2>1, <2>2 DEF HasSession
  <1> QED BY <1>1, <1>2 DEF SessionsKept

\* A connection from its address joins a session that is short of one.
LEMMA JoinKeeps ==
    ASSUME SessionInv, SessionsKept, NEW c \in Conns, NEW t \in Tokens,
           Joinable(c, t), pc[c] \in {"command", "rejoin"},
           streams' = [streams EXCEPT ![t] = @ \cup {c}],
           pc' = [pc EXCEPT ![c] = "joined"],
           UNCHANGED <<ip, count, token, present, peer_ip, expected>>
    PROVE  SessionsKept'
  <1>0. TypeOK /\ StreamsOwned /\ TokenInv
    BY DEF SessionInv
  <1>1. \A k \in Conns : Waiting(k)' <=> Waiting(k)
    BY <1>0 DEF TypeOK, Waiting
  <1>2. OneEach'
    BY <1>1 DEF SessionsKept, OneEach
  <1>3. ASSUME NEW k \in Conns, Waiting(k)' PROVE HasSession(k)'
    <2>1. Waiting(k) /\ HasSession(k) /\ token[k] \in Tokens
      BY <1>0, <1>1, <1>3 DEF SessionsKept, Waiting, TokenInv
    <2>2. CASE token[k] # t
      <3>1. streams'[token[k]] = streams[token[k]]
        BY <1>0, <2>1, <2>2 DEF TypeOK
      <3> QED BY <2>1, <3>1 DEF HasSession
    <2>3. CASE token[k] = t
      <3>1. /\ IsFiniteSet(streams[t]) /\ expected[t] = count[k] /\ peer_ip[t] = ip[k]
            /\ \A d \in streams[t] : ip[d] = ip[k]
        BY <2>1, <2>3 DEF HasSession
      <3>2. /\ ip[c] = ip[k] /\ Cardinality(streams[t]) < count[k]
        BY <3>1 DEF Joinable
      <3>3. streams'[t] = streams[t] \cup {c} /\ c \notin streams[t]
        BY <1>0 DEF TypeOK, StreamsOwned
      <3>4. /\ IsFiniteSet(streams[t] \cup {c})
            /\ Cardinality(streams[t] \cup {c}) = Cardinality(streams[t]) + 1
        BY <3>1, <3>3, FS_AddElement
      <3>5. Cardinality(streams[t]) \in Nat /\ count[k] \in Nat
        BY <1>0, <3>1, FS_CardinalityType DEF TypeOK
      <3>6. Cardinality(streams'[t]) <= count[k] /\ IsFiniteSet(streams'[t])
        BY <3>2, <3>3, <3>4, <3>5
      <3>7. \A d \in streams'[t] : ip[d] = ip[k]
        BY <3>1, <3>2, <3>3
      <3> QED BY <2>1, <2>3, <3>1, <3>6, <3>7 DEF HasSession
    <2> QED BY <2>2, <2>3
  <1> QED BY <1>2, <1>3 DEF SessionsKept

\* Without a collision the new session takes a token nobody waits for.
LEMMA RegisterKeeps ==
    ASSUME SessionInv, SessionsKept, NEW c \in Conns, Register(c), ~collided'
    PROVE  SessionsKept'
  <1> DEFINE t == token[c]
  <1>0. TypeOK /\ StreamsOwned /\ TokenInv
    BY DEF SessionInv
  <1>1. /\ t \in Tokens /\ pc[c] = "register" /\ t \notin present
        /\ present' = present \cup {t}
        /\ peer_ip' = [peer_ip EXCEPT ![t] = ip[c]]
        /\ expected' = [expected EXCEPT ![t] = count[c]]
        /\ streams' = [streams EXCEPT ![t] = {}]
        /\ pc' = [Close(streams[t]) EXCEPT ![c] = "wait"]
        /\ UNCHANGED <<ip, count, token>>
    BY <1>0 DEF Register, TokenInv
  <1> HIDE DEF t
  <1>2. \A k \in Conns \ {c} : Waiting(k)' => Waiting(k)
    BY <1>1 DEF Close, Waiting
  <1>3. \A k \in Conns : Waiting(k) => HasSession(k) /\ token[k] # t /\ k # c
    BY <1>1 DEF SessionsKept, HasSession, Waiting
  <1>4. OneEach'
    BY <1>1, <1>2, <1>3 DEF SessionsKept, OneEach, t
  <1>5. ASSUME NEW k \in Conns, Waiting(k)' PROVE HasSession(k)'
    <2>1. CASE k = c
      <3>1. Cardinality({}) = 0 /\ IsFiniteSet({})
        BY FS_EmptySet
      <3>2. streams'[t] = {} /\ peer_ip'[t] = ip[c] /\ expected'[t] = count[c]
        BY <1>0, <1>1 DEF TypeOK
      <3>3. 0 <= count[c]
        BY <1>0 DEF TypeOK
      <3> QED BY <1>1, <2>1, <3>1, <3>2, <3>3 DEF HasSession, t
    <2>2. CASE k # c
      <3>1. HasSession(k) /\ token[k] # t /\ token[k] \in Tokens
        BY <1>0, <1>2, <1>3, <1>5, <2>2 DEF TokenInv, Waiting
      <3>2. /\ streams'[token[k]] = streams[token[k]] /\ token[k] \in present'
            /\ peer_ip'[token[k]] = peer_ip[token[k]]
            /\ expected'[token[k]] = expected[token[k]]
        BY <1>0, <1>1, <3>1 DEF TypeOK, HasSession
      <3> QED BY <1>1, <3>1, <3>2 DEF HasSession
    <2> QED BY <2>1, <2>2
  <1> QED BY <1>4, <1>5 DEF SessionsKept

\* The session a handler collects is its own.
LEMMA CollectKeeps ==
    ASSUME SessionInv, SessionsKept, \A k \in Conns : OneClient(k),
           NEW c \in Conns, Collect(c)
    PROVE  SessionsKept' /\ \A k \in Conns : OneClient(k)'
  <1> DEFINE t == token[c]
             S == streams[t] \cup {c}
  <1>0. TypeOK /\ StreamsOwned /\ TokenInv
    BY DEF SessionInv
  <1>1. /\ t \in Tokens /\ pc[c] = "collect"
        /\ present' = present \ {t}
        /\ streams' = [streams EXCEPT ![t] = {}]
        /\ test' = [test EXCEPT ![c] = S]
        /\ pc' = [d \in Conns |-> IF d \in S THEN "test" ELSE pc[d]]
        /\ UNCHANGED <<ip, count, token, peer_ip, expected>>
    BY <1>0 DEF Collect, TokenInv
  <1>2. HasSession(c) /\ c \notin streams[t]
    BY <1>0, <1>1 DEF SessionsKept, Waiting, StreamsOwned
  <1>3. \A k \in Conns : Waiting(k)' => Waiting(k) /\ k # c
    BY <1>1 DEF Waiting
  <1>4. \A k \in Conns : Waiting(k)' => token[k] # t /\ token[k] \in Tokens /\ token[k] \in present
    BY <1>0, <1>1, <1>3 DEF SessionsKept, OneEach, HasSession, Waiting, TokenInv
  <1>5. SessionsKept'
    <2>1. \A k \in Conns : Waiting(k)' => /\ token[k] \in present'
                                         /\ streams'[token[k]] = streams[token[k]]
      BY <1>0, <1>1, <1>4 DEF TypeOK
    <2> HIDE DEF t, S
    <2> QED BY <1>1, <1>3, <2>1, KeepSessions
  <1>6. ASSUME NEW k \in Conns PROVE OneClient(k)'
    <2>1. CASE k # c
      <3>1. test'[k] = test[k]
        BY <1>0, <1>1, <2>1 DEF TypeOK
      <3> QED BY <1>1, <3>1 DEF OneClient
    <2>2. CASE k = c
      <3>1. test'[c] = S
        BY <1>0, <1>1 DEF TypeOK
      <3>2. /\ IsFiniteSet(streams[t]) /\ Cardinality(streams[t]) <= count[c]
            /\ \A d \in streams[t] : ip[d] = ip[c]
        BY <1>2 DEF HasSession
      <3>3. Cardinality(S) = Cardinality(streams[t]) + 1
        BY <1>2, <3>2, FS_AddElement
      <3>4. Cardinality(streams[t]) \in Nat /\ count[c] \in Nat
        BY <1>0, <3>2, FS_CardinalityType DEF TypeOK
      <3>5. Cardinality(S) <= count[c] + 1 /\ \A d \in S : ip[d] = ip[c]
        BY <3>2, <3>3, <3>4
      <3> HIDE DEF S
      <3> QED BY <1>1, <2>2, <3>1, <3>5 DEF OneClient
    <2> QED BY <2>1, <2>2
  <1> QED BY <1>5, <1>6

\* Every step keeps sessions and tests to one client, or is a collision.
LEMMA ClientStep == SessionInv /\ ClientInv /\ [Next]_vars => ClientInv'
  <1> SUFFICES ASSUME SessionInv, ClientInv, [Next]_vars, ~collided'
               PROVE  SessionsKept' /\ \A k \in Conns : OneClient(k)'
    BY DEF ClientInv
  <1> DEFINE Goal == SessionsKept' /\ \A k \in Conns : OneClient(k)'
  <1>t. TypeOK /\ TypeOK'
    BY TypeStep DEF SessionInv
  <1>v. CASE UNCHANGED vars
    BY <1>v, KeepSessions, KeepTests, <1>t
       DEF vars, connVars, mapVars, ClientInv, TypeOK, Waiting, SessionsKept, HasSession
  <1>c. ASSUME NEW c \in Conns, Handler(c) PROVE ~collided
    BY <1>c DEF Handler, Accept, JoinByToken, JoinByIp, Command, Fail, Lookup, JoinAuth,
       JoinTooLate, Authenticate, Register, WaitDone, WaitTimeout, Collect, TestEnds
  <1>n. ASSUME NEW c \in Conns, Handler(c)
        PROVE  SessionsKept /\ \A k \in Conns : OneClient(k)
    BY <1>c, <1>n DEF ClientInv
  \* A step of a handler that is neither waiting afterwards, unless it was
  \* before, nor joined or under test, and changes only its own connection.
  <1>q. ASSUME NEW c \in Conns, Handler(c),
               pc[c] \notin {"joined", "test"},
               pc'[c] \in {"wait", "collect"} => Waiting(c) /\ UNCHANGED <<ip, count, token>>,
               \A d \in Conns \ {c} : /\ pc'[d] = pc[d] /\ ip'[d] = ip[d]
                                      /\ count'[d] = count[d] /\ token'[d] = token[d],
               UNCHANGED <<mapVars, test>>
        PROVE  Goal
    <2>1. SessionsKept /\ \A k \in Conns : OneClient(k)
      BY <1>n, <1>q
    <2>2. \A k \in Conns : /\ Waiting(k)' => Waiting(k)
                           /\ Waiting(k)' => /\ token'[k] = token[k] /\ ip'[k] = ip[k]
                                             /\ count'[k] = count[k] /\ token[k] \in present
      BY <1>q, <2>1 DEF Waiting, SessionsKept, HasSession
    <2>3. SessionsKept'
      BY <1>q, <2>1, <2>2, KeepSessions DEF mapVars
    <2>4. \A k \in Conns : OneClient(k)'
      BY <1>q, <1>t, <2>1, KeepTests DEF TypeOK
    <2> QED BY <2>3, <2>4
  <1>1. ASSUME NEW c \in Conns, NEW i \in Ips, Accept(c, i) PROVE Goal
    <2>1. Handler(c) /\ UNCHANGED <<mapVars, test>>
      BY <1>1 DEF Accept, Handler
    <2>2. /\ pc[c] = "idle" /\ pc'[c] = "command"
          /\ \A d \in Conns \ {c} : /\ pc'[d] = pc[d] /\ ip'[d] = ip[d]
                                   /\ count'[d] = count[d] /\ token'[d] = token[d]
      BY <1>1, <1>t DEF Accept, TypeOK
    <2> QED BY <1>q, <2>1, <2>2
  <1>2. ASSUME NEW c \in Conns, NEW t \in Tokens, JoinByToken(c, t) \/ JoinByIp(c, t)
        PROVE  Goal
    <2>0. SessionsKept /\ \A k \in Conns : OneClient(k)
      BY <1>2, <1>n DEF Handler
    <2>1. /\ Joinable(c, t) /\ pc[c] \in {"command", "rejoin"}
          /\ streams' = [streams EXCEPT ![t] = @ \cup {c}]
          /\ pc' = [pc EXCEPT ![c] = "joined"]
          /\ UNCHANGED <<ip, count, token, present, peer_ip, expected, test>>
      BY <1>2 DEF JoinByToken, JoinByIp
    <2>2. SessionsKept'
      BY <2>0, <2>1, JoinKeeps
    <2>3. \A k \in Conns : OneClient(k)'
      BY <1>t, <2>0, <2>1, KeepTests DEF TypeOK
    <2> QED BY <2>2, <2>3
  <1>3. ASSUME NEW c \in Conns, NEW head \in Tokens \cup {NoToken},
               NEW n \in Counts, NEW t \in Tokens, Command(c, head, n, t)
        PROVE  Goal
    <2>1. Handler(c) /\ UNCHANGED <<mapVars, test>>
      BY <1>3 DEF Command, Handler
    <2>2. /\ pc[c] = "command" /\ pc'[c] \in {"lookup", "auth"}
          /\ \A d \in Conns \ {c} : /\ pc'[d] = pc[d] /\ ip'[d] = ip[d]
                                   /\ count'[d] = count[d] /\ token'[d] = token[d]
      BY <1>3, <1>t DEF Command, TypeOK
    <2> QED BY <1>q, <2>1, <2>2
  <1>4. ASSUME NEW c \in Conns,
               Fail(c) \/ Lookup(c) \/ JoinAuth(c) \/ JoinTooLate(c)
                 \/ WaitDone(c) \/ WaitTimeout(c)
        PROVE  Goal
    <2>1. /\ pc[c] \notin {"joined", "test"} /\ UNCHANGED <<ip, count, token, mapVars, test>>
          /\ \A d \in Conns \ {c} : pc'[d] = pc[d]
          /\ pc'[c] \in {"wait", "collect"} => Waiting(c)
      BY <1>4, <1>t DEF Fail, Lookup, JoinAuth, JoinTooLate, WaitDone, WaitTimeout, TypeOK,
         Waiting
    <2> QED BY <1>4, <1>q, <2>1 DEF Handler
  <1>5. ASSUME NEW c \in Conns, Authenticate(c) PROVE Goal
    <2>0. SessionsKept /\ \A k \in Conns : OneClient(k)
      BY <1>5, <1>n DEF Handler
    <2>1. CASE count[c] > 0
      BY <1>5, <1>q, <1>t, <2>1 DEF Authenticate, Handler, TypeOK
    <2>2. CASE ~(count[c] > 0)
      <3>1. /\ pc[c] = "auth" /\ pc' = [pc EXCEPT ![c] = "test"]
            /\ test' = [test EXCEPT ![c] = {c}]
            /\ UNCHANGED <<ip, count, token, mapVars>>
        BY <1>5, <2>2 DEF Authenticate
      <3>2. \A k \in Conns : /\ Waiting(k)' => Waiting(k)
                             /\ Waiting(k)' => token[k] \in present
        BY <1>t, <2>0, <3>1 DEF Waiting, TypeOK, SessionsKept, HasSession
      <3>3. SessionsKept'
        BY <2>0, <3>1, <3>2, KeepSessions DEF mapVars
      <3>c. Cardinality({c}) = 1
        BY FS_Singleton
      <3>4. Cardinality({c}) <= count[c] + 1
        BY <1>t, <3>c DEF TypeOK
      <3>5. ASSUME NEW k \in Conns PROVE OneClient(k)'
        <4>1. test'[k] = IF k = c THEN {c} ELSE test[k]
          BY <1>t, <3>1 DEF TypeOK
        <4> QED BY <2>0, <3>1, <3>4, <4>1 DEF OneClient
      <3> QED BY <3>3, <3>5
    <2> QED BY <2>1, <2>2
  <1>6. ASSUME NEW c \in Conns, Register(c) PROVE Goal
    <2>0. SessionsKept /\ \A k \in Conns : OneClient(k)
      BY <1>6, <1>n DEF Handler
    <2>1. SessionsKept'
      BY <1>6, <2>0, RegisterKeeps
    <2>2. \A k \in Conns : OneClient(k)'
      BY <1>6, <1>t, <2>0, KeepTests DEF Register, TypeOK
    <2> QED BY <2>1, <2>2
  <1>7. ASSUME NEW c \in Conns, Collect(c) PROVE Goal
    BY <1>7, <1>n, CollectKeeps DEF Handler
  <1>8. ASSUME NEW c \in Conns, TestEnds(c) PROVE Goal
    <2>0. SessionsKept /\ \A k \in Conns : OneClient(k)
      BY <1>8, <1>n DEF Handler
    <2>1. /\ test' = [test EXCEPT ![c] = {}] /\ UNCHANGED <<ip, count, token, mapVars>>
          /\ \A d \in Conns : Waiting(d)' => Waiting(d)
      BY <1>8 DEF TestEnds, Close, Waiting
    <2>2. SessionsKept'
      <3>1. \A k \in Conns : Waiting(k)' => token[k] \in present
        BY <2>0, <2>1 DEF SessionsKept, HasSession
      <3> QED BY <2>0, <2>1, <3>1, KeepSessions DEF mapVars
    <2>3. \A k \in Conns : test'[k] = test[k] \/ test'[k] = {}
      BY <1>t, <2>1 DEF TypeOK
    <2>4. \A k \in Conns : OneClient(k)'
      BY <1>t, <2>0, <2>1, <2>3, KeepTests DEF TypeOK
    <2> QED BY <2>2, <2>4
  <1> HIDE DEF Goal
  <1>9. ASSUME NEW c \in Conns, Handler(c) PROVE Goal
    BY <1>9, <1>1, <1>2, <1>3, <1>4, <1>5, <1>6, <1>7, <1>8 DEF Handler
  <1> QED BY <1>9, <1>v DEF Next, Quiet, Goal

\* Without a collision of tokens every test is of one client: its primary and
\* at most tcp_conn_count others, all from the primary's address (the join
\* branches and the collection of handle_client).
THEOREM TestOfOneClientHolds == Spec => []TestOfOneClient
  <1>1. ClientInv => TestOfOneClient
    BY DEF ClientInv, OneClient, TestOfOneClient
  <1> QED BY <1>1, ClientInit, ClientStep, SessionInvHolds, PTL DEF Spec
=============================================================================
