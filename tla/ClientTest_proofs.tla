------------------------- MODULE ClientTest_proofs -------------------------
(***************************************************************************)
(* Proofs about ClientTest, for every set of commands, every packet size   *)
(* and every bound; then about Handshake, the login before the test.       *)
(***************************************************************************)
EXTENDS ClientTest, Handshake, SequenceTheorems, TLAPS

\* The summary is taken when run_client is over, and only then.
SummaryInv ==
    summary # NoSummary =>
      main = "ended" /\ summary = <<total_tx_bytes, total_rx_bytes>>

\* TypeOK holds initially.
LEMMA TypeInit == Init => TypeOK
  BY ClientAssumption DEF Init, TypeOK

\* A sending task that has met its limit of errors does not try again.
ErrorsInv ==
    /\ writer \in {"head", "write"} => errors <= MaxSendErrors
    /\ main = "connect" => writer = "none" /\ errors = 0

\* Every step keeps the types.
LEMMA TypeStep == TypeOK /\ ErrorsInv /\ [Next]_vars => TypeOK' /\ ErrorsInv'
  <1> SUFFICES ASSUME TypeOK, ErrorsInv, [Next]_vars PROVE TypeOK' /\ ErrorsInv'
    OBVIOUS
  <1> USE ClientAssumption DEF TypeOK, ErrorsInv, countVars, taskVars
  <1>1. CASE WriterExit
    BY <1>1 DEF WriterExit
  <1>2. CASE WriterProceed
    BY <1>2 DEF WriterProceed
  <1>3. CASE WriterSent
    BY <1>3 DEF WriterSent
  <1>4. CASE WriterFailed
    BY <1>4 DEF WriterFailed
  <1>5. CASE ReaderExit
    BY <1>5 DEF ReaderExit
  <1>6. CASE ReaderProceed
    BY <1>6 DEF ReaderProceed
  <1>7. CASE ReaderData
    BY <1>7 DEF ReaderData
  <1>8. CASE ReaderNothing
    BY <1>8 DEF ReaderNothing
  <1>9. CASE ReaderClosed
    BY <1>9 DEF ReaderClosed
  <1>10. CASE Connected
    BY <1>10 DEF Connected
  <1>11. CASE ConnectFails
    BY <1>11 DEF ConnectFails
  <1>13. CASE Tick
    BY <1>13 DEF Tick
  <1>14. CASE StatusWait
    BY <1>14 DEF StatusWait
  <1>15. CASE StatusReceived
    BY <1>15 DEF StatusReceived
  <1>16. CASE StatusReadError
    BY <1>16 DEF StatusReadError
  <1>17. CASE StatusDue
    BY <1>17 DEF StatusDue
  <1>18. CASE StatusSent
    BY <1>18 DEF StatusSent
  <1>19. CASE StatusFailed
    BY <1>19 DEF StatusFailed
  <1>20. CASE Join
    BY <1>20 DEF Join
  <1>21. CASE TimerExpires
    BY <1>21 DEF TimerExpires
  <1>22. CASE Terminated \/ UNCHANGED vars
    BY <1>22 DEF Terminated, vars
  <1> QED BY <1>1, <1>2, <1>3, <1>4, <1>5, <1>6, <1>7, <1>8, <1>9, <1>10, 
      <1>11, <1>13, <1>14, <1>15, <1>16, <1>17, <1>18, <1>19, 
      <1>20, <1>21, <1>22
      DEF Next, Writer, Reader, Main

\* Each variable of the client keeps its type, and its UDP sender gives up
\* after MaxSendErrors consecutive errors.
THEOREM TypeCorrect == Spec => []TypeOK
  <1>1. Init => TypeOK /\ ErrorsInv
    BY TypeInit, ClientAssumption DEF Init, ErrorsInv
  <1> QED BY <1>1, TypeStep, PTL DEF Spec

\* The swap of an interval counter and its addition to a total move bytes and
\* change no sum.
LEMMA AccountingStep == TypeOK /\ Accounting /\ [Next]_vars => Accounting'
  <1> SUFFICES ASSUME TypeOK, Accounting, [Next]_vars PROVE Accounting'
    OBVIOUS
  <1> USE ClientAssumption DEF TypeOK, Accounting, countVars, taskVars
  <1>1. CASE WriterExit
    BY <1>1 DEF WriterExit
  <1>2. CASE WriterProceed
    BY <1>2 DEF WriterProceed
  <1>3. CASE WriterSent
    BY <1>3 DEF WriterSent
  <1>4. CASE WriterFailed
    BY <1>4 DEF WriterFailed
  <1>5. CASE ReaderExit
    BY <1>5 DEF ReaderExit
  <1>6. CASE ReaderProceed
    BY <1>6 DEF ReaderProceed
  <1>7. CASE ReaderData
    BY <1>7 DEF ReaderData
  <1>8. CASE ReaderNothing
    BY <1>8 DEF ReaderNothing
  <1>9. CASE ReaderClosed
    BY <1>9 DEF ReaderClosed
  <1>10. CASE Connected
    BY <1>10 DEF Connected
  <1>11. CASE ConnectFails
    BY <1>11 DEF ConnectFails
  <1>13. CASE Tick
    BY <1>13 DEF Tick
  <1>14. CASE StatusWait
    BY <1>14 DEF StatusWait
  <1>15. CASE StatusReceived
    BY <1>15 DEF StatusReceived
  <1>16. CASE StatusReadError
    BY <1>16 DEF StatusReadError
  <1>17. CASE StatusDue
    BY <1>17 DEF StatusDue
  <1>18. CASE StatusSent
    BY <1>18 DEF StatusSent
  <1>19. CASE StatusFailed
    BY <1>19 DEF StatusFailed
  <1>20. CASE Join
    BY <1>20 DEF Join
  <1>21. CASE TimerExpires
    BY <1>21 DEF TimerExpires
  <1>22. CASE Terminated \/ UNCHANGED vars
    BY <1>22 DEF Terminated, vars
  <1> QED BY <1>1, <1>2, <1>3, <1>4, <1>5, <1>6, <1>7, <1>8, <1>9, <1>10, 
      <1>11, <1>13, <1>14, <1>15, <1>16, <1>17, <1>18, <1>19, 
      <1>20, <1>21, <1>22
      DEF Next, Writer, Reader, Main

\* Whatever the sizes of writes and reads and wherever the timer cuts the
\* client off: every byte is in a total or in the unfinished interval.
THEOREM AccountingHolds == Spec => []Accounting
  <1>1. Init => Accounting
    BY DEF Init, Accounting
  <1> QED BY <1>1, AccountingStep, TypeCorrect, PTL DEF Spec

\* Once the summary is taken no action of run_client is enabled, and the tasks
\* that are left do not touch the totals.
LEMMA SummaryStep == SummaryInv /\ [Next]_vars => SummaryInv'
  <1> SUFFICES ASSUME SummaryInv, [Next]_vars PROVE SummaryInv'
    OBVIOUS
  <1> USE DEF SummaryInv, countVars, taskVars
  <1>1. CASE WriterExit
    BY <1>1 DEF WriterExit
  <1>2. CASE WriterProceed
    BY <1>2 DEF WriterProceed
  <1>3. CASE WriterSent
    BY <1>3 DEF WriterSent
  <1>4. CASE WriterFailed
    BY <1>4 DEF WriterFailed
  <1>5. CASE ReaderExit
    BY <1>5 DEF ReaderExit
  <1>6. CASE ReaderProceed
    BY <1>6 DEF ReaderProceed
  <1>7. CASE ReaderData
    BY <1>7 DEF ReaderData
  <1>8. CASE ReaderNothing
    BY <1>8 DEF ReaderNothing
  <1>9. CASE ReaderClosed
    BY <1>9 DEF ReaderClosed
  <1>10. CASE Connected
    BY <1>10 DEF Connected
  <1>11. CASE ConnectFails
    BY <1>11 DEF ConnectFails
  <1>13. CASE Tick
    BY <1>13 DEF Tick
  <1>14. CASE StatusWait
    BY <1>14 DEF StatusWait
  <1>15. CASE StatusReceived
    BY <1>15 DEF StatusReceived
  <1>16. CASE StatusReadError
    BY <1>16 DEF StatusReadError
  <1>17. CASE StatusDue
    BY <1>17 DEF StatusDue
  <1>18. CASE StatusSent
    BY <1>18 DEF StatusSent
  <1>19. CASE StatusFailed
    BY <1>19 DEF StatusFailed
  <1>20. CASE Join
    BY <1>20 DEF Join
  <1>21. CASE TimerExpires
    BY <1>21 DEF TimerExpires
  <1>22. CASE Terminated \/ UNCHANGED vars
    BY <1>22 DEF Terminated, vars
  <1> QED BY <1>1, <1>2, <1>3, <1>4, <1>5, <1>6, <1>7, <1>8, <1>9, <1>10, 
      <1>11, <1>13, <1>14, <1>15, <1>16, <1>17, <1>18, <1>19, 
      <1>20, <1>21, <1>22
      DEF Next, Writer, Reader, Main

\* The summary main reports is final.
THEOREM SummaryFinalHolds == Spec => []SummaryFinal
  <1>1. Init => SummaryInv
    BY DEF Init, SummaryInv
  <1>2. SummaryInv => SummaryFinal
    BY DEF SummaryInv, SummaryFinal
  <1> QED BY <1>1, <1>2, SummaryStep, PTL DEF Spec

-----------------------------------------------------------------------------
(***************************************************************************)
(* The login that comes before the test: proofs about Handshake, for every *)
(* set of names, passwords, keys and challenges and every curve.  They     *)
(* take from the primitives that the hashes of two passwords differ        *)
(* (NoCollision) and, where the right password must be accepted, that the  *)
(* two sides compute the same secret (SecretsAgree).                       *)
(***************************************************************************)
\* A queue holds s, or the connection broke and it holds nothing: what was on its way
\* is gone, or was written too late.
Carries(q, s) == q = s \/ (broken /\ q = <<>>)

\* The server asks for the MD5 challenge.
Md5 == ~UsesEcSrp5 /\ srv.pass # None

\* What a client answers to the challenge the server remembers.
Response == [hash |-> compute_auth_hash(cli.pass, server), user |-> Truncate(cli.user)]

\* The client's public key.
W_a == gen_public_key(client.key)

\* The first message of EC-SRP5.
Msg1 == [user |-> cli.user, key |-> W_a]

\* The client drew its key.
ClientKey == client.key \in Keys /\ ~scalar_mul(G, client.key).infinity

\* The server's public key and the second message, if it drew s_b.
W_b(s_b) == to_montgomery(BlindedKey(s_b, Validator.x))
Msg2(s_b) == [key |-> W_b(s_b), salt |-> srv.salt]

\* What the server remembers once it drew s_b.
ServerHolds(s_b) ==
    /\ ~BlindedKey(s_b, Validator.x).infinity
    /\ NoLuckyGuess(s_b, W_a, W_b(s_b))
    /\ server = [j |-> KeyHash(W_a.x, W_b(s_b).x),
                 z |-> ServerSecret(Validator, s_b, W_a, W_b(s_b).x)]

\* The two sides start from the same hash of name, password and salt.
SameHash == ClientHash(srv.salt) = ServerHash

\* The two sides agree on the public keys; their secrets are the same exactly if the
\* hashes are, one way because nobody is lucky, the other because of the group law,
\* which takes a validator.
SecretsInv ==
    /\ client.j = server.j
    /\ client.z = server.z => SameHash
    /\ SecretsAgree /\ SameHash /\ ~NoValidator => client.z = server.z

\* What can be on its way, and where the server can be, while the client is at each
\* of its reads.  First the greeting:
AtHello ==
    /\ to_server = <<>>
    /\ \/ spc = "hello" /\ to_client = <<>>
       \/ spc = "command" /\ Carries(to_client, <<HELLO>>)
       \/ spc = "refused" /\ broken /\ to_client \in {<<>>, <<HELLO>>}

\* the command, or the answer to it;
AtVerdict ==
    \/ spc = "command" /\ to_client = <<>> /\ Carries(to_server, <<"command">>)
    \/ /\ to_server = <<>>
       /\ \/ spc = "response" /\ Md5 /\ Carries(to_client, <<AUTH_REQUIRED, server>>)
          \/ spc = "msg1" /\ UsesEcSrp5 /\ Carries(to_client, <<AUTH_ECSRP5>>)
          \/ spc = "admitted" /\ Carries(to_client, <<AUTH_OK>>)
    \/ /\ spc = "refused" /\ broken
       /\ \/ to_client = <<>>
          \/ Md5 /\ to_client = <<AUTH_REQUIRED, server>>
          \/ UsesEcSrp5 /\ to_client = <<AUTH_ECSRP5>>

\* the challenge;
AtChallenge ==
    /\ Md5 /\ HasCredentials
    /\ Carries(to_client, <<server>>)
    /\ \/ spc = "response" /\ to_server = <<>>
       \/ spc = "refused" /\ broken

\* the response, or its verdict;
AtResult ==
    /\ Md5 /\ HasCredentials
    /\ \/ spc = "response" /\ to_client = <<>> /\ Carries(to_server, <<Response>>)
       \/ spc = "admitted" /\ Carries(to_client, <<AUTH_OK>>)
       \/ spc = "refused" /\ Carries(to_client, <<AUTH_FAILED>>)

\* messages 1 and 2 of EC-SRP5;
AtMsg2 ==
    /\ UsesEcSrp5 /\ HasCredentials /\ ClientKey
    /\ \/ spc = "msg1" /\ to_client = <<>> /\ Carries(to_server, <<Msg1>>)
       \/ /\ spc = "msg3" /\ to_server = <<>> /\ cli.user = srv.user
          /\ \E s_b \in Keys : ServerHolds(s_b) /\ Carries(to_client, <<Msg2(s_b)>>)
       \/ spc = "refused" /\ (to_client = <<>> \/ (broken /\ Tail(to_client) = <<>>))

\* messages 3 and 4, which AUTH_OK may follow;
AtMsg4 ==
    /\ UsesEcSrp5 /\ HasCredentials
    /\ spc # "refused" => cli.user = srv.user /\ SecretsInv
    /\ \/ spc = "msg3" /\ to_client = <<>> /\ Carries(to_server, <<client_cc(client)>>)
       \/ spc = "confirmed" /\ Carries(to_client, <<server_cc(server)>>)
       \/ /\ spc = "admitted"
          /\ \/ Carries(to_client, <<server_cc(server), AUTH_OK>>)
             \/ broken /\ to_client = <<server_cc(server)>>
       \/ spc = "refused" /\ (to_client = <<>> \/ (broken /\ Tail(to_client) = <<>>))

\* AUTH_OK after message 4;
AtPostAuth ==
    /\ UsesEcSrp5 /\ HasCredentials
    /\ \/ spc = "confirmed" /\ to_client = <<>>
       \/ spc = "admitted" /\ Carries(to_client, <<AUTH_OK>>)
       \/ spc = "refused" /\ broken /\ to_client = <<>>

\* and what a client that gave up may have left behind for the server.
GaveUp ==
    \/ spc = "hello" /\ to_server = <<>>
    \/ spc = "command" /\ to_server \in {<<>>, <<"command">>}
    \/ spc = "response" /\ Md5
       /\ (to_server = <<>> \/ (HasCredentials /\ to_server = <<Response>>))
    \/ spc = "msg1" /\ UsesEcSrp5
       /\ (to_server = <<>> \/ (HasCredentials /\ ClientKey /\ to_server = <<Msg1>>))
    \/ spc = "msg3" /\ UsesEcSrp5 /\ HasCredentials /\ cli.user = srv.user
       /\ (to_server = <<>> \/ (SecretsInv /\ to_server = <<client_cc(client)>>))
    \/ spc \in {"confirmed", "admitted", "refused"}

\* The inductive invariant: wherever the two sides are, the messages on their way are
\* the ones the reader is about to expect.
ExchangeInv ==
    /\ cpc = "hello" => AtHello
    /\ cpc = "verdict" => AtVerdict
    /\ cpc = "challenge" => AtChallenge
    /\ cpc = "result" => AtResult
    /\ cpc = "msg2" => AtMsg2
    /\ cpc = "msg4" => AtMsg4
    /\ cpc = "post_auth" => AtPostAuth
    /\ cpc = "admitted" => spc = "admitted"
    /\ cpc = "refused" => GaveUp

\* Options, and places of the two sides.
ExchangeTypes ==
    /\ srv \in [user : Option(Names), pass : Option(Passwords), ecsrp5 : BOOLEAN,
                salt : Option(Salts)]
    /\ srv.salt # None <=> UsesEcSrp5
    /\ cli \in [user : Option(Names), pass : Option(Passwords)]
    /\ broken \in BOOLEAN
    /\ spc \in ServerStates
    /\ cpc \in ClientStates

\* Whom the server admits: who may use it, whatever name it does not check.
Entitled == MayUse \/ NameUnchecked

\* A server that has admitted a client, or is about to, was right to do so.
AdmittedEntitled == spc \in {"confirmed", "admitted"} => Entitled

\* Never are both sides waiting for each other: as long as one of them has no verdict,
\* one has something to write, to read or to notice.
NoStandstill == {spc, cpc} \subseteq Final \/ ServerReady \/ ClientReady

\* The queues: a queue of one message, and of two;
LEMMA Queue1 == \A a : Head(<<a>>) = a /\ Tail(<<a>>) = <<>> /\ <<a>> # <<>>
  OBVIOUS
LEMMA Queue2 == \A a, b : Head(<<a, b>>) = a /\ Tail(<<a, b>>) = <<b>> /\ <<a, b>> # <<>>
  OBVIOUS

\* writing to an empty queue;
LEMMA Write0 == <<>> \o <<>> = <<>>
  OBVIOUS
LEMMA Write1 == \A a : <<>> \o <<a>> = <<a>>
  OBVIOUS
LEMMA Write2 == \A a, b : <<>> \o <<a, b>> = <<a, b>>
  OBVIOUS

\* writing behind another message.
LEMMA WriteAfter == ASSUME NEW a, NEW b PROVE <<a>> \o <<b>> = <<a, b>>
  <1> DEFINE S == {a, b}
             c == <<a>> \o <<b>>
  <1>1. <<a>> \in Seq(S) /\ <<b>> \in Seq(S) /\ <<a, b>> \in Seq(S)
    OBVIOUS
  <1>2. Len(<<a>>) = 1 /\ Len(<<b>>) = 1 /\ Len(<<a, b>>) = 2
    OBVIOUS
  <1>3. c \in Seq(S) /\ Len(c) = 2 /\ c[1] = a /\ c[2] = b
    BY <1>1, <1>2, ConcatProperties, Z3
  <1>4. \A i \in 1 .. 2 : c[i] = <<a, b>>[i]
    BY <1>3
  <1>5. c = <<a, b>>
    <2> HIDE DEF c, S
    <2> QED BY <1>1, <1>2, <1>3, <1>4, SeqEqual
  <1> QED BY <1>5

\* What depends only on the options stays as it is,
LEMMA OptionsFixed ==
    ASSUME UNCHANGED <<srv, cli>>
    PROVE  /\ UsesEcSrp5' <=> UsesEcSrp5
           /\ Md5' <=> Md5
           /\ HasCredentials' <=> HasCredentials
           /\ MayUse' <=> MayUse
           /\ Entitled' <=> Entitled
           /\ SameHash' <=> SameHash
           /\ NoValidator' <=> NoValidator
           /\ Validator' = Validator
           /\ ServerHash' = ServerHash
  BY DEF UsesEcSrp5, Md5, HasCredentials, MayUse, Entitled, NameUnchecked, SameHash,
         Validator, ServerHash, ClientHash, NoValidator

\* so does what the client knows,
LEMMA ClientFixed ==
    ASSUME UNCHANGED <<srv, cli, client>>
    PROVE  /\ W_a' = W_a
           /\ Msg1' = Msg1
           /\ ClientKey' <=> ClientKey
           /\ client_cc(client)' = client_cc(client)
           /\ server_cc(client)' = server_cc(client)
  BY DEF W_a, Msg1, ClientKey

\* what the server knows,
LEMMA ServerFixed ==
    ASSUME UNCHANGED <<srv, cli, server>>
    PROVE  /\ Response' = Response
           /\ server_cc(server)' = server_cc(server)
  BY DEF Response, compute_auth_hash

\* and what they know together.
LEMMA KeysFixed ==
    ASSUME UNCHANGED <<srv, cli, client, server>>
    PROVE  /\ SecretsInv' <=> SecretsInv
           /\ \A s_b : W_b(s_b)' = W_b(s_b) /\ Msg2(s_b)' = Msg2(s_b)
           /\ \A s_b : ServerHolds(s_b)' <=> ServerHolds(s_b)
  <1>1. /\ Validator' = Validator /\ W_a' = W_a /\ ServerHash' = ServerHash
        /\ (SameHash' <=> SameHash) /\ (NoValidator' <=> NoValidator)
    BY OptionsFixed, ClientFixed
  <1>2. \A s_b : W_b(s_b)' = W_b(s_b) /\ Msg2(s_b)' = Msg2(s_b)
    BY <1>1 DEF W_b, Msg2
  <1>3. \A s_b, u, w : NoLuckyGuess(s_b, u, w)' <=> NoLuckyGuess(s_b, u, w)
    BY <1>1 DEF NoLuckyGuess
  <1>4. \A s_b : ServerHolds(s_b)' <=> ServerHolds(s_b)
    BY <1>1, <1>2, <1>3 DEF ServerHolds
  <1>5. SecretsInv' <=> SecretsInv
    BY <1>1 DEF SecretsInv
  <1> QED BY <1>2, <1>4, <1>5

\* Every step of the server keeps the invariant:
LEMMA SendHelloKeeps == ASSUME ExchangeTypes, ExchangeInv, SendHello PROVE ExchangeInv'
  <1>1. /\ spc = "hello" /\ spc' = "command"
        /\ to_client' = IF broken THEN to_client ELSE to_client \o <<HELLO>>
        /\ UNCHANGED <<to_server, broken, cpc>>
    BY DEF SendHello, Server
  <1>2. cpc \in {"hello", "refused"}
    BY <1>1
       DEF ExchangeTypes, ClientStates, Final, ExchangeInv, AtHello, AtVerdict,
           AtChallenge, AtResult, AtMsg2, AtMsg4, AtPostAuth
  <1>3. CASE cpc = "hello"
    <2>1. to_server = <<>> /\ to_client = <<>>
      BY <1>1, <1>3 DEF ExchangeInv, AtHello
    <2>2. AtHello'
      BY <1>1, <2>1, Write1 DEF AtHello, Carries
    <2> QED BY <1>1, <1>3, <2>2 DEF ExchangeInv
  <1>4. CASE cpc = "refused"
    <2>1. GaveUp'
      BY <1>1, <1>4 DEF ExchangeInv, GaveUp
    <2> QED BY <1>1, <1>4, <2>1 DEF ExchangeInv
  <1> QED BY <1>2, <1>3, <1>4

\* the answer to the command;
LEMMA ReadCommandKeeps ==
    ASSUME NEW nonce \in Nonces, ExchangeTypes, ExchangeInv, ReadCommand(nonce)
    PROVE  ExchangeInv'
  <1>1. /\ spc = "command" /\ to_server # <<>> /\ to_server' = Tail(to_server)
        /\ UNCHANGED <<srv, cli, broken, cpc, client>>
    BY Zenon DEF ReadCommand, Server, ServerReads
  <1>2. \/ /\ UsesEcSrp5 /\ spc' = "msg1"
           /\ to_client' = IF broken THEN to_client ELSE to_client \o <<AUTH_ECSRP5>>
        \/ /\ ~UsesEcSrp5 /\ srv.pass = None /\ spc' = "admitted"
           /\ to_client' = IF broken THEN to_client ELSE to_client \o <<AUTH_OK>>
        \/ /\ Md5 /\ spc' = "response" /\ server' = nonce
           /\ to_client' = IF broken THEN to_client
                                     ELSE to_client \o <<AUTH_REQUIRED, nonce>>
    BY DEF ReadCommand, Server, Md5
  <1>3. cpc \in {"verdict", "refused"}
    BY <1>1
       DEF ExchangeTypes, ClientStates, Final, ExchangeInv, AtHello, AtVerdict,
           AtChallenge, AtResult, AtMsg2, AtMsg4, AtPostAuth
  <1>4. CASE cpc = "verdict"
    <2>1. to_client = <<>> /\ to_server = <<"command">>
      BY <1>1, <1>4 DEF ExchangeInv, AtVerdict, Carries
    <2>2. AtVerdict'
      BY <1>1, <1>2, <2>1, Queue1, Write1, Write2, OptionsFixed DEF AtVerdict, Carries
    <2> QED BY <1>1, <1>4, <2>2 DEF ExchangeInv
  <1>5. CASE cpc = "refused"
    <2>1. to_server = <<"command">>
      BY <1>1, <1>5 DEF ExchangeInv, GaveUp
    <2>2. GaveUp'
      BY <1>1, <1>2, <2>1, Queue1, OptionsFixed DEF GaveUp
    <2> QED BY <1>1, <1>5, <2>2 DEF ExchangeInv
  <1> QED BY <1>3, <1>4, <1>5

\* the verdict on an MD5 response, which contains the password and a name;
LEMMA ReadResponseKeeps ==
    ASSUME ExchangeTypes, ExchangeInv, AdmittedEntitled, ReadResponse
    PROVE  ExchangeInv' /\ AdmittedEntitled'
  <1>1. /\ spc = "response" /\ to_server # <<>>
        /\ UNCHANGED <<srv, cli, broken, cpc, client, server>>
    BY DEF ReadResponse, Server, ServerReads
  <1>2. \/ /\ ResponseAccepted(Head(to_server)) /\ spc' = "admitted"
           /\ to_client' = IF broken THEN to_client ELSE to_client \o <<AUTH_OK>>
        \/ /\ spc' = "refused"
           /\ to_client' = IF broken THEN to_client ELSE to_client \o <<AUTH_FAILED>>
    BY DEF ReadResponse, Server
  <1>3. cpc \in {"result", "refused"}
    BY <1>1
       DEF ExchangeTypes, ClientStates, Final, ExchangeInv, AtHello, AtVerdict,
           AtChallenge, AtResult, AtMsg2, AtMsg4, AtPostAuth
  <1>4. Md5 /\ HasCredentials /\ to_server = <<Response>>
    BY <1>1, <1>3 DEF ExchangeInv, AtResult, GaveUp, Carries
  <1>5. AdmittedEntitled'
    <2>1. ResponseAccepted(Response) => Entitled
      BY <1>4 DEF ResponseAccepted, Response, compute_auth_hash, Entitled, MayUse,
                  NameUnchecked, Md5
    <2> QED BY <1>1, <1>2, <1>4, <2>1, Queue1, OptionsFixed DEF AdmittedEntitled
  <1>6. CASE cpc = "result"
    <2>1. to_client = <<>>
      BY <1>1, <1>6 DEF ExchangeInv, AtResult
    <2>2. AtResult'
      BY <1>1, <1>2, <1>4, <2>1, Write1, OptionsFixed DEF AtResult, Carries
    <2> QED BY <1>1, <1>5, <1>6, <2>2 DEF ExchangeInv
  <1>7. CASE cpc = "refused"
    <2>1. GaveUp'
      BY <1>2 DEF GaveUp
    <2> QED BY <1>1, <1>5, <1>7, <2>1 DEF ExchangeInv
  <1> QED BY <1>3, <1>6, <1>7

\* message 1, with its name;
LEMMA ReadMsg1Keeps ==
    ASSUME ExchangeTypes, ExchangeInv, NEW s_b \in Keys, ReadMsg1(s_b)
    PROVE  ExchangeInv'
  <1> DEFINE m == Head(to_server)
  <1>1. /\ spc = "msg1" /\ to_server # <<>> /\ to_server' = Tail(to_server)
        /\ UNCHANGED <<srv, cli, broken, cpc, client>>
    BY DEF ReadMsg1, Server, ServerReads
  <1>2. \/ /\ spc' = "refused"
           /\ to_client' = IF broken THEN to_client ELSE to_client \o <<>>
        \/ /\ spc' = "msg3" /\ m.user = srv.user
           /\ ~BlindedKey(s_b, Validator.x).infinity
           /\ NoLuckyGuess(s_b, m.key, W_b(s_b))
           /\ to_client' = IF broken THEN to_client ELSE to_client \o <<Msg2(s_b)>>
           /\ server' = [j |-> KeyHash(m.key.x, W_b(s_b).x),
                         z |-> ServerSecret(Validator, s_b, m.key, W_b(s_b).x)]
    BY DEF ReadMsg1, Server, Msg2, W_b
  <1>3. cpc \in {"msg2", "refused"}
    BY <1>1
       DEF ExchangeTypes, ClientStates, Final, ExchangeInv, AtHello, AtVerdict,
           AtChallenge, AtResult, AtMsg2, AtMsg4, AtPostAuth
  <1>4. UsesEcSrp5 /\ HasCredentials /\ ClientKey /\ to_server = <<Msg1>>
    BY <1>1, <1>3 DEF ExchangeInv, AtMsg2, GaveUp, Carries
  <1>5. m.user = cli.user /\ m.key = W_a /\ to_server' = <<>>
    BY <1>1, <1>4, Queue1 DEF Msg1
  <1> HIDE DEF m
  <1>6. CASE cpc = "msg2"
    <2>1. to_client = <<>>
      BY <1>1, <1>6 DEF ExchangeInv, AtMsg2
    <2>2. spc' = "msg3" => ServerHolds(s_b)'
      <3> SUFFICES ASSUME spc' = "msg3" PROVE ServerHolds(s_b)'
        OBVIOUS
      <3>1. NoLuckyGuess(s_b, W_a, W_b(s_b))'
        <4>1. NoLuckyGuess(s_b, W_a, W_b(s_b))
          BY <1>2, <1>5
        <4> QED BY <1>1, <4>1 DEF NoLuckyGuess, W_a, W_b, Validator, ServerHash
      <3>2. /\ ~BlindedKey(s_b, Validator.x).infinity
            /\ server' = [j |-> KeyHash(W_a.x, W_b(s_b).x),
                          z |-> ServerSecret(Validator, s_b, W_a, W_b(s_b).x)]
        BY <1>2, <1>5
      <3> QED BY <1>1, <3>1, <3>2 DEF ServerHolds, W_a, W_b, Validator, ServerHash
    <2>3. Msg2(s_b)' = Msg2(s_b)
      BY <1>1 DEF Msg2, W_b, Validator, ServerHash
    <2>4. AtMsg2'
      BY <1>1, <1>2, <1>4, <1>5, <2>1, <2>2, <2>3, Write0, Write1, OptionsFixed,
         ClientFixed DEF AtMsg2, Carries
    <2> QED BY <1>1, <1>6, <2>4 DEF ExchangeInv
  <1>7. CASE cpc = "refused"
    <2>1. GaveUp'
      BY <1>1, <1>2, <1>4, <1>5, OptionsFixed DEF GaveUp
    <2> QED BY <1>1, <1>7, <2>1 DEF ExchangeInv
  <1> QED BY <1>3, <1>6, <1>7

\* message 3, whose proof is right only for the right password;
LEMMA ReadMsg3Keeps ==
    ASSUME NoCollision, ExchangeTypes, ExchangeInv, AdmittedEntitled, ReadMsg3
    PROVE  ExchangeInv' /\ AdmittedEntitled'
  <1>1. /\ spc = "msg3" /\ to_server # <<>>
        /\ UNCHANGED <<srv, cli, broken, cpc, client, server>>
    BY DEF ReadMsg3, Server, ServerReads
  <1>2. \/ /\ Head(to_server) = client_cc(server) /\ spc' = "confirmed"
           /\ to_client' = IF broken THEN to_client
                                     ELSE to_client \o <<server_cc(server)>>
        \/ /\ spc' = "refused"
           /\ to_client' = IF broken THEN to_client ELSE to_client \o <<>>
    BY DEF ReadMsg3, Server
  <1>3. cpc \in {"msg4", "refused"}
    BY <1>1
       DEF ExchangeTypes, ClientStates, Final, ExchangeInv, AtHello, AtVerdict,
           AtChallenge, AtResult, AtMsg2, AtMsg4, AtPostAuth
  <1>4. /\ UsesEcSrp5 /\ HasCredentials /\ cli.user = srv.user
        /\ SecretsInv /\ to_server = <<client_cc(client)>>
    BY <1>1, <1>3 DEF ExchangeInv, AtMsg4, GaveUp, Carries
  <1>5. AdmittedEntitled'
    <2>1. client_cc(client) = client_cc(server) => client.z = server.z
      BY DEF client_cc
    <2>2. SameHash => Entitled
      <3>1. /\ cli.user \in Names /\ cli.pass \in Passwords /\ srv.pass \in Passwords
            /\ srv.salt \in Salts
        BY <1>4 DEF ExchangeTypes, HasCredentials, UsesEcSrp5, Option
      <3> QED BY <1>4, <3>1
              DEF NoCollision, SameHash, ClientHash, ServerHash, Entitled, MayUse
    <2>3. spc' = "confirmed" => Entitled
      BY <1>2, <1>4, <2>1, <2>2, Queue1 DEF SecretsInv
    <2> QED BY <1>1, <1>2, <2>3, OptionsFixed DEF AdmittedEntitled
  <1>6. CASE cpc = "msg4"
    <2>1. to_client = <<>>
      BY <1>1, <1>6 DEF ExchangeInv, AtMsg4
    <2>2. AtMsg4'
      BY <1>1, <1>2, <1>4, <2>1, Write0, Write1, Queue1, OptionsFixed, KeysFixed,
         ServerFixed DEF AtMsg4, Carries
    <2> QED BY <1>1, <1>5, <1>6, <2>2 DEF ExchangeInv
  <1>7. CASE cpc = "refused"
    <2>1. GaveUp'
      BY <1>2 DEF GaveUp
    <2> QED BY <1>1, <1>5, <1>7, <2>1 DEF ExchangeInv
  <1> QED BY <1>3, <1>6, <1>7

\* AUTH_OK after it;
LEMMA ConfirmKeeps ==
    ASSUME ExchangeTypes, ExchangeInv, Confirm
    PROVE  ExchangeInv'
  <1>1. /\ spc = "confirmed" /\ spc' = "admitted"
        /\ to_client' = IF broken THEN to_client ELSE to_client \o <<AUTH_OK>>
        /\ UNCHANGED <<srv, cli, broken, cpc, client, server>>
    BY DEF Confirm, Server
  <1>2. cpc \in {"msg4", "post_auth", "refused"}
    BY <1>1
       DEF ExchangeTypes, ClientStates, Final, ExchangeInv, AtHello, AtVerdict,
           AtChallenge, AtResult, AtMsg2, AtMsg4, AtPostAuth
  <1>3. CASE cpc = "msg4"
    <2>1. /\ UsesEcSrp5 /\ HasCredentials /\ cli.user = srv.user /\ SecretsInv
          /\ Carries(to_client, <<server_cc(server)>>)
      BY <1>1, <1>3 DEF ExchangeInv, AtMsg4
    <2>2. \/ to_client' = <<server_cc(server), AUTH_OK>>
          \/ broken /\ to_client' \in {<<>>, <<server_cc(server)>>}
      BY <1>1, <2>1, WriteAfter DEF Carries
    <2>3. AtMsg4'
      BY <1>1, <2>1, <2>2, OptionsFixed, KeysFixed, ServerFixed DEF AtMsg4, Carries
    <2> QED BY <1>1, <1>3, <2>3 DEF ExchangeInv
  <1>4. CASE cpc = "post_auth"
    <2>1. UsesEcSrp5 /\ HasCredentials /\ to_client = <<>>
      BY <1>1, <1>4 DEF ExchangeInv, AtPostAuth
    <2>2. AtPostAuth'
      BY <1>1, <2>1, Write1, OptionsFixed DEF AtPostAuth, Carries
    <2> QED BY <1>1, <1>4, <2>2 DEF ExchangeInv
  <1>5. CASE cpc = "refused"
    <2>1. GaveUp'
      BY <1>1 DEF GaveUp
    <2> QED BY <1>1, <1>5, <2>1 DEF ExchangeInv
  <1> QED BY <1>2, <1>3, <1>4, <1>5

\* the end of the connection.
LEMMA ServerCutKeeps ==
    ASSUME ExchangeTypes, ExchangeInv, ServerCut
    PROVE  ExchangeInv'
  <1>1. /\ spc \notin Final /\ spc' = "refused" /\ (broken \/ cpc = "refused")
        /\ UNCHANGED <<srv, cli, to_server, to_client, broken, cpc, server, client>>
    BY DEF ServerCut
  <1>2. CASE cpc = "refused"
    BY <1>1, <1>2 DEF ExchangeInv, GaveUp
  <1>3. CASE cpc # "refused"
    <2> USE <1>1, <1>3 DEF Carries
    <2>1. cpc = "hello" => AtHello'
      BY DEF ExchangeInv, AtHello
    <2>2. cpc = "verdict" => AtVerdict'
      BY OptionsFixed DEF ExchangeInv, AtVerdict, Final
    <2>3. cpc = "challenge" => AtChallenge'
      BY OptionsFixed DEF ExchangeInv, AtChallenge
    <2>4. cpc = "result" => AtResult'
      BY OptionsFixed DEF ExchangeInv, AtResult, Final
    <2>5. cpc = "msg2" => AtMsg2'
      BY OptionsFixed, ClientFixed, Queue1 DEF ExchangeInv, AtMsg2, Final
    <2>6. cpc = "msg4" => AtMsg4'
      BY OptionsFixed, Queue1 DEF ExchangeInv, AtMsg4, Final
    <2>7. cpc = "post_auth" => AtPostAuth'
      BY OptionsFixed DEF ExchangeInv, AtPostAuth, Final
    <2>8. cpc # "admitted"
      BY DEF ExchangeInv, Final
    <2> QED BY <2>1, <2>2, <2>3, <2>4, <2>5, <2>6, <2>7, <2>8 DEF ExchangeInv
  <1> QED BY <1>2, <1>3

\* Every step of the client does:
LEMMA ReadHelloKeeps ==
    ASSUME ExchangeTypes, ExchangeInv, ReadHello
    PROVE  ExchangeInv'
  <1>1. /\ cpc = "hello" /\ to_client # <<>> /\ cpc' = "verdict"
        /\ to_client' = Tail(to_client)
        /\ to_server' = IF broken THEN to_server ELSE to_server \o <<"command">>
        /\ UNCHANGED <<broken, spc>>
    BY DEF ReadHello, ClientReads, Client
  <1>2. /\ to_server = <<>> /\ to_client = <<HELLO>>
        /\ spc = "command" \/ (spc = "refused" /\ broken)
    BY <1>1 DEF ExchangeInv, AtHello, Carries
  <1>3. AtVerdict'
    BY <1>1, <1>2, Queue1, Write1 DEF AtVerdict, Carries
  <1> QED BY <1>1, <1>3 DEF ExchangeInv

\* what the server asks for;
LEMMA ReadVerdictKeeps ==
    ASSUME ExchangeTypes, ExchangeInv, NEW s_a \in Keys, ReadVerdict(s_a)
    PROVE  ExchangeInv'
  <1>1. /\ cpc = "verdict" /\ to_client # <<>> /\ to_client' = Tail(to_client)
        /\ UNCHANGED <<srv, cli, broken, spc, server>>
    BY Zenon DEF ReadVerdict, ClientReads, Client
  <1>2. AtVerdict
    BY <1>1 DEF ExchangeInv
  <1>a. CASE Received = AUTH_OK /\ Client(<<>>, "admitted")
    <2>1. spc = "admitted"
      BY <1>1, <1>2, <1>a, Queue1, Queue2
         DEF AtVerdict, Carries, Received, AUTH_OK, AUTH_REQUIRED, AUTH_ECSRP5
    <2> QED BY <1>1, <1>a, <2>1 DEF ExchangeInv, Client
  <1>b. CASE /\ Received = AUTH_REQUIRED /\ HasCredentials
             /\ Client(<<>>, "challenge")
    <2>1. /\ to_client = <<AUTH_REQUIRED, server>> /\ Md5
          /\ (spc = "response" /\ to_server = <<>>) \/ (spc = "refused" /\ broken)
      BY <1>1, <1>2, <1>b, Queue1
         DEF AtVerdict, Carries, Received, AUTH_OK, AUTH_REQUIRED, AUTH_ECSRP5
    <2>2. AtChallenge'
      BY <1>1, <1>b, <2>1, Queue2, Write0, OptionsFixed DEF AtChallenge, Carries, Client
    <2> QED BY <1>b, <2>2 DEF ExchangeInv, Client
  <1>c. CASE /\ Received = AUTH_ECSRP5 /\ HasCredentials
             /\ ~scalar_mul(G, s_a).infinity
             /\ Client(<<[user |-> cli.user, key |-> gen_public_key(s_a)]>>, "msg2")
             /\ client' = [key |-> s_a]
    <2>1. /\ to_client = <<AUTH_ECSRP5>> /\ UsesEcSrp5
          /\ (spc = "msg1" /\ to_server = <<>>) \/ (spc = "refused" /\ broken)
      BY <1>1, <1>2, <1>c, Queue2
         DEF AtVerdict, Carries, Received, AUTH_OK, AUTH_REQUIRED, AUTH_ECSRP5
    <2>2. ClientKey' /\ Msg1' = [user |-> cli.user, key |-> gen_public_key(s_a)]
      BY <1>1, <1>c DEF ClientKey, Msg1, W_a
    <2>3. to_client' = <<>> /\ (spc = "msg1" => Carries(to_server', <<Msg1'>>))
      BY <1>1, <1>c, <2>1, <2>2, Queue1, Write1 DEF Carries, Client
    <2>4. UsesEcSrp5' /\ HasCredentials'
      BY <1>1, <1>c, <2>1, OptionsFixed
    <2>5. AtMsg2'
      BY <1>1, <2>1, <2>2, <2>3, <2>4 DEF AtMsg2, Carries
    <2> QED BY <1>c, <2>5 DEF ExchangeInv, Client
  <1>d. CASE /\ Received \in {AUTH_REQUIRED, AUTH_ECSRP5}
             /\ Client(<<>>, "refused")
    <2>1. GaveUp'
      BY <1>1, <1>2, <1>d, Write0, Queue1, OptionsFixed
         DEF AtVerdict, Carries, Received, Client, GaveUp, AUTH_OK, AUTH_REQUIRED,
             AUTH_ECSRP5
    <2> QED BY <1>d, <2>1 DEF ExchangeInv, Client
  <1> QED BY <1>a, <1>b, <1>c, <1>d, Zenon DEF ReadVerdict, gen_public_key

\* the challenge;
LEMMA ReadChallengeKeeps ==
    ASSUME ExchangeTypes, ExchangeInv, ReadChallenge
    PROVE  ExchangeInv'
  <1>1. /\ cpc = "challenge" /\ to_client # <<>> /\ cpc' = "result"
        /\ to_client' = Tail(to_client)
        /\ to_server' = IF broken THEN to_server ELSE to_server \o
              <<[hash |-> compute_auth_hash(cli.pass, Received),
                 user |-> Truncate(cli.user)]>>
        /\ UNCHANGED <<srv, cli, broken, spc, server>>
    BY DEF ReadChallenge, ClientReads, Client
  <1>2. /\ Md5 /\ HasCredentials /\ to_client = <<server>>
        /\ (spc = "response" /\ to_server = <<>>) \/ (spc = "refused" /\ broken)
    BY <1>1 DEF ExchangeInv, AtChallenge, Carries
  <1>3. Received = server /\ to_client' = <<>>
    BY <1>1, <1>2, Queue1 DEF Received
  <1>4. AtResult'
    BY <1>1, <1>2, <1>3, Write1, OptionsFixed, ServerFixed
       DEF AtResult, Carries, Response
  <1> QED BY <1>1, <1>4 DEF ExchangeInv

\* the verdict on the response;
LEMMA ReadResultKeeps ==
    ASSUME ExchangeTypes, ExchangeInv, ReadResult
    PROVE  ExchangeInv'
  <1>1. /\ cpc = "result" /\ to_client # <<>>
        /\ cpc' = IF Received = AUTH_OK THEN "admitted" ELSE "refused"
        /\ UNCHANGED <<broken, spc>>
    BY DEF ReadResult, ClientReads, Client
  <1>2. spc = "admitted" \/ (spc = "refused" /\ Received # AUTH_OK)
    BY <1>1, Queue1 DEF ExchangeInv, AtResult, Carries, Received, AUTH_OK, AUTH_FAILED
  <1> QED BY <1>1, <1>2 DEF ExchangeInv, GaveUp

\* message 2, from which the client computes its secret;
LEMMA ReadMsg2Keeps ==
    ASSUME ExchangeTypes, ExchangeInv, ReadMsg2
    PROVE  ExchangeInv'
  <1> DEFINE s == [key |-> client.key, j |-> KeyHash(W_a.x, Received.key.x),
                   z |-> ClientSecret(ClientHash(Received.salt), client.key, W_a.x,
                                      Received.key)]
  <1>1. /\ cpc = "msg2" /\ to_client # <<>> /\ cpc' = "msg4"
        /\ to_client' = Tail(to_client) /\ client' = s
        /\ to_server' = IF broken THEN to_server ELSE to_server \o <<client_cc(s)>>
        /\ UNCHANGED <<srv, cli, broken, spc, server>>
    BY DEF ReadMsg2, ClientReads, Client, W_a
  <1>2. UsesEcSrp5 /\ HasCredentials /\ ClientKey
    BY <1>1 DEF ExchangeInv, AtMsg2
  <1>3. CASE spc = "msg3"
    <2>1. PICK s_b \in Keys : ServerHolds(s_b) /\ to_client = <<Msg2(s_b)>>
      BY <1>1, <1>3 DEF ExchangeInv, AtMsg2, Carries
    <2>2. to_server = <<>> /\ cli.user = srv.user
      BY <1>1, <1>3 DEF ExchangeInv, AtMsg2
    <2>3. Received = Msg2(s_b) /\ to_client' = <<>>
      BY <1>1, <2>1, Queue1 DEF Received
    <2>4. /\ client'.j = KeyHash(W_a.x, W_b(s_b).x)
          /\ client'.z = ClientSecret(ClientHash(srv.salt), client.key, W_a.x, W_b(s_b))
      BY <1>1, <2>3 DEF Msg2
    <2>5. /\ server'.j = KeyHash(W_a.x, W_b(s_b).x)
          /\ server'.z = ServerSecret(Validator, s_b, W_a, W_b(s_b).x)
      BY <1>1, <2>1 DEF ServerHolds
    <2>6. client'.z = server'.z => SameHash
      BY <2>1, <2>4, <2>5 DEF ServerHolds, NoLuckyGuess, SameHash, ClientHash
    <2>7. SecretsAgree /\ SameHash /\ ~NoValidator => client'.z = server'.z
      <3> SUFFICES ASSUME SecretsAgree, SameHash, ~NoValidator
                   PROVE  client'.z = server'.z
        OBVIOUS
      <3>1. srv.user \in Names /\ srv.pass \in Passwords /\ srv.salt \in Salts
        BY <1>2 DEF ExchangeTypes, UsesEcSrp5, Option
      <3>2. ~scalar_mul(G, client.key).infinity /\ client.key \in Keys
        BY <1>2 DEF ClientKey
      <3>3. ~BlindedKey(s_b, Validator.x).infinity
        BY <2>1 DEF ServerHolds
      <3>v. ~scalar_mul(G, ServerHash).infinity
        BY <1>2 DEF NoValidator
      <3>4. ClientSecret(ServerHash, client.key, W_a.x, W_b(s_b))
              = ServerSecret(Validator, s_b, W_a, W_b(s_b).x)
        BY <2>1, <3>1, <3>2, <3>3, <3>v, Zenon
           DEF SecretsAgree, Validator, W_a, W_b, ServerHash
      <3> QED BY <2>4, <2>5, <3>4 DEF SameHash
    <2>8. SecretsInv'
      BY <1>1, <2>4, <2>5, <2>6, <2>7, OptionsFixed DEF SecretsInv
    <2>9. client_cc(client)' = client_cc(s)
      BY <1>1 DEF client_cc
    <2> HIDE DEF s
    <2>10. AtMsg4'
      BY <1>1, <1>2, <1>3, <2>2, <2>3, <2>8, <2>9, Write1, OptionsFixed
         DEF AtMsg4, Carries
    <2> QED BY <1>1, <2>10 DEF ExchangeInv
  <1>4. CASE spc = "refused"
    <2>1. broken /\ to_client' = <<>>
      BY <1>1, <1>4 DEF ExchangeInv, AtMsg2
    <2>2. AtMsg4'
      BY <1>1, <1>2, <1>4, <2>1, OptionsFixed DEF AtMsg4
    <2> QED BY <1>1, <2>2 DEF ExchangeInv
  <1>5. spc \in {"msg3", "refused"}
    BY <1>1 DEF ExchangeInv, AtMsg2
  <1> QED BY <1>3, <1>4, <1>5

\* message 4, the server's proof;
LEMMA ReadMsg4Keeps ==
    ASSUME ExchangeTypes, ExchangeInv, ReadMsg4
    PROVE  ExchangeInv'
  <1>1. /\ cpc = "msg4" /\ to_client # <<>> /\ to_client' = Tail(to_client)
        /\ cpc' \in {"post_auth", "refused"}
        /\ UNCHANGED <<srv, cli, broken, spc, server>>
    BY DEF ReadMsg4, ClientReads, Client
  <1>2. /\ UsesEcSrp5 /\ HasCredentials
        /\ \/ spc = "confirmed" /\ to_client' = <<>>
           \/ /\ spc = "admitted"
              /\ to_client' = <<AUTH_OK>> \/ (broken /\ to_client' = <<>>)
           \/ spc = "refused" /\ broken /\ to_client' = <<>>
    BY <1>1, Queue1, Queue2 DEF ExchangeInv, AtMsg4, Carries
  <1>3. CASE cpc' = "post_auth"
    <2>1. AtPostAuth'
      BY <1>1, <1>2, OptionsFixed DEF AtPostAuth, Carries
    <2> QED BY <1>3, <2>1 DEF ExchangeInv
  <1>4. CASE cpc' = "refused"
    <2>1. GaveUp'
      BY <1>1, <1>2 DEF GaveUp
    <2> QED BY <1>4, <2>1 DEF ExchangeInv
  <1> QED BY <1>1, <1>3, <1>4

\* AUTH_OK;
LEMMA ReadPostAuthKeeps ==
    ASSUME ExchangeTypes, ExchangeInv, ReadPostAuth
    PROVE  ExchangeInv'
  <1>1. /\ cpc = "post_auth" /\ to_client # <<>>
        /\ cpc' \in {"admitted", "refused"}
        /\ UNCHANGED <<broken, spc>>
    BY DEF ReadPostAuth, ClientReads, Client
  <1>2. spc = "admitted"
    BY <1>1 DEF ExchangeInv, AtPostAuth
  <1> QED BY <1>1, <1>2 DEF ExchangeInv, GaveUp

\* the end of the connection.
LEMMA ClientCutKeeps ==
    ASSUME ExchangeTypes, ExchangeInv, ClientCut
    PROVE  ExchangeInv'
  <1>1. /\ cpc \notin Final /\ cpc' = "refused"
        /\ UNCHANGED <<srv, cli, to_server, to_client, broken, spc, server, client>>
    BY DEF ClientCut
  <1> USE <1>1, OptionsFixed, ClientFixed, ServerFixed, KeysFixed
      DEF ExchangeInv, GaveUp, Carries
  <1>2. CASE cpc = "hello"
    BY <1>2 DEF AtHello
  <1>3. CASE cpc = "verdict"
    BY <1>3 DEF AtVerdict
  <1>4. CASE cpc = "challenge"
    BY <1>4 DEF AtChallenge
  <1>5. CASE cpc = "result"
    BY <1>5 DEF AtResult
  <1>6. CASE cpc = "msg2"
    BY <1>6 DEF AtMsg2
  <1>7. CASE cpc = "msg4"
    BY <1>7 DEF AtMsg4
  <1>8. CASE cpc = "post_auth"
    BY <1>8 DEF AtPostAuth
  <1> QED BY <1>2, <1>3, <1>4, <1>5, <1>6, <1>7, <1>8
     DEF ExchangeTypes, ClientStates, Final

\* So does a break, whichever queues it empties.
LEMMA BreakKeeps ==
    ASSUME ExchangeTypes, ExchangeInv, Break
    PROVE  ExchangeInv'
  <1>1. /\ broken' /\ to_server' \in {to_server, <<>>} /\ to_client' \in {to_client, <<>>}
        /\ UNCHANGED <<srv, cli, spc, cpc, server, client>>
    BY DEF Break
  <1> USE <1>1, OptionsFixed, ClientFixed, ServerFixed, KeysFixed DEF Carries
  <1>2. cpc = "hello" => AtHello'
    BY DEF ExchangeInv, AtHello
  <1>3. cpc = "verdict" => AtVerdict'
    BY DEF ExchangeInv, AtVerdict
  <1>4. cpc = "challenge" => AtChallenge'
    BY DEF ExchangeInv, AtChallenge
  <1>5. cpc = "result" => AtResult'
    BY DEF ExchangeInv, AtResult
  <1>6. cpc = "msg2" => AtMsg2'
    BY DEF ExchangeInv, AtMsg2
  <1>7. cpc = "msg4" => AtMsg4'
    BY DEF ExchangeInv, AtMsg4
  <1>8. cpc = "post_auth" => AtPostAuth'
    BY DEF ExchangeInv, AtPostAuth
  <1>9. cpc = "refused" => GaveUp'
    BY DEF ExchangeInv, GaveUp
  <1> QED BY <1>2, <1>3, <1>4, <1>5, <1>6, <1>7, <1>8, <1>9 DEF ExchangeInv

\* The invariant holds initially,
LEMMA ExchangeInit == HandshakeInit => ExchangeTypes /\ ExchangeInv /\ AdmittedEntitled
  BY DEF HandshakeInit, ExchangeTypes, ExchangeInv, AtHello, AdmittedEntitled,
     ServerStates, ClientStates

\* A step is one of the server, of the client or of the connection, and each side
\* moves only from where it has no verdict.
LEMMA Sides ==
    ASSUME [HandshakeNext]_handshakeVars
    PROVE  /\ UNCHANGED <<srv, cli>>
           /\ \/ /\ ServerStep /\ UNCHANGED cpc /\ broken' = broken
                 /\ spc \notin Final /\ spc' \in ServerStates
              \/ /\ ClientStep /\ UNCHANGED spc /\ broken' = broken
                 /\ cpc \notin Final /\ cpc' \in ClientStates
              \/ Break /\ UNCHANGED <<spc, cpc>> /\ broken' = TRUE
              \/ UNCHANGED handshakeVars
  <1> USE DEF ServerStates, ClientStates, Final
  <1>1. CASE ServerStep
    <2>1. CASE SendHello
      BY <1>1, <2>1 DEF SendHello, Server
    <2>2. CASE \E nonce \in Nonces : ReadCommand(nonce)
      <3>1. PICK nonce \in Nonces : ReadCommand(nonce)
        BY <2>2
      <3>2. spc = "command" /\ UNCHANGED <<srv, cli, broken, cpc>>
        BY <3>1, Zenon DEF ReadCommand, Server, ServerReads
      <3>3. spc' \in {"msg1", "admitted", "response"}
        BY <3>1 DEF ReadCommand, Server
      <3> QED BY <1>1, <3>2, <3>3
    <2>3. CASE ReadResponse
      BY <1>1, <2>3 DEF ReadResponse, Server, ServerReads
    <2>4. CASE \E s_b \in Keys : ReadMsg1(s_b)
      BY <1>1, <2>4 DEF ReadMsg1, Server, ServerReads
    <2>5. CASE ReadMsg3
      BY <1>1, <2>5 DEF ReadMsg3, Server, ServerReads
    <2>6. CASE Confirm
      BY <1>1, <2>6 DEF Confirm, Server
    <2>7. CASE ServerCut
      BY <1>1, <2>7 DEF ServerCut
    <2> QED BY <1>1, <2>1, <2>2, <2>3, <2>4, <2>5, <2>6, <2>7 DEF ServerStep
  <1>2. CASE ClientStep
    <2>1. CASE ReadHello
      BY <1>2, <2>1 DEF ReadHello, Client, ClientReads
    <2>2. CASE \E s_a \in Keys : ReadVerdict(s_a)
      BY <1>2, <2>2 DEF ReadVerdict, Client, ClientReads
    <2>3. CASE ReadChallenge
      BY <1>2, <2>3 DEF ReadChallenge, Client, ClientReads
    <2>4. CASE ReadResult
      BY <1>2, <2>4 DEF ReadResult, Client, ClientReads
    <2>5. CASE ReadMsg2
      BY <1>2, <2>5 DEF ReadMsg2, Client, ClientReads
    <2>6. CASE ReadMsg4
      BY <1>2, <2>6 DEF ReadMsg4, Client, ClientReads
    <2>7. CASE ReadPostAuth
      BY <1>2, <2>7 DEF ReadPostAuth, Client, ClientReads
    <2>8. CASE ClientCut
      BY <1>2, <2>8 DEF ClientCut
    <2> QED BY <1>2, <2>1, <2>2, <2>3, <2>4, <2>5, <2>6, <2>7, <2>8 DEF ClientStep
  <1>3. CASE Break
    BY <1>3 DEF Break
  <1>4. CASE HandshakeOver \/ UNCHANGED handshakeVars
    BY <1>4 DEF HandshakeOver, handshakeVars
  <1> QED BY <1>1, <1>2, <1>3, <1>4 DEF HandshakeNext

\* Every step keeps the types,
LEMMA TypeKept == ExchangeTypes /\ [HandshakeNext]_handshakeVars => ExchangeTypes'
  <1> SUFFICES ASSUME ExchangeTypes, [HandshakeNext]_handshakeVars PROVE ExchangeTypes'
    OBVIOUS
  <1>1. CASE UNCHANGED handshakeVars
    BY <1>1, OptionsFixed DEF ExchangeTypes, handshakeVars
  <1>2. CASE ~UNCHANGED handshakeVars
    BY <1>2, Sides, OptionsFixed DEF ExchangeTypes
  <1> QED BY <1>1, <1>2

\* and the rest of the invariant.
LEMMA ExchangeKept ==
    ASSUME NoCollision, ExchangeTypes, ExchangeInv, AdmittedEntitled,
           [HandshakeNext]_handshakeVars
    PROVE  ExchangeInv' /\ AdmittedEntitled'
  <1>1. CASE ReadResponse \/ ReadMsg3
    BY <1>1, ReadResponseKeeps, ReadMsg3Keeps
  <1>2. CASE UNCHANGED handshakeVars
    <2>1. UNCHANGED <<srv, cli, to_server, to_client, broken, spc, cpc, server, client>>
      BY <1>2 DEF handshakeVars
    <2> USE <2>1, OptionsFixed, ClientFixed, ServerFixed, KeysFixed DEF Carries
    <2>a. AdmittedEntitled'
      BY DEF AdmittedEntitled
    <2>b. AtHello' <=> AtHello
      BY DEF AtHello
    <2>c. AtVerdict' <=> AtVerdict
      BY DEF AtVerdict
    <2>d. AtChallenge' <=> AtChallenge
      BY DEF AtChallenge
    <2>e. AtResult' <=> AtResult
      BY DEF AtResult
    <2>f. AtMsg2' <=> AtMsg2
      BY DEF AtMsg2
    <2>g. AtMsg4' <=> AtMsg4
      BY DEF AtMsg4
    <2>h. AtPostAuth' <=> AtPostAuth
      BY DEF AtPostAuth
    <2>i. GaveUp' <=> GaveUp
      BY DEF GaveUp
    <2> QED BY <2>a, <2>b, <2>c, <2>d, <2>e, <2>f, <2>g, <2>h, <2>i DEF ExchangeInv
  <1>3. CASE ~(ReadResponse \/ ReadMsg3) /\ ~UNCHANGED handshakeVars
    <2>1. ExchangeInv'
      <3>1. CASE ServerStep
        BY <1>3, <3>1, SendHelloKeeps, ReadCommandKeeps, ReadMsg1Keeps, ConfirmKeeps,
           ServerCutKeeps DEF ServerStep
      <3>2. CASE ClientStep
        BY <3>2, ReadHelloKeeps, ReadVerdictKeeps, ReadChallengeKeeps, ReadResultKeeps,
           ReadMsg2Keeps, ReadMsg4Keeps, ReadPostAuthKeeps, ClientCutKeeps
           DEF ClientStep
      <3>3. CASE Break
        BY <3>3, BreakKeeps
      <3> QED BY <1>3, <3>1, <3>2, <3>3, Sides
    <2>2. AdmittedEntitled'
      <3>1. spc' = spc \/ ServerStep
        BY <1>3, Sides
      <3>2. spc' \in {"confirmed", "admitted"} =>
              spc \in {"confirmed", "admitted"} \/ srv.pass = None
        <4>1. CASE spc' = spc
          BY <4>1
        <4>2. CASE \E nonce \in Nonces : ReadCommand(nonce)
          BY <4>2 DEF ReadCommand, Server
        <4>3. CASE \/ SendHello \/ Confirm \/ ServerCut
                   \/ \E s_b \in Keys : ReadMsg1(s_b)
          BY <4>3 DEF SendHello, ReadMsg1, Confirm, ServerCut, Server
        <4> QED BY <1>3, <3>1, <4>1, <4>2, <4>3 DEF ServerStep
      <3> QED BY <3>2, Sides, OptionsFixed DEF AdmittedEntitled, Entitled, NameUnchecked
    <2> QED BY <2>1, <2>2
  <1> QED BY <1>1, <1>2, <1>3

\* The invariant holds throughout.
LEMMA ExchangeInvariant ==
    ASSUME NoCollision
    PROVE  HandshakeSpec => [](ExchangeTypes /\ ExchangeInv /\ AdmittedEntitled)
  <1> DEFINE Inv == ExchangeTypes /\ ExchangeInv /\ AdmittedEntitled
  <1>1. Inv /\ [HandshakeNext]_handshakeVars => Inv'
    BY TypeKept, ExchangeKept
  <1>2. HandshakeInit => Inv
    BY ExchangeInit
  <1> HIDE DEF Inv
  <1>3. HandshakeSpec => []Inv
    BY <1>1, <1>2, PTL DEF HandshakeSpec
  <1> QED BY <1>3 DEF Inv

\* Each step is one of Login or leaves both verdicts alone.
LEMMA LoginStep ==
    ASSUME ExchangeTypes, ExchangeInv', AdmittedEntitled', [HandshakeNext]_handshakeVars
    PROVE  [Promise!Next]_(Promise!vars)
  <1>1. UNCHANGED (MayUse \/ NameUnchecked)
    BY Sides DEF MayUse, NameUnchecked, UsesEcSrp5
  <1>2. CASE UNCHANGED cpc /\ spc \notin Final
    <2>1. Verdict(cpc)' = Verdict(cpc) /\ Verdict(spc) = "open"
      BY <1>2 DEF Verdict
    <2>2. CASE spc' = "admitted"
      BY <1>1, <2>1, <2>2
         DEF Promise!Next, Promise!Admit, AdmittedEntitled, Entitled, Verdict, Final
    <2>3. CASE spc' = "refused"
      BY <1>1, <2>1, <2>3 DEF Promise!Next, Promise!Refuse, Verdict, Final
    <2>4. CASE spc' \notin Final
      BY <1>1, <2>1, <2>4 DEF Promise!vars, Verdict
    <2> QED BY <2>2, <2>3, <2>4 DEF Final
  <1>3. CASE UNCHANGED spc /\ cpc \notin Final
    <2>1. Verdict(spc)' = Verdict(spc) /\ Verdict(cpc) = "open"
      BY <1>3 DEF Verdict
    <2>2. CASE cpc' = "admitted"
      <3>1. spc = "admitted"
        BY <1>3, <2>2 DEF ExchangeInv
      <3> QED BY <1>1, <2>1, <2>2, <3>1 DEF Promise!Next, Promise!Start, Verdict, Final
    <2>3. CASE cpc' = "refused"
      BY <1>1, <2>1, <2>3 DEF Promise!Next, Promise!GiveUp, Verdict, Final
    <2>4. CASE cpc' \notin Final
      BY <1>1, <2>1, <2>4 DEF Promise!vars, Verdict
    <2> QED BY <2>2, <2>3, <2>4 DEF Final
  <1>4. CASE UNCHANGED <<spc, cpc>>
    BY <1>1, <1>4 DEF Promise!vars, Verdict
  <1> QED BY <1>2, <1>3, <1>4, Sides DEF handshakeVars

\* The safety part of the refinement (handle_client, run_client, and the two pairs of
\* client_authenticate and server_authenticate): nobody is admitted who may not use the
\* server, but for the names it does not check, no client starts before the server has admitted it, and no verdict is taken
\* back, on a connection that may break anywhere.
THEOREM LoginIsKept ==
    ASSUME NoCollision
    PROVE  HandshakeSpec => Promise!Init /\ [][Promise!Next]_(Promise!vars)
  <1>1. HandshakeInit => Promise!Init
    BY DEF HandshakeInit, Promise!Init, Verdict, Final, MayUse, NameUnchecked,
       UsesEcSrp5
  <1> DEFINE Inv == ExchangeTypes /\ ExchangeInv /\ AdmittedEntitled
  <1>2. Inv /\ Inv' /\ [HandshakeNext]_handshakeVars => [Promise!Next]_(Promise!vars)
    BY LoginStep
  <1>3. HandshakeSpec => []Inv
    BY ExchangeInvariant
  <1> HIDE DEF Inv
  <1> QED BY <1>1, <1>2, <1>3, PTL DEF HandshakeSpec

\* With both sides reaching a verdict, which TLC checks, the exchange implements Login.
THEOREM HandshakeRefinesLogin ==
    ASSUME NoCollision
    PROVE  HandshakeSpec /\ Promise!Settles => ImplementsLogin
  BY LoginIsKept DEF ImplementsLogin, Promise!Spec

-----------------------------------------------------------------------------

\* The right credentials, all that is asked for, and a server with a validator.
Welcome == MayUse /\ Provided /\ ~NoValidator

\* It depends only on the options.
LEMMA WelcomeFixed == ASSUME UNCHANGED <<srv, cli>> PROVE Welcome' <=> Welcome
  BY OptionsFixed DEF Welcome, Provided, Fits

\* A server does not turn such a client away,
LEMMA ServerWelcomes ==
    ASSUME SecretsAgree, ExchangeTypes, ExchangeInv, ~broken, Welcome,
           spc # "refused", cpc # "refused", ServerStep
    PROVE  spc' # "refused"
  <1>1. CASE SendHello \/ (\E nonce \in Nonces : ReadCommand(nonce)) \/ Confirm
    BY <1>1 DEF SendHello, ReadCommand, Confirm, Server
  <1>2. CASE ReadResponse
    <2>1. spc = "response" /\ to_server # <<>>
      BY <1>2 DEF ReadResponse, ServerReads
    <2>2. Md5 /\ to_server = <<Response>>
      BY <2>1
         DEF ExchangeTypes, ClientStates, Final, ExchangeInv, AtHello, AtVerdict,
             AtChallenge, AtResult, AtMsg2, AtMsg4, AtPostAuth, Carries
    <2>3. ResponseAccepted(Response)
      BY <2>2 DEF Welcome, MayUse, Provided, Fits, Md5, ResponseAccepted, Response,
                  compute_auth_hash
    <2> QED BY <1>2, <2>2, <2>3, Queue1 DEF ReadResponse, Server
  <1>3. CASE \E s_b \in Keys : ReadMsg1(s_b)
    <2>1. PICK s_b \in Keys : ReadMsg1(s_b)
      BY <1>3
    <2>2. spc = "msg1" /\ to_server # <<>>
      BY <2>1 DEF ReadMsg1, ServerReads
    <2>3. UsesEcSrp5 /\ to_server = <<Msg1>>
      BY <2>2
         DEF ExchangeTypes, ClientStates, Final, ExchangeInv, AtHello, AtVerdict,
             AtChallenge, AtResult, AtMsg2, AtMsg4, AtPostAuth, Carries
    <2>4. srv.pass # None
      BY <2>3 DEF UsesEcSrp5
    <2>5. ~Overlong(cli.user) /\ cli.user = srv.user
      BY <2>3, <2>4 DEF Welcome, MayUse, Provided, Fits, UsesEcSrp5
    <2>6. Head(to_server).user = cli.user
      BY <2>3, Queue1 DEF Msg1
    <2> QED BY <2>1, <2>5, <2>6 DEF ReadMsg1, Server
  <1>4. CASE ReadMsg3
    <2>1. spc = "msg3" /\ to_server # <<>>
      BY <1>4 DEF ReadMsg3, ServerReads
    <2>2. UsesEcSrp5 /\ SecretsInv /\ to_server = <<client_cc(client)>>
      BY <2>1
         DEF ExchangeTypes, ClientStates, Final, ExchangeInv, AtHello, AtVerdict,
             AtChallenge, AtResult, AtMsg2, AtMsg4, AtPostAuth, Carries
    <2>3. SameHash
      BY <2>2 DEF Welcome, MayUse, SameHash, ClientHash, ServerHash, UsesEcSrp5
    <2>4. client_cc(client) = client_cc(server)
      BY <2>2, <2>3 DEF SecretsInv, Welcome, client_cc
    <2> QED BY <1>4, <2>2, <2>4, Queue1 DEF ReadMsg3, Server
  <1>5. CASE ServerCut
    BY <1>5 DEF ServerCut
  <1> QED BY <1>1, <1>2, <1>3, <1>4, <1>5 DEF ServerStep

\* and the client does not give up.
LEMMA ClientWelcome ==
    ASSUME SecretsAgree, ExchangeTypes, ExchangeInv, ~broken, Welcome,
           spc # "refused", cpc # "refused", ClientStep
    PROVE  cpc' # "refused"
  <1>1. CASE ReadHello \/ ReadChallenge \/ ReadMsg2
    BY <1>1 DEF ReadHello, ReadChallenge, ReadMsg2, Client
  <1>2. CASE \E s_a \in Keys : ReadVerdict(s_a)
    <2>1. PICK s_a \in Keys : ReadVerdict(s_a)
      BY <1>2
    <2>2. cpc = "verdict" /\ to_client # <<>>
      BY <2>1 DEF ReadVerdict, ClientReads
    <2>3. Received \in {AUTH_REQUIRED, AUTH_ECSRP5} => srv.pass # None
      BY <2>2, Queue1
         DEF ExchangeInv, AtVerdict, Carries, Md5, UsesEcSrp5, Received, AUTH_OK,
             AUTH_REQUIRED, AUTH_ECSRP5
    <2>4. srv.pass # None => HasCredentials
      BY DEF Welcome, Provided
    <2> QED BY <2>1, <2>3, <2>4 DEF ReadVerdict, Client
  <1>3. CASE ReadResult
    <2>1. cpc = "result" /\ to_client # <<>>
      BY <1>3 DEF ReadResult, ClientReads
    <2>2. Received = AUTH_OK
      BY <2>1, Queue1 DEF ExchangeInv, AtResult, Carries, Received
    <2> QED BY <1>3, <2>2 DEF ReadResult, Client
  <1>4. CASE ReadMsg4
    <2>1. cpc = "msg4" /\ to_client # <<>>
      BY <1>4 DEF ReadMsg4, ClientReads
    <2>2. UsesEcSrp5 /\ SecretsInv /\ Received = server_cc(server)
      BY <2>1, Queue1, Queue2 DEF ExchangeInv, AtMsg4, Carries, Received
    <2>3. SameHash
      BY <2>2 DEF Welcome, MayUse, SameHash, ClientHash, ServerHash, UsesEcSrp5
    <2>4. server_cc(client) = server_cc(server)
      BY <2>2, <2>3 DEF SecretsInv, Welcome, client_cc, server_cc
    <2> QED BY <1>4, <2>2, <2>4 DEF ReadMsg4, Client
  <1>5. CASE ReadPostAuth
    <2>1. cpc = "post_auth" /\ to_client # <<>>
      BY <1>5 DEF ReadPostAuth, ClientReads
    <2>2. Received = AUTH_OK
      BY <2>1, Queue1 DEF ExchangeInv, AtPostAuth, Carries, Received
    <2> QED BY <1>5, <2>2 DEF ReadPostAuth, Client
  <1>6. CASE ClientCut
    BY <1>6 DEF ClientCut
  <1> QED BY <1>1, <1>2, <1>3, <1>4, <1>5, <1>6 DEF ClientStep

\* The right credentials are accepted while the connection holds, with MD5 and with
\* EC-SRP5, whatever keys and challenges are drawn: the two ends of the exchange agree on
\* every byte they hash.
THEOREM NoFalseRefusalHolds ==
    ASSUME NoCollision, SecretsAgree
    PROVE  HandshakeSpec => []NoFalseRefusal
  <1>1. HandshakeInit => NoFalseRefusal
    BY DEF HandshakeInit, NoFalseRefusal
  <1>2. ASSUME ExchangeTypes, ExchangeInv, NoFalseRefusal, [HandshakeNext]_handshakeVars
        PROVE  NoFalseRefusal'
    <2> SUFFICES ASSUME ~broken', Welcome' PROVE spc' # "refused" /\ cpc' # "refused"
      BY DEF NoFalseRefusal, Welcome
    <2>w. Welcome
      BY <1>2, Sides, WelcomeFixed
    <2>b. broken' = broken
      BY <1>2, Sides DEF handshakeVars
    <2>1. Welcome /\ ~broken
      BY <2>w, <2>b
    <2>2. spc # "refused" /\ cpc # "refused"
      BY <1>2, <2>1 DEF NoFalseRefusal, Welcome
    <2> QED BY <1>2, <2>1, <2>2, Sides, ServerWelcomes, ClientWelcome DEF handshakeVars
  <1> DEFINE Inv == ExchangeTypes /\ ExchangeInv /\ AdmittedEntitled
  <1>3. Inv /\ NoFalseRefusal /\ [HandshakeNext]_handshakeVars => NoFalseRefusal'
    BY <1>2
  <1>4. HandshakeSpec => []Inv
    BY ExchangeInvariant
  <1> HIDE DEF Inv
  <1> QED BY <1>1, <1>3, <1>4, PTL DEF HandshakeSpec

-----------------------------------------------------------------------------

\* What a side reads is what it is waiting for: the greeting, an answer it knows, the
\* challenge it has to answer, a verdict; the command, the response, the two messages of
\* EC-SRP5.
NothingUnexpected ==
    /\ to_client # <<>> =>
         /\ cpc = "hello" => Received = HELLO
         /\ cpc = "verdict" =>
              Received \in {AUTH_OK, AUTH_REQUIRED, AUTH_ECSRP5}
         /\ cpc = "challenge" => Received = server
         /\ cpc = "result" => Received \in {AUTH_OK, AUTH_FAILED}
         /\ cpc = "post_auth" => Received = AUTH_OK
    /\ to_server # <<>> =>
         /\ spc = "command" => Head(to_server) = "command"
         /\ spc = "response" => Head(to_server) = Response
         /\ spc = "msg1" => Head(to_server) = Msg1
         /\ spc = "msg3" => Head(to_server) = client_cc(client)

\* Between this program's client and server the branches that report an unexpected
\* answer are never taken (run_client, client_authenticate of auth.rs): a break cuts the
\* exchange short but never shifts it.
THEOREM NothingUnexpectedHolds ==
    ASSUME NoCollision
    PROVE  HandshakeSpec => []NothingUnexpected
  <1> DEFINE Inv == ExchangeTypes /\ ExchangeInv /\ AdmittedEntitled
  <1>1. ASSUME ExchangeTypes, ExchangeInv PROVE NothingUnexpected
    <2>1. ASSUME to_client # <<>>
          PROVE  /\ cpc = "hello" => Received = HELLO
                 /\ cpc = "verdict" =>
                      Received \in {AUTH_OK, AUTH_REQUIRED, AUTH_ECSRP5}
                 /\ cpc = "challenge" => Received = server
                 /\ cpc = "result" => Received \in {AUTH_OK, AUTH_FAILED}
                 /\ cpc = "post_auth" => Received = AUTH_OK
      BY <1>1, <2>1, Queue1, Queue2
         DEF ExchangeInv, AtHello, AtVerdict, AtChallenge, AtResult, AtPostAuth,
             Carries, Received
    <2>2. ASSUME to_server # <<>>
          PROVE  /\ spc = "command" => Head(to_server) = "command"
                 /\ spc = "response" => Head(to_server) = Response
                 /\ spc = "msg1" => Head(to_server) = Msg1
                 /\ spc = "msg3" => Head(to_server) = client_cc(client)
      BY <1>1, <2>2, Queue1
         DEF ExchangeTypes, ClientStates, Final, ExchangeInv, AtHello, AtVerdict,
             AtChallenge, AtResult, AtMsg2, AtMsg4, AtPostAuth, GaveUp, Carries
    <2> QED BY <2>1, <2>2 DEF NothingUnexpected
  <1>2. Inv => NothingUnexpected
    BY <1>1
  <1>3. HandshakeSpec => []Inv
    BY ExchangeInvariant
  <1> HIDE DEF Inv
  <1> QED BY <1>2, <1>3, PTL

\* No deadlock: neither side has a timeout, and none is needed as long as the other side
\* is this program and its connection holds or is seen to break.
THEOREM NoStandstillHolds ==
    ASSUME NoCollision
    PROVE  HandshakeSpec => []NoStandstill
  <1> DEFINE Inv == ExchangeTypes /\ ExchangeInv /\ AdmittedEntitled
  <1>1. ASSUME ExchangeTypes, ExchangeInv PROVE NoStandstill
    <2>1. CASE spc \notin Final
      <3> SUFFICES ASSUME ~broken, to_server = <<>>, cpc # "refused",
                          spc \notin {"hello", "confirmed"}
                   PROVE  ClientReady
        BY <2>1 DEF NoStandstill, ServerReady
      <3>1. cpc # "admitted"
        BY <1>1, <2>1 DEF ExchangeInv, Final
      <3>2. to_client # <<>>
        BY <1>1, <2>1, <3>1, Queue1, Queue2
           DEF ExchangeTypes, ClientStates, ExchangeInv, AtHello, AtVerdict,
               AtChallenge, AtResult, AtMsg2, AtMsg4, AtPostAuth, Carries, Final
      <3> QED BY <3>1, <3>2 DEF ClientReady, Final
    <2>2. CASE spc \in Final /\ cpc \notin Final
      <3>1. broken \/ to_client # <<>> \/ spc = "refused"
        BY <1>1, <2>2, Queue1, Queue2
           DEF ExchangeTypes, ClientStates, ExchangeInv, AtHello, AtVerdict,
               AtChallenge, AtResult, AtMsg2, AtMsg4, AtPostAuth, Carries, Final
      <3> QED BY <2>2, <3>1 DEF ClientReady, NoStandstill
    <2>3. CASE spc \in Final /\ cpc \in Final
      BY <2>3 DEF NoStandstill
    <2> QED BY <2>1, <2>2, <2>3
  <1>2. Inv => NoStandstill
    BY <1>1
  <1>3. HandshakeSpec => []Inv
    BY ExchangeInvariant
  <1> HIDE DEF Inv
  <1> QED BY <1>2, <1>3, PTL

\* How far a side is.
Place ==
    [pc \in ServerStates \cup ClientStates |->
       CASE pc = "hello" -> 0
         [] pc \in {"command", "verdict"} -> 1
         [] pc \in {"response", "msg1", "challenge", "msg2"} -> 2
         [] pc \in {"msg3", "result", "msg4"} -> 3
         [] pc \in {"confirmed", "post_auth"} -> 4
         [] OTHER -> 5]

\* The steps of both sides so far, or what they amount to, and the break.
StepsTaken == Place[spc] + Place[cpc] + IF broken THEN 1 ELSE 0

LEMMA PlaceRange == \A pc \in ServerStates \cup ClientStates : Place[pc] \in 0 .. 5
  BY DEF Place

\* Every step of the server takes it further,
LEMMA ServerAdvances ==
    ASSUME ExchangeTypes, ServerStep PROVE Place[spc'] > Place[spc]
  <1> USE DEF Place, ServerStates, ClientStates, Final
  <1>1. CASE SendHello
    BY <1>1 DEF SendHello, Server
  <1>2. CASE \E nonce \in Nonces : ReadCommand(nonce)
    <2>1. spc = "command" /\ spc' \in {"msg1", "admitted", "response"}
      BY <1>2 DEF ReadCommand, ServerReads, Server
    <2> QED BY <2>1
  <1>3. CASE ReadResponse
    BY <1>3 DEF ReadResponse, Server, ServerReads
  <1>4. CASE \E s_b \in Keys : ReadMsg1(s_b)
    <2>1. spc = "msg1" /\ spc' \in {"msg3", "refused"}
      BY <1>4 DEF ReadMsg1, ServerReads, Server
    <2> QED BY <2>1
  <1>5. CASE ReadMsg3
    BY <1>5 DEF ReadMsg3, Server, ServerReads
  <1>6. CASE Confirm
    BY <1>6 DEF Confirm, Server
  <1>7. CASE ServerCut
    BY <1>7 DEF ServerCut, ExchangeTypes
  <1> QED BY <1>1, <1>2, <1>3, <1>4, <1>5, <1>6, <1>7 DEF ServerStep

\* and every step of the client.
LEMMA ClientAdvances ==
    ASSUME ExchangeTypes, ClientStep PROVE Place[cpc'] > Place[cpc]
  <1> USE DEF Place, ServerStates, ClientStates, Final
  <1>1. CASE ReadHello
    BY <1>1 DEF ReadHello, Client, ClientReads
  <1>2. CASE \E s_a \in Keys : ReadVerdict(s_a)
    <2>1. cpc = "verdict" /\ cpc' \in {"admitted", "challenge", "msg2", "refused"}
      BY <1>2 DEF ReadVerdict, ClientReads, Client
    <2> QED BY <2>1
  <1>3. CASE ReadChallenge
    BY <1>3 DEF ReadChallenge, Client, ClientReads
  <1>4. CASE ReadResult
    BY <1>4 DEF ReadResult, Client, ClientReads
  <1>5. CASE ReadMsg2
    BY <1>5 DEF ReadMsg2, Client, ClientReads
  <1>6. CASE ReadMsg4
    BY <1>6 DEF ReadMsg4, Client, ClientReads
  <1>7. CASE ReadPostAuth
    BY <1>7 DEF ReadPostAuth, Client, ClientReads
  <1>8. CASE ClientCut
    BY <1>8 DEF ClientCut, ExchangeTypes
  <1> QED BY <1>1, <1>2, <1>3, <1>4, <1>5, <1>6, <1>7, <1>8 DEF ClientStep

\* No step is ever repeated: an exchange takes at most eleven.  With NoStandstill this is
\* why it ends once the sides that have something to do do it.
THEOREM ExchangeIsShort ==
    HandshakeSpec => /\ [](StepsTaken \in 0 .. 11)
                     /\ [][StepsTaken' > StepsTaken]_handshakeVars
  <1>0. HandshakeInit => ExchangeTypes
    BY ExchangeInit
  <1>1. ExchangeTypes => StepsTaken \in 0 .. 11
    BY PlaceRange DEF ExchangeTypes, StepsTaken
  <1>2. ExchangeTypes /\ [HandshakeNext]_handshakeVars =>
          [StepsTaken' > StepsTaken]_handshakeVars
    <2> SUFFICES ASSUME ExchangeTypes, [HandshakeNext]_handshakeVars,
                        ~UNCHANGED handshakeVars
                 PROVE  StepsTaken' > StepsTaken
      OBVIOUS
    <2>1. ExchangeTypes'
      BY TypeKept
    <2>2. /\ Place[spc] \in Int /\ Place[spc'] \in Int
          /\ Place[cpc] \in Int /\ Place[cpc'] \in Int
      BY <2>1, PlaceRange DEF ExchangeTypes
    <2>3. CASE ServerStep /\ UNCHANGED cpc /\ broken' = broken
      BY <2>2, <2>3, ServerAdvances DEF StepsTaken
    <2>4. CASE ClientStep /\ UNCHANGED spc /\ broken' = broken
      BY <2>2, <2>4, ClientAdvances DEF StepsTaken
    <2>5. CASE Break /\ UNCHANGED <<spc, cpc>>
      BY <2>2, <2>5 DEF StepsTaken, Break
    <2> QED BY <2>3, <2>4, <2>5, Sides
  <1> QED BY <1>0, <1>1, <1>2, TypeKept, PTL DEF HandshakeSpec

=============================================================================
