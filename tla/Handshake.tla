----------------------------- MODULE Handshake ------------------------------
(***************************************************************************)
(* A connection from the first byte to the verdict: handle_client of       *)
(* src/src/server.rs and run_client of src/src/client.rs, with the MD5     *)
(* challenge of src/src/auth.rs or the EC-SRP5 exchange of                 *)
(* src/src/ecsrp5.rs, between this program's server and its client.        *)
(*                                                                         *)
(* Every message has a fixed length or says its own, so a stream is a      *)
(* queue of messages.  The connection may break at any time; a side that   *)
(* gives up closes it.  Neither side has a timeout.  Hashes are taken to   *)
(* be free of collisions, and the small curve, where a wrong password      *)
(* could meet the right secret by chance, is kept from doing so            *)
(* (NoLuckyGuess).                                                         *)
(*                                                                         *)
(* Next and its like carry the module's name, so that one module can       *)
(* extend this one and ClientTest, the two halves of run_client.           *)
(***************************************************************************)
EXTENDS EcSrp5, Sequences

CONSTANTS
    Names,              \* user names
    Passwords,
    None,               \* an option that is not given
    Truncate(_),        \* the first 32 bytes of a name
    Overlong(_),        \* a name of 222 bytes or more
    PasswordHash(_, _, _),  \* gen_password_validator_priv of name, password and salt
    Salts,              \* salts a server may draw when it starts
    Keys,               \* private keys a side may draw
    Nonces              \* challenges the server may draw

VARIABLES
    srv,        \* options of the server: -a, -p, --ecsrp5; and its salt
    cli,        \* options of the client: -a, -p
    to_server,  \* messages on their way
    to_client,
    broken,
    spc,        \* where the server is
    cpc,        \* where the client is
    server,     \* what the server remembers: the challenge, or its key and secret
    client      \* what the client remembers: its key and secret

handshakeVars == <<srv, cli, to_server, to_client, broken, spc, cpc, server, client>>

HELLO == "01"
AUTH_OK == "01"
AUTH_REQUIRED == "02"
AUTH_FAILED == "00"
AUTH_ECSRP5 == "03"

Option(S) == S \cup {None}

\* run_server derives EC-SRP5 credentials only when it has a name and a password.
UsesEcSrp5 == srv.ecsrp5 /\ srv.user # None /\ srv.pass # None
ServerHash == PasswordHash(srv.user, srv.pass, srv.salt)
Validator == gen_public_key(ServerHash)

HasCredentials == cli.user # None /\ cli.pass # None

HandshakeInit ==
    /\ srv \in [user : Option(Names), pass : Option(Passwords), ecsrp5 : BOOLEAN,
                salt : Option(Salts)]
    /\ srv.salt # None <=> UsesEcSrp5
    /\ cli \in [user : Option(Names), pass : Option(Passwords)]
    /\ to_server = <<>>
    /\ to_client = <<>>
    /\ broken = FALSE
    /\ spc = "hello"
    /\ cpc = "hello"
    /\ server = None
    /\ client = None

-----------------------------------------------------------------------------
(* A step of a side takes the next message, remembers something, answers,  *)
(* and goes on.  What is written to a broken connection is lost.           *)

ServerReads(from) == spc = from /\ to_server # <<>>

Server(ms, to) ==
    /\ spc' = to
    /\ to_client' = IF broken THEN to_client ELSE to_client \o ms
    /\ UNCHANGED <<srv, cli, broken, cpc, client>>

ClientReads(from) == cpc = from /\ to_client # <<>>

Client(ms, to) ==
    /\ cpc' = to
    /\ to_client' = Tail(to_client)
    /\ to_server' = IF broken THEN to_server ELSE to_server \o ms
    /\ UNCHANGED <<srv, cli, broken, spc, server>>

Received == Head(to_client)

-----------------------------------------------------------------------------
(* The server *)

SendHello ==
    /\ spc = "hello"
    /\ Server(<<HELLO>>, "command")
    /\ UNCHANGED <<to_server, server>>

\* A server without a password admits everybody.
ReadCommand(nonce) ==
    /\ ServerReads("command")
    /\ to_server' = Tail(to_server)
    /\ CASE UsesEcSrp5 ->
              Server(<<AUTH_ECSRP5>>, "msg1") /\ UNCHANGED server
         [] ~UsesEcSrp5 /\ srv.pass = None ->
              Server(<<AUTH_OK>>, "admitted") /\ UNCHANGED server
         [] OTHER ->
              /\ Server(<<AUTH_REQUIRED, nonce>>, "response")
              /\ server' = nonce

\* MD5(password + MD5(password + challenge))
compute_auth_hash(pass, challenge) == <<pass, challenge>>

\* Mutant: a name that is not the server's is let through.
ResponseAccepted_AnyName(r) == r.hash = compute_auth_hash(srv.pass, server)

ResponseAccepted(r) ==
    /\ srv.user = None \/ r.user = srv.user
    /\ r.hash = compute_auth_hash(srv.pass, server)

ReadResponse ==
    /\ ServerReads("response")
    /\ to_server' = Tail(to_server)
    /\ IF ResponseAccepted(Head(to_server))
         THEN Server(<<AUTH_OK>>, "admitted")
         ELSE Server(<<AUTH_FAILED>>, "refused")
    /\ UNCHANGED server

\* With a wrong password the two secrets differ.
NoLuckyGuess(s_b, w_a, w_b) ==
    LET i == PasswordHash(cli.user, cli.pass, srv.salt)
    IN  i # ServerHash =>
          ClientSecret(i, client.key, w_a.x, w_b) # ServerSecret(Validator, s_b, w_a, w_b.x)

\* EC-SRP5, message 1 is read and message 2 sent.  The length of a message with an
\* overlong name wraps around: its name has no end.
ReadMsg1(s_b) ==
    /\ ServerReads("msg1")
    /\ to_server' = Tail(to_server)
    /\ LET m   == Head(to_server)
           key == BlindedKey(s_b, Validator.x)
           w_b == to_montgomery(key)
       IN  IF Overlong(m.user) \/ m.user # srv.user
             THEN Server(<<>>, "refused") /\ UNCHANGED server
             ELSE /\ ~key.infinity
                  /\ NoLuckyGuess(s_b, m.key, w_b)
                  /\ Server(<<[key |-> w_b, salt |-> srv.salt]>>, "msg3")
                  /\ server' = [j |-> KeyHash(m.key.x, w_b.x),
                                z |-> ServerSecret(Validator, s_b, m.key, w_b.x)]

\* The proofs of client and server: hashes of what both should know.
client_cc(s) == <<"client", s.j, s.z>>
server_cc(s) == <<"server", s.j, client_cc(s), s.z>>

\* Message 3; a wrong proof is answered by closing the connection.
ReadMsg3 ==
    /\ ServerReads("msg3")
    /\ to_server' = Tail(to_server)
    /\ IF Head(to_server) = client_cc(server)
         THEN Server(<<server_cc(server)>>, "confirmed")
         ELSE Server(<<>>, "refused")
    /\ UNCHANGED server

\* AUTH_OK follows message 4.
Confirm ==
    /\ spc = "confirmed"
    /\ Server(<<AUTH_OK>>, "admitted")
    /\ UNCHANGED <<to_server, server>>

-----------------------------------------------------------------------------
(* The client *)

ReadHello ==
    /\ ClientReads("hello")
    /\ Received = HELLO
    /\ Client(<<"command">>, "verdict")
    /\ UNCHANGED client

\* What the server asks for.  EC-SRP5 begins with message 1.
ReadVerdict(s_a) ==
    LET key == scalar_mul(G, s_a) IN
    /\ ClientReads("verdict")
    /\ \/ /\ Received = AUTH_OK
          /\ Client(<<>>, "admitted")
          /\ UNCHANGED client
       \/ /\ Received = AUTH_REQUIRED /\ HasCredentials
          /\ Client(<<>>, "challenge")
          /\ UNCHANGED client
       \/ /\ Received = AUTH_ECSRP5 /\ HasCredentials
          /\ ~key.infinity
          /\ Client(<<[user |-> cli.user, key |-> to_montgomery(key)]>>, "msg2")
          /\ client' = [key |-> s_a]
       \/ /\ Received \in {AUTH_REQUIRED, AUTH_ECSRP5} /\ ~HasCredentials
          /\ Client(<<>>, "refused")
          /\ UNCHANGED client

ReadChallenge ==
    /\ ClientReads("challenge")
    /\ Client(<<[hash |-> compute_auth_hash(cli.pass, Received),
                              user |-> Truncate(cli.user)]>>, "result")
    /\ UNCHANGED client

ReadResult ==
    /\ ClientReads("result")
    /\ Client(<<>>, IF Received = AUTH_OK THEN "admitted" ELSE "refused")
    /\ UNCHANGED client

ClientHash(salt) == PasswordHash(cli.user, cli.pass, salt)

\* Mutant: the client hashes the two public keys in the wrong order for its proof.
ReadMsg2_Swapped ==
    /\ ClientReads("msg2")
    /\ LET w_a == gen_public_key(client.key)
           s   == [key |-> client.key,
                   j   |-> KeyHash(Received.key.x, w_a.x),
                   z   |-> ClientSecret(ClientHash(Received.salt), client.key, w_a.x,
                                        Received.key)]
       IN  /\ Client(<<client_cc(s)>>, "msg4")
           /\ client' = s

\* Message 2 is read and message 3 sent.
ReadMsg2 ==
    /\ ClientReads("msg2")
    /\ LET w_a == gen_public_key(client.key)
           s   == [key |-> client.key,
                   j   |-> KeyHash(w_a.x, Received.key.x),
                   z   |-> ClientSecret(ClientHash(Received.salt), client.key, w_a.x,
                                        Received.key)]
       IN  /\ Client(<<client_cc(s)>>, "msg4")
           /\ client' = s

\* Message 4: the server's proof.
ReadMsg4 ==
    /\ ClientReads("msg4")
    /\ Client(<<>>, IF Received = server_cc(client) THEN "post_auth" ELSE "refused")
    /\ UNCHANGED client

ReadPostAuth ==
    /\ ClientReads("post_auth")
    /\ Client(<<>>, IF Received = AUTH_OK THEN "admitted" ELSE "refused")
    /\ UNCHANGED client

-----------------------------------------------------------------------------
(* The connection *)

Final == {"admitted", "refused"}

Break ==
    /\ ~broken
    /\ broken' = TRUE
    /\ to_server' \in {to_server, <<>>}
    /\ to_client' \in {to_client, <<>>}
    /\ UNCHANGED <<srv, cli, spc, cpc, server, client>>

\* A read or a write fails: the connection is broken, or the other side closed it.
ServerCut ==
    /\ spc \notin Final
    /\ broken \/ cpc = "refused"
    /\ spc' = "refused"
    /\ UNCHANGED <<srv, cli, to_server, to_client, broken, cpc, server, client>>

ClientCut ==
    /\ cpc \notin Final
    /\ broken \/ (spc = "refused" /\ to_client = <<>>)
    /\ cpc' = "refused"
    /\ UNCHANGED <<srv, cli, to_server, to_client, broken, spc, server, client>>

HandshakeOver ==
    /\ {spc, cpc} \subseteq Final
    /\ UNCHANGED handshakeVars

ServerStep ==
    \/ SendHello
    \/ \E nonce \in Nonces : ReadCommand(nonce)
    \/ ReadResponse
    \/ \E s_b \in Keys : ReadMsg1(s_b)
    \/ ReadMsg3
    \/ Confirm
    \/ ServerCut

ClientStep ==
    \/ ReadHello
    \/ \E s_a \in Keys : ReadVerdict(s_a)
    \/ ReadChallenge
    \/ ReadResult
    \/ ReadMsg2
    \/ ReadMsg4
    \/ ReadPostAuth
    \/ ClientCut

HandshakeNext == ServerStep \/ ClientStep \/ Break \/ HandshakeOver

ServerStates == {"hello", "command", "response", "msg1", "msg3", "confirmed"} \cup Final
ClientStates ==
    {"hello", "verdict", "challenge", "result", "msg2", "msg4", "post_auth"} \cup Final

\* A side has something to do: to write, to read, or to notice that the connection is
\* gone.  Its every step changes where it is.
ServerReady ==
    /\ spc \notin Final
    /\ spc \in {"hello", "confirmed"} \/ to_server # <<>> \/ broken \/ cpc = "refused"

ClientReady ==
    /\ cpc \notin Final
    /\ to_client # <<>> \/ broken \/ spc = "refused"

\* A task that has something to do does it: tokio polls it when its socket is ready.
Fairness ==
    /\ WF_spc(ServerReady /\ spc' \in ServerStates \ {spc})
    /\ WF_cpc(ClientReady /\ cpc' \in ClientStates \ {cpc})

HandshakeSpec == HandshakeInit /\ [][HandshakeNext]_handshakeVars /\ Fairness

-----------------------------------------------------------------------------
(* Properties *)

\* Who may use the server: whoever provides its name and its password, as far as it
\* has them (docs/man/btest.1:91-96).
MayUse ==
    /\ srv.user # None => cli.user = srv.user
    /\ srv.pass # None => cli.pass = srv.pass

\* Whom the code admits besides, with a name that is not the server's: a server
\* without a password asks nobody, and with MD5 only 32 bytes of a name are sent.
NameUnchecked ==
    \/ srv.pass = None
    \/ ~UsesEcSrp5 /\ cli.pass = srv.pass /\ Truncate(cli.user) = srv.user

Verdict(pc) == IF pc \in Final THEN pc ELSE "open"

Promise == INSTANCE Login
             WITH entitled <- MayUse \/ NameUnchecked,
                  server <- Verdict(spc), client <- Verdict(cpc)

\* The exchange implements Login: nobody is admitted who may not use the server, but
\* for the names it does not check, no client starts a test before the server has
\* admitted it, neither side takes a verdict back, and both reach one even if the
\* connection breaks in the middle.
ImplementsLogin == Promise!Spec

\* A name the exchange carries whole.
Fits(name) == IF UsesEcSrp5 THEN ~Overlong(name) ELSE Truncate(name) = name

\* The hash of name, password and salt is a multiple of the order: the server's
\* validator is the point at infinity, whose encoding is that of another point.
NoValidator == UsesEcSrp5 /\ scalar_mul(G, ServerHash).infinity

\* A password is asked for only together with a name, which has to fit its field.
Provided ==
    srv.pass # None => HasCredentials /\ (srv.user # None => Fits(cli.user))

\* Nobody who may use the server is turned away while the connection holds: both
\* sides of EC-SRP5 compute the same secret whatever keys and whatever salt they
\* draw, and the proofs match.  A server without a validator refuses everybody.
NoFalseRefusal ==
    ~broken /\ MayUse /\ Provided /\ ~NoValidator => "refused" \notin {spc, cpc}

-----------------------------------------------------------------------------
(* What the exchange needs of its primitives *)

\* Two passwords of a name have different hashes.
NoCollision ==
    \A name \in Names, salt \in Salts : \A p, q \in Passwords :
      PasswordHash(name, p, salt) = PasswordHash(name, q, salt) => p = q

\* With the same name and password the two sides compute the same secret, whatever
\* keys they draw, unless there is no validator: this is the group law of the curve.
SecretsAgree ==
    \A name \in Names, pass \in Passwords, salt \in Salts, s_a, s_b \in Keys :
      LET i   == PasswordHash(name, pass, salt)
          key == BlindedKey(s_b, gen_public_key(i).x)
          w_a == gen_public_key(s_a)
          w_b == to_montgomery(key)
      IN  /\ ~scalar_mul(G, i).infinity
          /\ ~scalar_mul(G, s_a).infinity
          /\ ~key.infinity
          => ClientSecret(i, s_a, w_a.x, w_b) =
               ServerSecret(gen_public_key(i), s_b, w_a, w_b.x)

=============================================================================
