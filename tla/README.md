# Verification of btest-rs

TLA+ models of the btest bandwidth-test server, its "pro" variant with quotas
and a user database, the client, and the protocol between them, checked with
TLC on small instances and, where the argument does not depend on the instance,
proved with TLAPS. Paths are relative to the repository (`src/server.rs` is
`src/src/server.rs` in `PROJECT.json`).

## The system

| component | state it keeps | operations | interacts with |
|---|---|---|---|
| server test (`server.rs`, `bandwidth.rs`) | `BandwidthState`: a `running` flag, interval counters, totals, byte budget; one task per stream and direction | send, receive, report an interval, spend budget, stop, join | peer over TCP/UDP, enforcer through `running`, caller through `summary()` |
| TCP session join (`server.rs`, `handle_client`) | map token -> session (address, expected, streams) behind a lock | accept, join by token, join by address, authenticate, register, poll with a deadline, collect | one handler task per connection |
| pro server (`server_pro/server_loop.rs`) | its own session map, active-connection counts | the same plus admission checks, usage recording | quota manager, database, enforcer, server test |
| quota manager (`quota.rs`) | limits, connection counts | `check_user`, `check_ip`, `remaining_budget`, `connect`, `disconnect`, `record_usage` | database |
| enforcer (`enforcer.rs`) | none beyond its test | tick: ended? too long? user quota? address quota? | clears `running`; its result is awaited |
| user database (`user_db.rs`) | users, usage per day, sessions, intervals | upserts, window sums, administration | SQLite behind a mutex |
| client (`client.rs`, `main.rs`) | `BandwidthState`, two tasks, a status loop, an optional timer | connect, send, receive, exchange status, stop, report | server |
| authentication (`auth.rs`, `ecsrp5.rs`) | per connection: challenge, keys, secret | MD5 challenge and response, four messages of EC-SRP5 | both handshakes |
| pacing (`bandwidth.rs`, the sending loops) | interval, next send time; speed and its flag in `BandwidthState` | pace a write, take up a new speed | clock, status loop |
| wire format (`protocol.rs`), CPU load (`cpu.rs`) | none; the last sample | codecs; sample | everything above |
| user commands (`server_pro/main.rs`) | none: a process of its own | add, delete, set a user | database |
| web dashboard, LDAP, syslog, CSV, option parsing | | I/O and formatting | |

What is hard here: a test is a group of tasks on several threads that share
atomics without a lock; counters are emptied (`swap`) by one task while others
add to them and are recorded only after a write that may fail; budget and
connection limit are checked in one step and taken in another; session maps are
unlocked while a handler authenticates or sleeps; handlers are told apart by
what their result happened to be; a timer drops a future at any await, a
status message half read included; packets are lost, doubled and reordered;
other processes change the database between two statements; and everything must
end although a peer may stall. `PROJECT.json` lists each hazard
at its line, with the properties about it.

What makes the components correct:

* server test: bytes are neither lost nor counted twice on their way to the
  totals; clearing `running` stops everybody soon; nobody dies silently; the
  budget is kept; the totals returned are final;
* session join: a stream is in one place; no session is left behind; a test
  consists of connections of one client; who joined gets a test;
* pro server: the same, and the connection count is right, what a test's summary
  counts is charged once, limits are kept, a test that returned is recorded;
* client: bytes are accounted for, the summary is final, it ends;
* pacing: a sender keeps its rate whatever delays it, and follows the reports;
* UDP and status stream: losses are counted, every packet is in one interval,
  a peer acts on the messages that were sent;
* login: nobody gets in without the credentials, nobody is turned away with
  them, both sides come to a verdict;
* database: windows add up, sessions are closed, a revoked user is out.

## Modules

`X` is the model, `MCX` instantiates it for TLC, `X_proofs` holds theorems.

**MeteredTest** (abstract). What a test promises to whoever started it: it has a
budget and keeps it if one task spends it, moves bytes until it was stopped and a
little longer, then ends, and its summary claims no byte that did not move.
TransferTest implements it (`ImplementsMeteredTest`: `phase` from `running` and
the reporter).

**TransferTest** (`server.rs`, `bandwidth.rs`). One test after its command was
accepted. `running`, `byte_budget`, `tx_bytes`, `rx_bytes`, `total_*` are the
fields of `BandwidthState`. `writer[s]` and `reader[s]` are program counters of
the tasks of stream `s`; one set of actions stands for `tcp_tx_loop_inner`,
`tcp_status_sender` and `udp_tx_loop` (and for `tcp_rx_loop` and
`udp_rx_loop`), whose differences are guards on the command. `reporter` is the
task that spawned them: `status_report_loop`, the inline loop of a bidirectional
single connection, the sleep of a receive-only one, or `udp_status_loop`. A
step ends where another task can come between: `spend_budget` is two steps (load
and decide; subtract), a status message three (swap; write; record). `held`,
`report_tx`, `report_rx` are the locals that hold swapped bytes. `sent`, `rcvd`,
`lateTx`, `lateRx` and `budget0` are history. Pacing only delays a writer and is
left to its own module, as are the sequence numbers and the contents of status
messages. `TxAccounting` leaves out the totals of a single TCP connection in
both directions; `TxTotalCumulative` is what the repository says of them, and fails.

**Pacing** (`bandwidth.rs`, the four sending loops, `main.rs`). One sender and the
status loop that gives it speeds. The clock may advance between any two steps: a
write may block and a sleep oversleep. Reading the flag, clearing it and loading
the speed are three steps; the two stores of the status loop are `Relaxed` and
become visible in either order (`Feedback`, `FeedbackSeen`). Speeds wrap at
`U32`. `effective_size`, what one write holds, is fixed when the sender starts, as in
the code: `LargeWrite` for a TCP sender without a speed. `applied`, `origin`, `sends`,
`burst`, `late`, `report` are history.

**UdpLink** (the UDP loops of both sides, `protocol.rs`, `cpu.rs`). Two peers, a
network that loses, duplicates and (on some paths) reorders packets, and the
control stream as a sequence of words, three to a status message. A read that
its timer cancels has taken the words it got. Sequence numbers wrap at `SeqSpace`, the
byte count of a report at `U32` (`as u32`); `counted` in `sent` keeps what was
counted.
The CPU load is computed from samples whose difference may be negative, encoded
and decoded as in the code.

**Login** (abstract), **Handshake** (`handle_client`, `run_client`, `auth.rs`,
`ecsrp5.rs`). Login: the server admits only who is entitled, a client starts only
after it was admitted, both reach a verdict. Handshake implements it
(`ImplementsLogin`) for those who may use the server (`MayUse`, the manual's words) or
have a name the code does not check (`NameUnchecked`). It has the options of both
sides as initial states, and the salt a server drew when it started; two message
queues, a program counter per side, and a connection that may break. **EcSrp5** is the
arithmetic: the formulas of `ecsrp5.rs` over a prime and a curve that are constants,
so that `ClientSecret` and `ServerSecret` are computed and not assumed to agree. MD5
and the proofs are free constructors; SHA-256, where its value matters, is a constant
operator, as is `PasswordHash`, of name, password and salt. `NoCollision` (two
passwords of a name have different hashes) and `SecretsAgree` (same password, same
secret) state what the exchange needs of these; TLC evaluates both on the run's curve
(`MCPrimitives`), and the proofs take them as hypotheses.

**TcpSessions** (`handle_client`). One handler per connection. `present`,
`peer_ip`, `expected`, `streams` are the map. Each critical section is one step;
authentication lies between two of them. Tokens may collide. After its handler
gave a stream away, `pc` of that connection says where the stream is.

**Quota** (`quota.rs`). `check_user`, `check_ip`, `remaining_budget` as operators
over limits and usage per window, with the order of the code's checks, "0 means
unlimited", a user's own limit before the default, and saturating subtraction.
`ManagerLimits` is how the options become limits: a directional limit that is not
given is the combined one, which is checked as well.

**ProServer** (`server_loop.rs`, `enforcer.rs`, the state of `quota.rs`, the
usage tables of `user_db.rs`). Extends Quota. `pc[c]` is the handler of
connection `c` and, after it returned, its stream; `test[k]` is the test that
`k`'s handler started, with its enforcer. `check_ip` and `connect` are separate
steps, as are the two writes of `record_usage`, each of which may fail (the
error is only logged). A test is seen from outside, so that ProServer assumes less of
it than TransferTest shows: it moves bytes within the budget if one task spends it
and past it if several do, goes on moving some after `running` was cleared, and
`TransferReturns` picks any summary that counts no more than was moved
(`state.summary()` lacks the last interval, one whose status could not be written,
and what a single TCP connection in both directions sent). `Bytes(k)` is what moved
and, after the return, what the summary counts; that is what is recorded.
`overlapped`, `spurious`, `registered`, `unwritten` are history.

**UserDb** (`user_db.rs`, the user commands of `server_pro/main.rs`, login and
recording in `server_loop.rs`, `quota.rs`). The tables `users`, `usage`,
`ip_usage`, `sessions`. Every SQL statement is one step, and between two of them
anything may happen: a command of another process, a change of date, another
connection, a crash. Statements may fail; what each caller makes of the failure
is the code's. `raw`/`has_raw` is the password column added by a later version.
`stale`, `over`, `day`, `unwritten`, `lost` are history.

**Sums**. `SumOf(f)`, the sum of the values of a function, with which the other modules
write totals over streams, days, tests and messages; **Sums_proofs** has what the
proofs need of it.

**ClientTest** (`client.rs`, `main.rs`). `main` is the status loop of
`run_client` and what follows it; the sending and the reading task run beside it.
`TimerExpires` drops `run_client` in any state and takes the summary.

How they fit together: ProServer and UserDb extend Quota; Handshake extends
EcSrp5 and looks into the step that TcpSessions, ProServer and ClientTest take as
"authenticated or not"; UdpLink composes the two ends that TransferTest and
ClientTest model apart; MeteredTest is what TransferTest promises its caller, and
ProServer takes a test as even less: moved bytes, and a summary that counts some.

## Runs

`pass`: TLC explores everything and finds no error. Deadlock is checked in all
of them; the states where the system may stop (all connections served, the
summary returned) have an explicit stuttering action.

| run | properties | shows |
|---|---|---|
| `transfer` | `TypeOK`, `TxAccounting`, `RxAccounting`, `LateBound`, `NoHalfDeadTest`, `SingleSpenderBudget`, `SummaryFinal`, `ImplementsMeteredTest` | counters, stop and budget of every kind of test; it keeps the contract, and ends |
| `pacing` | `RateKept`, `BurstBounded`, `SpeedFollowsReport` | the rate, in bits, under delays, failed sends and speed changes at any moment |
| `udp_link` | `LossCounted`, `IntervalsExact`, `StatusFaithful` | loss counting, intervals and the status stream over a bad network |
| `handshake` | `NoFalseRefusal`, `ImplementsLogin` | who gets in, with each method and combination of options |
| `sessions` | `TypeOK`, `StreamsOwned`, `NoOrphanSession`, `TestOfOneClient`, `JoinedStarts` | the session map under joins, timeouts, collisions; who joined gets a test |
| `pro` | `TypeOK`, `StreamsOwned`, `MultiTestWhole`, `ActiveAccount`, `UsageExact`, `QuotaRespectedAlone`, `OverQuotaStops`, `ReturnedIsRecorded` | the pro session map; what the active count counts; charging; limits are kept by tests that do not overlap; the enforcer stops, and a test that returned is recorded |
| `userdb` | `LoginExact`, `OverQuotaRefused`, `WindowsExact`, `SessionsClosed`, `RevokedStops` | the database under commands, failures, midnight and crashes |
| `client` | `TypeOK`, `Accounting`, `SummaryFinal`, `StopEnds`, `DurationEnds` | the client's counters and summary; it ends, whatever the server does |

`violation`: a statement of the repository that the code does not keep; TLC's
counterexample is the finding. `PROJECT.json` quotes the statement.

| run | property | what happens |
|---|---|---|
| `transfer_budget` | `BudgetRespected` | two tasks load the budget before either subtracts |
| `transfer_totals` | `TxTotalCumulative` | one TCP connection in both directions: what is sent reaches no total |
| `transfer_stall` | `StopEnds` | a stalled TCP peer keeps a stopped test alive |
| `bandwidth_option` | `OptionLimits` | `-r -b 100M` sets the speed of the side that does not send |

### Where the repository says otherwise

Four findings are the violation runs above. In the cases below, too, a document or
a comment says something that the code does not keep. No passing property asserts
what the code does there: each leaves the case out or open, and where it does is
said here.

* **Connections of an address.** `main.rs:84` promises "Maximum concurrent
  connections per IP", `quota.rs:44` "Max simultaneous connections from one IP". More
  than the maximum can be open: `check_ip` and `connect` lock separately, and two
  connections may pass the check together (`server_loop.rs:191`). Fewer can be
  refused: the primary of a multi-connection test returns `Ok` after `connect`, and
  nobody gives its count back (`server_loop.rs:303`), so that after `max_conn_per_ip`
  such tests the address is locked out until a restart. And a connection that fails
  before it was counted is given back all the same (104). `ActiveAccount` says that the
  count is the number of open counted connections, but promises no upper bound for an
  address with a closed primary and no lower bound after a connection was given back
  that was not counted. It says nothing of the limit.
* **What a stop is called.** "Periodically checking if the user or IP has exceeded
  their quota" (`enforcer.rs:3-4`), "IP daily quota exceeded" (39). The check the
  enforcer repeats includes the connection limit, on behalf of connections that are
  themselves counted: with `max_conn_per_ip` connections open, one of one included, all
  their tests are ended at their next tick as over their daily quota
  (`enforcer.rs:173`, "reuse"). No property says why a test may be stopped for its
  address; `EnforcerIp` does what the code does.
* **Directions.** `record_usage` takes "bytes the client sent to us" and then "bytes
  we sent to the client" (`quota.rs:357-358`, and 16-17, `main.rs:92-96` for the limits);
  the test runners pass `total_tx` and then `total_rx` (`server_loop.rs:384`). So what
  the server sent is charged and limited as inbound. The model has the swap
  (`RecordIp`); `UsageExact` speaks of both directions together.
* **Bytes charged.** What is charged is `state.summary()`, which lacks the last
  interval and what `transfer_totals` and a failed status message lose. `UsageExact`
  says that what the summary counts is charged once, not that every byte is.
* **The rate.** `KNOWN_ISSUES.md:93-99`: `-b` "does not reliably cap speed [...]
  tokio's timer resolution and task scheduling can cause actual throughput to exceed
  the specified limit". By the model, with a clock that may jump anywhere, late timers
  and scheduling cannot raise the average: a reset of the schedule only drops writes
  (`RateKept`). What exceeds the limit is something else: the option goes to the wrong
  side (`bandwidth_option`); a TCP client that started without a speed writes 256 KiB
  at a time and is later paced as if it wrote `tx_size` bytes, up to eight times
  too much for the default size (`client.rs:164`); a speed below a packet a second
  becomes a packet a second; the interval is rounded down to a nanosecond
  (`bandwidth.rs:101`); feedback replaces the option by one and a half times what
  arrived; and bursts after a delay. `RateKept` bounds bits for every sender whose
  write is a packet and whose speed is at least a packet a second, with the rounding
  as a tick for each packet; of the others it bounds the number of writes.
* **Bursts.** `bandwidth.rs:119-120`: "bounding the maximum burst to at most one extra
  interval's worth of packets". A sender exactly two intervals late sends two
  extra packets: the code compares with `<`, after adding an interval.
  `BurstBounded` allows the third packet at that instant only.
* **Feedback.** `protocol.md:380-381` and 411: the new speed is `bytes * 8 * 1.5`. The
  product is cut to a u32 (`server.rs:1026`, `client.rs:241`, `client.rs:482`): a
  report above 2.8 Gbit/s slows the sender down or, at 0, frees it.
  `SpeedFollowsReport` speaks of reports whose speed fits; the run also has one that
  wraps around.
* **Reports.** `architecture.md:82`: "bytes received this interval". The count is cut to
  a u32 (`server.rs:1068`, `client.rs:514`), so an interval of 4 GiB is reported as
  nothing, and a server that only sends reports what it sent (`server.rs:1061`). The
  sums of `IntervalsExact` over the reports are for intervals that fit; swaps,
  totals and what is held back add up in every case.
* **CPU load.** `protocol.rs:159`: "actual = byte & 0x7F", `architecture.md:80`: "0x80 |
  cpu_percentage". `deserialize` removes the high bit only above 128, so an idle peer,
  sent as 128, is shown as 100 % busy; the scan in `client.rs:212` reads the
  same byte correctly. `StatusFaithful` promises nothing of a load of 0.
* **"Client proof mismatch".** `KNOWN_ISSUES.md:65-73` says that EC-SRP5 occasionally
  refuses right credentials with "certain salt/password combinations". The formulas as
  they are now do not: `NoFalseRefusal` holds for salts that give every hash modulo the
  order, on a small curve of the form and the cofactor of the real one, and
  for odd and even keys. Two combinations remain, each with probability 2^-252: a
  hash that is a multiple of the order, which leaves no validator (`NoValidator`),
  and a key that gives the point at infinity (the guards on `infinity` in
  `ReadVerdict` and `ReadMsg1`). A model of the arithmetic over a small field does
  not show that the 256-bit code has no other edge; it shows that the algebra has none.
* **Names.** `docs/man/btest.1:92-93`: "connecting clients must provide this username".
  A server with a name and no password asks for neither, and MD5 carries 32 bytes of
  a name, which the server compares with all of its own: a longer name that
  begins with the server's is admitted. `MayUse` is the manual's rule, and
  `ImplementsLogin` shows that these names (`NameUnchecked`) are the only exceptions.

### What the passing properties concede

Other invariants are as strong as the code allows and no stronger. Where they
give way is worth knowing:

* `TestOfOneClient` allows one connection more than the command asked for: a
  session accepts secondaries while `streams.len() < expected`, and the primary
  is not among the streams (`server.rs:159`).
* A secondary that joins by address is answered with a token drawn for itself,
  not with that of the session it joins (`server.rs:245`).
* `TxAccounting` leaves out the totals of a single TCP connection in both directions;
  `transfer_totals` shows what is wrong with them.
* `NoHalfDeadTest` excepts the UDP sender that gave up after too many errors, or
  panicked, while its test goes on (`server.rs:870`).
* `OverQuotaStops` is about recorded usage: the enforcer sees nothing else, and the
  bytes of the running test are held by its budget alone.
* `QuotaRespectedAlone` has the premise that tests do not overlap. Overlapping
  tests of one user each get the whole remaining budget, and several tasks that
  spend one budget can pass it (`transfer_budget`).
* `JoinedStarts` is a property of the standard server only. In the pro server a
  session whose secondaries never come, or which asked for one connection, waits
  for ever: only a joining secondary starts a test, and there is no timeout.
* `SpeedFollowsReport` lets the sender stay one report behind if the stores
  become visible in the other order.
* `LossCounted` leaves out gaps across the wrap of the sequence number, which are not
  counted, a duplicate of the largest number, which counts for a whole sequence
  space, and gaps longer than the sequence space, of which only the remainder can
  be seen; on a path that reorders it is only a lower bound.
* `StatusFaithful` says what a reader out of step takes for the byte count after a read
  was cut in the middle of a message.
* `IntervalsExact` excepts the interval of a server whose status could not be
  written; the client records before it writes.
* `NoFalseRefusal` excepts names over 32 bytes (MD5) or 221 bytes (EC-SRP5), and a
  client that is given a name or a password but not both, which a server with a password
  refuses.
* `LoginExact` and `OverQuotaRefused` except accounts that changed between two
  statements and statements that failed: the code then lets the client in. Users of
  an older database are let in with any password until the first `useradd`, and
  with the empty one only after it.
* `WindowsExact` takes the length of a window as a constant: that seven days are
  eight dates in the code (`user_db.rs:237`) is for the value of `Span` to say, not for
  the property.
* `SessionsClosed` leaves sessions open for good after a crash.
* `Accounting` and `SummaryFinal` say that the client's summary is the recorded
  total; the bytes of the unfinished interval are not in it.

### Bounds

* TransferTest: two streams, packets of size 1, reads of 1 and 2, `MaxBytes` = 2
  per direction (`MaxBytes` stops senders and readers of the model, never the
  code), budgets 0, 1, 2 and unlimited with `U64Max` = 4. Two streams are enough
  for two writers to race for a budget or a counter; a budget below, at and
  above a packet reaches every branch of `spend_budget`; `MaxSendErrors` = 1
  stands for 50000. The proofs do not use these bounds.
* TcpSessions: three connections, two addresses, two tokens, and commands
  that ask for 0, 1 or 3 connections (no session; one that is complete at once,
  where the off-by-one shows; one that all three can join or that times out).
* ProServer: two instances in one run (`Scenarios`, `Bounded` of MCProServer). In
  one, three connections from two addresses under a limit of two, with colliding
  tokens and tests that move nothing (`Handling`); in the other two connections of
  one user, at one or two addresses, under each kind of limit in turn, with one byte
  used earlier in the week and the month (`Metering`). Connections are accepted in a
  fixed order, the first from `a` (`InOrder`), which loses no behaviour but for
  renaming. `MaxMoved` bounds the bytes of a test. A step the bound excludes is not
  taken, and no action whose fairness a liveness property uses is among them.
* ClientTest: both protocols, all directions, with and without a timer.
* Pacing: a second of 8 ticks, 6 ticks of time, large writes of eight packets,
  speeds that give an interval of a tick, of two, of a second, and a report that wraps
  to "unlimited". Long enough for a sender to fall behind by more than two
  intervals, catch up, and take up a speed while it does.
* UdpLink: sequence numbers modulo 3 and four packets, so that they wrap, two in the
  network and one duplicate; the tests are chosen so that one has many packets and
  another enough status messages for cut reads to add up to a whole message. The byte
  count of a report wraps at 2. `MaxInFlight`, `MaxCopies` and the bounds inside
  `Tests` are the only bounds. Reads are cut between words, not within one.
* Handshake: y^2 = x^3 + 22x^2 + x over GF(53), 56 points, cofactor 8 as on
  Curve25519, base point of order 7; nine private keys that reach every multiple of
  it, and three names: one that fits everywhere, one over 32 bytes, one over 221. The
  seven salts give every password of every name every hash modulo the order, 0
  included. Private keys that make a public key the point at infinity are left out
  (probability 2^-252 on the real curve), and so are coincidences in which a wrong
  password meets the right secret (`NoLuckyGuess`), which a group of 7 has and a real
  one has not.
* UserDb: one user, two connections, three days with a week of two and a month of
  three (the code's windows cover 8 and 31 dates; `Span` keeps the off-by-one), one
  command and one failing statement.

### Fairness

Task steps that depend on nobody else are weakly fair: the tokio runtime polls every
ready task, and `interval`, `sleep` and `timeout` fire. A TCP read or write needs the
peer: `PeerFairness` says that it reads, sends, or the connection breaks. `transfer`
assumes it; `transfer_stall` does not, which is the point of it. `client` assumes
nothing of the server: the timer drops `run_client` wherever it waits, and UDP sockets
and timeouts need no peer. In ProServer nothing is assumed of clients, of the maximum
duration (0 is unlimited) or of the end of a stopped transfer: fair are the enforcer's
check of the user and its notice of the end, and the recording of a test that
returned. In TcpSessions only the polling handler is fair. In Handshake a side that
can read, write or see that the connection is gone does so; nothing makes the
connection break, and neither side has a timeout, so this covers two sides that follow
the code, not a silent peer. Its fairness is stated on `ServerReady`/`ClientReady` and
the program counter, which are equivalent to the enabledness of the steps. In UserDb
only the enforcer's tick is fair. Pacing and UdpLink have no liveness properties.

## Proofs

All theorems hold for every value of the constants that satisfies the named
assumptions (`TransferAssumption`, `TcpSessionsAssumption`, `U64MaxAssumption`,
`ProServerAssumption`, `ClientAssumption`, `PacingAssumption`, `UdpLinkAssumption`,
`UserDbAssumption`). They are shapes and ranges: finitely many connections and
streams, byte counts of a test within a u64, the key of the address table not a
user's name. The theorems on the login add the hypotheses `NoCollision` and
`SecretsAgree`, stated in each theorem that uses them.

* **Sums_proofs.** A sum is a natural number, is 0 over nothing, grows by a new
  term, changes with one term, is that of a part when the rest is 0, and equals
  another with the same terms. `SumOf` is a fold of the community modules, so the
  lemmas first show that the fold's function exists and that its order does not
  matter. Where one would use induction on the size of the domain, the proofs take
  the smallest set for which the claim fails (`SmallestOf`, from the
  well-foundedness of `<`) and remove an element.
* **TransferTest_proofs.** `TypeCorrect`. `LateBoundHolds`: `LateInv` adds that
  while `running` is set nobody is late, and that a task at the top of its loop
  after a late step cannot enter it again. `NoHalfDeadTestHolds` is inductive
  with types. `SummaryFinalHolds`: `EndedInv` says that after the summary
  `running` is cleared and every task is done, so no action that moves bytes is
  enabled. `SingleSpenderBudgetHolds`: `ShapeInv` says which tasks a command
  creates, and `BudgetInv` that what is left, moved and in flight add up to at
  most the initial budget and that a task between check and subtraction can
  still afford it; this is where a second spender breaks the argument.
  `TxAccountingHolds`: `TxInv` says which counter each kind of test uses.
  `RxAccountingHolds`: `RxInv` is the property itself, with a sum over the streams,
  and says that a status writer owns swapped bytes only while it writes.
  `TestIsMetered`: each step of the tasks is, through the refinement mapping, a
  step of MeteredTest or none; it rests on the budget and the two accounts (a
  summary claims no byte that did not move) and on `StoppedInv` (whoever awaits the
  tasks has cleared `running`). `TransferTestRefinesMeteredTest` adds the liveness
  conjunct of MeteredTest as a hypothesis, which the run `transfer` checks.
* **TcpSessions_proofs.** `SessionTypes`, `StreamsOwnedHolds`,
  `NoOrphanSessionHolds`, from `SessionInv`: besides types and the two
  properties, a handler past its command with a count has a token (`TokenInv`),
  and a handler that waits or authenticates holds no stream of others
  (`PrimaryInv`). `TestOfOneClientHolds`: `ClientInv` says that until tokens collide
  a waiting handler is the only one with its token and finds in the map the session
  it registered, with streams of its own address, no more than it expects.
* **ProServer_proofs.** Of the quota manager: `BudgetWithinEveryLimit` (the
  remaining budget exceeds the rest of no limit) and `AdmittedHasBudget` (who passes
  both checks can move at least one byte, so admission and budget agree). Of the
  server: `TypeCorrect`, with what a handler knows at each step (`PcInv`).
  `StreamOwnership`: `OwnInv` matches streams with sessions and live tests in both
  directions. `WholeMultiTests`: `WholeInv` adds that a session contains the
  connection that registered it and holds one address's streams, no more than
  expected. `ConnectionAccounting`: `AccountInv` says that the
  count is that of the counted handlers and the registered primaries, closed ones
  included, and less only after a disconnect of an uncounted connection; that the
  handler of a registered primary starts no test itself keeps the two apart.
  `QuotaKeptAlone`: `QuotaInv`
  says that as long as no two tests overlapped the budget of every running test
  still fits every limit of its user and its address, so recording its summary, which
  counts no more than moved, keeps them.
  `UsageIsExact`: the usage of a user or an address is a sum over the tests charged
  to it, and a charge adds one term.
* **UdpLink_proofs.** `IntervalsExactHolds`: `IntervalInv` adds that a peer that does
  not receive has received nothing and that nothing is held outside "send" but by a
  server whose connection broke; the reports are summed as far as they fit.
  `StatusFaithfulHolds`: `StreamInv` numbers the words
  of all messages sent and says that buffer and stream hold those after the ones
  acted on or dropped; three words then start at a place that only the dropped ones
  decide, and `Right` says what they are read as. `LossCountedHolds`: on a path that
  keeps the order, packets in the network are sorted and none is earlier than what
  arrived (`NetInv`), so `last_seq` is the remainder of the latest packet (`GotInv`),
  and the gap computed from two remainders is the real one or, across the wrap, 0
  (`GapCounts`, from lemmas on quotient and remainder by any divisor); a packet later
  than all others adds exactly the gap before it to the missing ones (`MissingCount`).
  For a path without order `BoundInv` compares the losses with what is missing before
  the latest packet. The proof showed that the property needs its third exception,
  gaps longer than the sequence space, which the run's four packets do not reach.
* **ClientTest_proofs.** `TypeCorrect` (with `ErrorsInv`), `AccountingHolds`
  (inductive with types), `SummaryFinalHolds` (`SummaryInv`: a summary exists only
  once `run_client` is over). Its second part is the login before the test, Handshake,
  over any curve, keys, names and challenges. `ExchangeInv` says, for each place the
  client can be at, where the server can be and which messages are on their way
  (`AtHello` ... `AtPostAuth`, `GaveUp`); a break may empty a queue but never leaves
  the tail of an answer (`Carries`). For EC-SRP5 `SecretsInv` says that once both
  sides know both public keys their secrets agree if the password hashes do (by
  `SecretsAgree`, if there is a validator) and only then (the modelled exchange has no
  lucky guesses). From it: `LoginIsKept`, the safety part of the refinement of Login
  (`AdmittedEntitled`: nobody is confirmed or admitted who may not use the server, but
  for the names it does not check); `HandshakeRefinesLogin`, with Login's `Settles` as
  a hypothesis, which the run `handshake` checks under fairness;
  `NoFalseRefusalHolds`, with both hypotheses; `NothingUnexpectedHolds`: a side reads
  only what it waits for, so between this client and this server the branches for
  unexpected answers are never taken (`client.rs:80` and the last two of
  `auth.rs:131`, which Handshake therefore leaves out, and `client.rs:67`, which it
  has). `NoStandstillHolds` and `ExchangeIsShort` are the safety core of `Settles`: as
  long as a verdict is missing a side has something to do, and no exchange takes more
  than eleven steps.
* **Pacing_proofs.** `TypeCorrect`. `RateKeptHolds`: `RateInv` says that the
  writes since the speed was taken up, and the next one once it is
  scheduled, fit in the time up to `next_send`, which lies in the past but for a
  sender that sleeps; `next_send` moves by an interval or more, so a reset of the
  schedule only slows down. From writes to bits: an interval is the bits of a packet
  divided by the speed, rounded down by less than a tick, or longer.
  `BurstBoundedHolds`: `BurstInv` follows `next_send` through the packets of one
  instant: at the first of them it is late by `late`, and each moves it by an interval;
  a third needs exactly two. `SpeedFollowsReportHolds`: `ReportInv` says whose report
  `tx_speed` holds while the two stores become visible one after the other, and
  that a report not taken up is on its way (`Pending`).
* **UserDb_proofs.** `TypeCorrect`, `SessionsClosedHolds`, `LoginExactHolds`, under
  commands, failing statements, midnight and crashes. `Known` says what a handler
  knows at each statement; `SessionInv` that the row of a test exists exactly from
  its start on and that the records are made in the order user, address, session
  (types need it: the last statement updates the row); `LoginInv` that the account
  found by the first query of a login is enabled at the second unless the login is
  stale, and that a stored password is the user's or empty. `WindowsExactHolds`:
  `UsageInv` speaks of every set of days at once, so that a window moving at midnight
  is only another set, and says that a record is made once and its bytes are final.
  `OverQuotaRefusedHolds`: `OverInv` says that as long as nothing that counts has
  changed, one of the windows a handler has still to read is used up.

Only model-checked: the liveness properties (`StopEnds`, `DurationEnds`,
`JoinedStarts`, `OverQuotaStops`, `ReturnedIsRecorded`, `RevokedStops`) and the
liveness conjuncts of the two refinements, since fairness is out of the prover's
reach; and what EcSrp5 computes (recursive functions, and the group law behind
`SecretsAgree`, which TLC evaluates for one small curve and every key of the run).

## Not modelled

Left out:

* the web dashboard (`web/mod.rs`): it reads the database and renders pages;
* LDAP: nothing calls it; the pro server also ignores `--ecsrp5` and
  `--shared-password`;
* the interval history and statistics of the database: `record_test_interval` has
  no caller, and `get_ip_stats` only feeds the dashboard (it counts days, not
  tests);
* syslog, CSV and the printed status: output; reading the CPU counters of a
  platform: I/O; `parse_bandwidth` and the rest of option parsing: text;
* the sixteen bytes of `Command`: a record here, fixed layout in the code;
* the UDP port counter (`server.rs:717`), a u16 that overflows after 63534 tests;
* `prime_mod_sqrt` for primes other than 5 modulo 8.
