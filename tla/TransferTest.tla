---------------------------- MODULE TransferTest ----------------------------
(***************************************************************************)
(* One bandwidth test on the server, from the moment the command has been  *)
(* accepted until its totals are returned: src/src/server.rs (TCP single,  *)
(* TCP multi-connection and UDP) over src/src/bandwidth.rs.                *)
(*                                                                         *)
(* A test is a group of tokio tasks that share one BandwidthState, a       *)
(* struct of atomics without a lock:                                       *)
(*   writer of a stream   tcp_tx_loop_inner, tcp_status_sender, udp_tx_loop*)
(*   reader of a stream   tcp_rx_loop, udp_rx_loop                         *)
(*   reporter             the loop of run_*_inner, which ends the test     *)
(*   enforcer             QuotaEnforcer::run, seen here only as "somebody  *)
(*                        outside the test clears running"                 *)
(* Every access to an atomic that another task can come between is a step  *)
(* of its own; what a task does between two such accesses is folded into   *)
(* the step before it.  Byte counts are small numbers, and U64Max stands   *)
(* for u64::MAX, both the wrap-around point and the mark for "unlimited".  *)
(***************************************************************************)
EXTENDS Integers, FiniteSets, Sums

CONSTANTS
    Streams,        \* sockets a test may own
    Commands,       \* commands a client may send
    Budgets,        \* byte budgets set before the test starts
    U64Max,         \* u64::MAX
    RxSizes,        \* bytes one read may return
    SeqHeader,      \* size of the sequence number a UDP packet begins with
    MaxSendErrors,  \* consecutive UDP send errors the writer tolerates
    MaxBytes        \* bound: bytes the model lets each direction move

CommandType ==
    [proto : {"TCP", "UDP"}, direction : {"RX", "TX", "BOTH"},
     multi : BOOLEAN, tx_size : 0 .. U64Max]

ASSUME TransferAssumption ==
    /\ IsFiniteSet(Streams)
    /\ U64Max \in Nat
    /\ Commands \subseteq CommandType
    /\ Budgets \subseteq 0 .. U64Max
    /\ RxSizes \subseteq 1 .. U64Max
    /\ SeqHeader \in Nat
    /\ MaxSendErrors \in Nat
    /\ MaxBytes \in Nat

VARIABLES
    cmd,            \* the command the test runs
    streams,        \* the sockets it owns
    \* BandwidthState
    running,
    byte_budget,
    tx_bytes,       \* bytes of the current interval
    rx_bytes,
    total_tx_bytes, \* cumulative totals
    total_rx_bytes,
    \* the tasks
    writer,         \* writer[s]: where the writer of s is
    held,           \* held[s]: rx bytes it has swapped out, not yet recorded
    errors,         \* errors[s]: consecutive_errors of udp_tx_loop
    reader,         \* reader[s]: where the reader of s is
    got,            \* got[s]: length of the read it is accounting for
    reporter,       \* where the reporting loop is
    report_tx,      \* tx bytes udp_status_loop has swapped out
    report_rx,      \* rx bytes udp_status_loop has swapped out
    \* history
    budget0,        \* the budget the test was given
    sent,           \* bytes handed to the sockets
    rcvd,           \* bytes taken from the sockets
    lateTx,         \* packets the writer of s sent after running was cleared
    lateRx          \* reads the reader of s counted after running was cleared

testVars == <<cmd, streams, budget0>>
countVars == <<tx_bytes, rx_bytes, total_tx_bytes, total_rx_bytes>>
writerVars == <<writer, held, errors, sent, lateTx>>
readerVars == <<reader, got, rcvd, lateRx>>
reporterVars == <<reporter, report_tx, report_rx>>
vars == <<testVars, running, byte_budget, countVars, writerVars, readerVars,
          reporterVars>>

-----------------------------------------------------------------------------
(* The command (src/src/protocol.rs) *)

is_udp == cmd.proto = "UDP"
server_tx == cmd.direction \in {"TX", "BOTH"}
server_rx == cmd.direction \in {"RX", "BOTH"}

\* tcp_tx_with_status and tcp_status_sender write status messages between, or
\* instead of, data packets.  UDP status goes through the reporter.
InjectsStatus == ~is_udp /\ server_rx

\* Which loop the main task of the test runs while the others work.
StatusLoop == is_udp
ReportLoop == ~is_udp /\ (cmd.multi \/ ~server_rx)
BothLoop == ~is_udp /\ ~cmd.multi /\ server_tx /\ server_rx

\* Which tasks a stream gets.
HasWriter(s) == s \in streams /\ (server_tx \/ InjectsStatus)
HasReader(s) == s \in streams /\ server_rx

-----------------------------------------------------------------------------
Init ==
    /\ cmd \in Commands
    /\ streams \in SUBSET Streams
    /\ IF ~is_udp /\ cmd.multi
         THEN streams # {}
         ELSE \E s \in Streams : streams = {s}
    /\ running = TRUE
    /\ byte_budget \in Budgets
    /\ tx_bytes = 0
    /\ rx_bytes = 0
    /\ total_tx_bytes = 0
    /\ total_rx_bytes = 0
    /\ writer = [s \in Streams |-> IF HasWriter(s) THEN "head" ELSE "none"]
    /\ held = [s \in Streams |-> 0]
    /\ errors = [s \in Streams |-> 0]
    /\ reader = [s \in Streams |-> IF HasReader(s) THEN "head" ELSE "none"]
    /\ got = [s \in Streams |-> 0]
    /\ reporter = "loop"
    /\ report_tx = 0
    /\ report_rx = 0
    /\ budget0 = byte_budget
    /\ sent = 0
    /\ rcvd = 0
    /\ lateTx = [s \in Streams |-> 0]
    /\ lateRx = [s \in Streams |-> 0]

-----------------------------------------------------------------------------
(* BandwidthState::spend_budget loads the budget, decides on the loaded    *)
(* value, and only then subtracts.                                         *)

Unlimited == byte_budget = U64Max
\* Mutant: only an empty budget refuses.
Refused_WhenEmpty(amount) == ~Unlimited /\ byte_budget = 0

Refused(amount) == ~Unlimited /\ byte_budget < amount
Affordable(amount) == ~Unlimited /\ ~Refused(amount)

\* Mutant: a subtraction that does not wrap.
Sub_NoWrap(a, b) == a - b

\* AtomicU64::fetch_sub wraps around.
WrappingSub(a, b) == IF b <= a THEN a - b ELSE a - b + U64Max + 1

-----------------------------------------------------------------------------
(* The writer of stream s *)

\* while state.running.load(): leave the loop.
WriterExit(s) ==
    /\ writer[s] = "head"
    /\ ~running
    /\ writer' = [writer EXCEPT ![s] = "done"]
    /\ UNCHANGED <<testVars, running, byte_budget, countVars, held, errors,
                   sent, lateTx, readerVars, reporterVars>>

\* Mutant: the counter is read, not swapped.
WriterSwap_Load(s) ==
    /\ writer[s] = "head"
    /\ running
    /\ InjectsStatus
    /\ server_tx => sent + cmd.tx_size <= MaxBytes
    /\ held' = [held EXCEPT ![s] = rx_bytes]
    /\ writer' = [writer EXCEPT ![s] = "status"]
    /\ UNCHANGED <<testVars, running, byte_budget, countVars, errors, sent,
                   lateTx, readerVars, reporterVars>>

\* A status message is due: take the bytes received so far (atomic swap).
WriterSwap(s) ==
    /\ writer[s] = "head"
    /\ running
    /\ InjectsStatus
    /\ server_tx => sent + cmd.tx_size <= MaxBytes
    /\ held' = [held EXCEPT ![s] = rx_bytes]
    /\ rx_bytes' = 0
    /\ writer' = [writer EXCEPT ![s] = "status"]
    /\ UNCHANGED <<testVars, running, byte_budget, tx_bytes, total_tx_bytes,
                   total_rx_bytes, errors, sent, lateTx, readerVars,
                   reporterVars>>

\* The status message was written: record the interval.
WriterStatusSent(s) ==
    /\ writer[s] = "status"
    /\ total_rx_bytes' = total_rx_bytes + held[s]
    /\ held' = [held EXCEPT ![s] = 0]
    /\ writer' = [writer EXCEPT ![s] = IF server_tx THEN "spend" ELSE "head"]
    /\ UNCHANGED <<testVars, running, byte_budget, tx_bytes, rx_bytes,
                   total_tx_bytes, errors, sent, lateTx, readerVars,
                   reporterVars>>

\* The connection is gone: stop the test; the swapped bytes go with it.
WriterStatusFailed(s) ==
    /\ writer[s] = "status"
    /\ running' = FALSE
    /\ held' = [held EXCEPT ![s] = 0]
    /\ writer' = [writer EXCEPT ![s] = "done"]
    /\ UNCHANGED <<testVars, byte_budget, countVars, errors, sent, lateTx,
                   readerVars, reporterVars>>

\* Mutant: a loop that does not look at running.
WriterProceed_Loop(s) ==
    /\ writer[s] = "head"
    /\ server_tx
    /\ sent + cmd.tx_size <= MaxBytes
    /\ writer' = [writer EXCEPT ![s] = "spend"]
    /\ UNCHANGED <<testVars, running, byte_budget, countVars, held, errors,
                   sent, lateTx, readerVars, reporterVars>>

\* No status message is due: go on with the next packet.
WriterProceed(s) ==
    /\ writer[s] = "head"
    /\ running
    /\ server_tx
    /\ sent + cmd.tx_size <= MaxBytes
    /\ writer' = [writer EXCEPT ![s] = "spend"]
    /\ UNCHANGED <<testVars, running, byte_budget, countVars, held, errors,
                   sent, lateTx, readerVars, reporterVars>>

\* spend_budget, up to the decision.  A refusal stops the whole test.
WriterSpend(s) ==
    /\ writer[s] = "spend"
    /\ \/ /\ Unlimited
          /\ writer' = [writer EXCEPT ![s] = "write"]
          /\ UNCHANGED running
       \/ /\ Refused(cmd.tx_size)
          /\ writer' = [writer EXCEPT ![s] = "done"]
          /\ running' = FALSE
       \/ /\ Affordable(cmd.tx_size)
          /\ writer' = [writer EXCEPT ![s] = "sub"]
          /\ UNCHANGED running
    /\ UNCHANGED <<testVars, byte_budget, countVars, held, errors, sent,
                   lateTx, readerVars, reporterVars>>

\* spend_budget, the subtraction.
WriterSub(s) ==
    /\ writer[s] = "sub"
    /\ byte_budget' = WrappingSub(byte_budget, cmd.tx_size)
    /\ writer' = [writer EXCEPT ![s] = "write"]
    /\ UNCHANGED <<testVars, running, countVars, held, errors, sent, lateTx,
                   readerVars, reporterVars>>

\* The packet is sent and counted.
WriterSent(s) ==
    /\ writer[s] = "write"
    /\ is_udp => cmd.tx_size >= SeqHeader
    /\ tx_bytes' = tx_bytes + cmd.tx_size
    /\ sent' = sent + cmd.tx_size
    /\ errors' = [errors EXCEPT ![s] = 0]
    /\ lateTx' = [lateTx EXCEPT ![s] = IF running THEN @ ELSE @ + 1]
    /\ writer' = [writer EXCEPT ![s] = "head"]
    /\ UNCHANGED <<testVars, running, byte_budget, rx_bytes, total_tx_bytes,
                   total_rx_bytes, held, readerVars, reporterVars>>

\* The write fails.  TCP stops the test; UDP backs off and goes round again
\* (the budget stays spent) until the errors exceed the limit, and then
\* leaves without touching running.
WriterFailed(s) ==
    /\ writer[s] = "write"
    /\ is_udp => cmd.tx_size >= SeqHeader
    /\ errors' = [errors EXCEPT ![s] = IF is_udp THEN @ + 1 ELSE @]
    /\ running' = (running /\ is_udp)
    /\ writer' = [writer EXCEPT ![s] =
                     IF is_udp /\ errors[s] + 1 <= MaxSendErrors
                       THEN "head" ELSE "done"]
    /\ UNCHANGED <<testVars, byte_budget, countVars, held, sent, lateTx,
                   readerVars, reporterVars>>

\* packet[0..4] on a packet too short for its sequence number panics: the
\* task is gone, and nobody looks at its JoinHandle before the test ends.
WriterPanics(s) ==
    /\ writer[s] = "write"
    /\ is_udp
    /\ cmd.tx_size < SeqHeader
    /\ writer' = [writer EXCEPT ![s] = "done"]
    /\ UNCHANGED <<testVars, running, byte_budget, countVars, held, errors,
                   sent, lateTx, readerVars, reporterVars>>

-----------------------------------------------------------------------------
(* The reader of stream s *)

ReaderExit(s) ==
    /\ reader[s] = "head"
    /\ ~running
    /\ reader' = [reader EXCEPT ![s] = "done"]
    /\ UNCHANGED <<testVars, running, byte_budget, countVars, writerVars, got,
                   rcvd, lateRx, reporterVars>>

ReaderProceed(s) ==
    /\ reader[s] = "head"
    /\ running
    /\ reader' = [reader EXCEPT ![s] = "read"]
    /\ UNCHANGED <<testVars, running, byte_budget, countVars, writerVars, got,
                   rcvd, lateRx, reporterVars>>

ReaderData(s) ==
    /\ reader[s] = "read"
    /\ \E n \in RxSizes :
          /\ is_udp => n >= SeqHeader
          /\ rcvd + n <= MaxBytes
          /\ got' = [got EXCEPT ![s] = n]
    /\ reader' = [reader EXCEPT ![s] = "spend"]
    /\ UNCHANGED <<testVars, running, byte_budget, countVars, writerVars, rcvd,
                   lateRx, reporterVars>>

\* Mutant: the reader leaves without a word.
ReaderClosed_Silent(s) ==
    /\ reader[s] = "read"
    /\ ~is_udp
    /\ reader' = [reader EXCEPT ![s] = "done"]
    /\ UNCHANGED <<testVars, running, byte_budget, countVars, writerVars, got,
                   rcvd, lateRx, reporterVars>>

\* End of stream or a read error on TCP: stop the test.
ReaderClosed(s) ==
    /\ reader[s] = "read"
    /\ ~is_udp
    /\ running' = FALSE
    /\ reader' = [reader EXCEPT ![s] = "done"]
    /\ UNCHANGED <<testVars, byte_budget, countVars, writerVars, got, rcvd,
                   lateRx, reporterVars>>

\* Mutant: recv_from without the timeout.
ReaderIdle_NoTimeout(s) == FALSE

\* UDP: the 5 s timeout, a datagram too short to count, or a socket error.
ReaderIdle(s) ==
    /\ reader[s] = "read"
    /\ is_udp
    /\ reader' = [reader EXCEPT ![s] = "head"]
    /\ UNCHANGED <<testVars, running, byte_budget, countVars, writerVars, got,
                   rcvd, lateRx, reporterVars>>

ReaderSpend(s) ==
    /\ reader[s] = "spend"
    /\ \/ /\ Unlimited
          /\ reader' = [reader EXCEPT ![s] = "count"]
          /\ UNCHANGED running
       \/ /\ Refused(got[s])
          /\ reader' = [reader EXCEPT ![s] = "done"]
          /\ running' = FALSE
       \/ /\ Affordable(got[s])
          /\ reader' = [reader EXCEPT ![s] = "sub"]
          /\ UNCHANGED running
    /\ UNCHANGED <<testVars, byte_budget, countVars, writerVars, got, rcvd,
                   lateRx, reporterVars>>

ReaderSub(s) ==
    /\ reader[s] = "sub"
    /\ byte_budget' = WrappingSub(byte_budget, got[s])
    /\ reader' = [reader EXCEPT ![s] = "count"]
    /\ UNCHANGED <<testVars, running, countVars, writerVars, got, rcvd, lateRx,
                   reporterVars>>

ReaderCount(s) ==
    /\ reader[s] = "count"
    /\ rx_bytes' = rx_bytes + got[s]
    /\ rcvd' = rcvd + got[s]
    /\ got' = [got EXCEPT ![s] = 0]
    /\ lateRx' = [lateRx EXCEPT ![s] = IF running THEN @ ELSE @ + 1]
    /\ reader' = [reader EXCEPT ![s] = "head"]
    /\ UNCHANGED <<testVars, running, byte_budget, tx_bytes, total_tx_bytes,
                   total_rx_bytes, writerVars, reporterVars>>

-----------------------------------------------------------------------------
(* The reporter: the task that spawned the others *)

\* Every loop of the reporter leaves at the top, when it sees running cleared.
ReporterExit ==
    /\ reporter = "loop"
    /\ ~running
    /\ reporter' = "stop"
    /\ UNCHANGED <<testVars, running, byte_budget, countVars, writerVars,
                   readerVars, report_tx, report_rx>>

\* Mutant: the sent bytes are read, not swapped.
ReportTick_Load ==
    /\ reporter = "loop"
    /\ running
    /\ ReportLoop
    /\ rx_bytes' = IF server_rx THEN 0 ELSE rx_bytes
    /\ total_tx_bytes' = total_tx_bytes + IF server_tx THEN tx_bytes ELSE 0
    /\ total_rx_bytes' = total_rx_bytes + IF server_rx THEN rx_bytes ELSE 0
    /\ UNCHANGED <<testVars, running, byte_budget, tx_bytes, writerVars,
                   readerVars, reporterVars>>

\* status_report_loop, one tick: nothing is awaited between swap and record.
ReportTick ==
    /\ reporter = "loop"
    /\ running
    /\ ReportLoop
    /\ tx_bytes' = IF server_tx THEN 0 ELSE tx_bytes
    /\ rx_bytes' = IF server_rx THEN 0 ELSE rx_bytes
    /\ total_tx_bytes' = total_tx_bytes + IF server_tx THEN tx_bytes ELSE 0
    /\ total_rx_bytes' = total_rx_bytes + IF server_rx THEN rx_bytes ELSE 0
    /\ UNCHANGED <<testVars, running, byte_budget, writerVars, readerVars,
                   reporterVars>>

\* One connection, both directions: the loop prints the interval's tx bytes
\* and does not record them.
BothTick ==
    /\ reporter = "loop"
    /\ running
    /\ BothLoop
    /\ tx_bytes' = 0
    /\ UNCHANGED <<testVars, running, byte_budget, rx_bytes, total_tx_bytes,
                   total_rx_bytes, writerVars, readerVars, reporterVars>>

\* udp_status_loop: wait for the client's status until ours is due.
StatusWait ==
    /\ reporter = "loop"
    /\ running
    /\ StatusLoop
    /\ reporter' = "wait"
    /\ UNCHANGED <<testVars, running, byte_budget, countVars, writerVars,
                   readerVars, report_tx, report_rx>>

\* The client's status arrived before ours is due: go round again.
StatusReceived ==
    /\ reporter = "wait"
    /\ reporter' = "loop"
    /\ UNCHANGED <<testVars, running, byte_budget, countVars, writerVars,
                   readerVars, report_tx, report_rx>>

\* The control connection is closed or broken.
StatusReadError ==
    /\ reporter = "wait"
    /\ running' = FALSE
    /\ reporter' = "stop"
    /\ UNCHANGED <<testVars, byte_budget, countVars, writerVars, readerVars,
                   report_tx, report_rx>>

\* Ours is due: take both counters and write the status message.
StatusDue ==
    /\ reporter = "wait"
    /\ report_tx' = tx_bytes
    /\ report_rx' = rx_bytes
    /\ tx_bytes' = 0
    /\ rx_bytes' = 0
    /\ reporter' = "send"
    /\ UNCHANGED <<testVars, running, byte_budget, total_tx_bytes,
                   total_rx_bytes, writerVars, readerVars>>

\* It was written: record the interval.
StatusSent ==
    /\ reporter = "send"
    /\ total_tx_bytes' = total_tx_bytes + report_tx
    /\ total_rx_bytes' = total_rx_bytes + report_rx
    /\ report_tx' = 0
    /\ report_rx' = 0
    /\ reporter' = "loop"
    /\ UNCHANGED <<testVars, running, byte_budget, tx_bytes, rx_bytes,
                   writerVars, readerVars>>

\* It could not be written: the interval is lost with the connection.
StatusFailed ==
    /\ reporter = "send"
    /\ running' = FALSE
    /\ report_tx' = 0
    /\ report_rx' = 0
    /\ reporter' = "stop"
    /\ UNCHANGED <<testVars, byte_budget, countVars, writerVars, readerVars>>

\* After the loop: clear running for the others ...
Stop ==
    /\ reporter = "stop"
    /\ running' = FALSE
    /\ reporter' = "join"
    /\ UNCHANGED <<testVars, byte_budget, countVars, writerVars, readerVars,
                   report_tx, report_rx>>

\* Mutant: only the writers are awaited.
Joined_Writers == \A s \in Streams : writer[s] \in {"none", "done"}

Joined == \A s \in Streams : writer[s] \in {"none", "done"}
                            /\ reader[s] \in {"none", "done"}

\* ... await every JoinHandle and return summary().
Join ==
    /\ reporter = "join"
    /\ Joined
    /\ reporter' = "ended"
    /\ UNCHANGED <<testVars, running, byte_budget, countVars, writerVars,
                   readerVars, report_tx, report_rx>>

-----------------------------------------------------------------------------
(* QuotaEnforcer::run ends the test from outside: quota or duration. *)
EnforcerStop ==
    /\ running
    /\ running' = FALSE
    /\ UNCHANGED <<testVars, byte_budget, countVars, writerVars, readerVars,
                   reporterVars>>

\* The summary has been returned; nothing is left to happen.
Terminated ==
    /\ reporter = "ended"
    /\ UNCHANGED vars

Writer(s) ==
    \/ WriterExit(s) \/ WriterSwap(s) \/ WriterStatusSent(s)
    \/ WriterStatusFailed(s) \/ WriterProceed(s) \/ WriterSpend(s)
    \/ WriterSub(s) \/ WriterSent(s) \/ WriterFailed(s) \/ WriterPanics(s)

Reader(s) ==
    \/ ReaderExit(s) \/ ReaderProceed(s) \/ ReaderData(s) \/ ReaderClosed(s)
    \/ ReaderIdle(s) \/ ReaderSpend(s) \/ ReaderSub(s) \/ ReaderCount(s)

Reporter ==
    \/ ReporterExit \/ ReportTick \/ BothTick \/ StatusWait
    \/ StatusReceived \/ StatusReadError \/ StatusDue \/ StatusSent
    \/ StatusFailed \/ Stop \/ Join

Next ==
    \/ \E s \in Streams : Writer(s) \/ Reader(s)
    \/ Reporter
    \/ EnforcerStop
    \/ Terminated

Spec == Init /\ [][Next]_vars

-----------------------------------------------------------------------------
(* Fairness.  The runtime schedules every task that is ready, timers fire,  *)
(* and a UDP send completes whatever the peer does ...                     *)

WriterLocal(s) ==
    \/ WriterExit(s) \/ WriterSwap(s) \/ WriterProceed(s) \/ WriterSpend(s)
    \/ WriterSub(s) \/ WriterPanics(s)
    \/ is_udp /\ (WriterSent(s) \/ WriterFailed(s))

ReaderLocal(s) ==
    \/ ReaderExit(s) \/ ReaderProceed(s) \/ ReaderIdle(s) \/ ReaderSpend(s)
    \/ ReaderSub(s) \/ ReaderCount(s)

ReporterLocal ==
    ReporterExit \/ ReportTick \/ BothTick \/ StatusWait \/ StatusDue \/ Stop \/ Join

TaskFairness ==
    /\ \A s \in Streams : WF_vars(WriterLocal(s)) /\ WF_vars(ReaderLocal(s))
    /\ WF_vars(ReporterLocal)

\* ... but a TCP write waits for the peer to make room or the connection to
\* break, and a TCP read for data or the end of the stream.
PeerFairness ==
    /\ \A s \in Streams :
          /\ WF_vars(WriterStatusSent(s) \/ WriterStatusFailed(s))
          /\ WF_vars(WriterSent(s) \/ WriterFailed(s))
          /\ WF_vars(ReaderData(s) \/ ReaderClosed(s))
    /\ WF_vars(StatusSent \/ StatusFailed)

FairSpec == Spec /\ TaskFairness /\ PeerFairness

\* A peer that need not read, write or close: only the tasks are fair.
StallingPeerSpec == Spec /\ TaskFairness

-----------------------------------------------------------------------------
(* Properties *)

\* Every variable has its type; in particular the budget stays a u64 and the
\* counters never go negative.
TypeOK ==
    /\ cmd \in Commands
    /\ streams \subseteq Streams
    /\ running \in BOOLEAN
    /\ byte_budget \in 0 .. U64Max
    /\ tx_bytes \in Nat
    /\ rx_bytes \in Nat
    /\ total_tx_bytes \in Nat
    /\ total_rx_bytes \in Nat
    /\ writer \in [Streams ->
          {"none", "head", "status", "spend", "sub", "write", "done"}]
    /\ held \in [Streams -> Nat]
    /\ errors \in [Streams -> Nat]
    /\ reader \in [Streams ->
          {"none", "head", "read", "spend", "sub", "count", "done"}]
    /\ got \in [Streams -> 0 .. U64Max]
    /\ reporter \in {"loop", "wait", "send", "stop", "join", "ended"}
    /\ report_tx \in Nat
    /\ report_rx \in Nat
    /\ budget0 \in 0 .. U64Max
    /\ sent \in Nat
    /\ rcvd \in Nat
    /\ lateTx \in [Streams -> Nat]
    /\ lateRx \in [Streams -> Nat]

\* Where the bytes are: in the totals, in the interval counter, or swapped out
\* by a task that is writing a status message about them.
AccountedTx == total_tx_bytes + tx_bytes + report_tx
AccountedRx ==
    total_rx_bytes + rx_bytes + report_rx + SumOf(held)

\* No sent byte is counted twice, and while the test runs none is lost on its
\* way from the interval counter to the totals.  The totals of a single TCP
\* connection in both directions are left to TxTotalCumulative.
TxAccounting ==
    /\ AccountedTx <= sent
    /\ running /\ ~BothLoop => AccountedTx = sent

\* The total is cumulative: in every test, what was sent is in it or in an interval
\* that is still to be added to it.  The loop of a single TCP connection in both
\* directions empties the counter every second and adds it to nothing.
TxTotalCumulative == running => AccountedTx = sent

\* The same of the received bytes, without exception, although rx_bytes is
\* swapped by up to one status writer per stream and by status_report_loop
\* while the readers add to it, and is recorded only after a status message
\* about it was written.
RxAccounting ==
    /\ AccountedRx <= rcvd
    /\ running => AccountedRx = rcvd

\* Clearing running is all it takes: each writer sends at most one packet and
\* each reader counts at most one read after that, whoever cleared it and
\* wherever the task was.
LateBound == \A s \in Streams : lateTx[s] <= 1 /\ lateRx[s] <= 1

\* No half-dead test: a task that leaves its loop has stopped the test for
\* all of them, except a UDP writer that met too many send errors or a packet
\* size without room for the sequence number (server.rs:852, 870-873).
NoHalfDeadTest ==
    running =>
      \A s \in Streams :
        /\ reader[s] # "done"
        /\ writer[s] = "done" =>
             is_udp /\ (errors[s] > MaxSendErrors \/ cmd.tx_size < SeqHeader)

\* One task spends the budget.
SingleSpender ==
    /\ \E s \in Streams : streams = {s}
    /\ ~(server_tx /\ server_rx)

\* The bytes a test moves stay within the budget it was given.
BudgetRespected == budget0 # U64Max => sent + rcvd <= budget0

\* With one task spending, the check and the later subtraction of
\* spend_budget cannot be separated by another's, and the budget is never
\* exceeded, not even by a packet.
SingleSpenderBudget == SingleSpender => BudgetRespected

\* Once summary() has been returned nothing moves and the totals are final:
\* no task outlives the test it belongs to.
SummaryFinal ==
    [][reporter = "ended" =>
         UNCHANGED <<total_tx_bytes, total_rx_bytes, sent, rcvd>>]_vars

\* A test that was told to stop, by the budget, by the enforcer or by a task
\* that lost its connection, ends.
StopEnds == ~running ~> reporter = "ended"

\* The test as whoever started it sees it.
Metered == INSTANCE MeteredTest WITH
    phase <- IF reporter = "ended" THEN "ended"
             ELSE IF running THEN "running" ELSE "stopping",
    budget <- budget0,
    alone <- SingleSpender,
    tx <- sent,
    rx <- rcvd,
    summary <- IF reporter = "ended" THEN <<total_tx_bytes, total_rx_bytes>> ELSE <<0, 0>>

\* The tasks implement a metered test: bytes move only between its beginning
\* and its end, a single spender keeps the budget, the summary is reported once,
\* after the last byte, and claims no byte that did not move, and a test that
\* was told to stop ends.
ImplementsMeteredTest == Metered!Spec

=============================================================================
