----------------------------- MODULE ClientTest -----------------------------
(***************************************************************************)
(* One test of the client: src/src/client.rs run by src/src/main.rs.       *)
(*                                                                         *)
(* main awaits run_client, with a timer when --duration is given.          *)
(* run_client connects, spawns a task that sends and a task that reads,    *)
(* runs the status loop itself and joins the two when the loop ends.  When *)
(* the timer fires, run_client is dropped wherever it is: the status loop  *)
(* is gone at once, the spawned tasks are not, and main reads the totals.  *)
(***************************************************************************)
EXTENDS Integers

CONSTANTS
    Commands,       \* what the command line may ask for
    TxSize,         \* bytes of one write or packet
    RxSizes,        \* bytes one read may return
    MaxSendErrors,  \* consecutive UDP send errors the sender tolerates
    MaxBytes        \* bound: bytes the model lets each direction move

CommandType ==
    [proto : {"TCP", "UDP"}, direction : {"RX", "TX", "BOTH"}, timed : BOOLEAN]

ASSUME ClientAssumption ==
    /\ Commands \subseteq CommandType
    /\ TxSize \in Nat
    /\ RxSizes \subseteq Nat
    /\ MaxSendErrors \in Nat
    /\ MaxBytes \in Nat

VARIABLES
    cmd,            \* protocol, direction (as the server sees it), duration
    running,        \* BandwidthState
    tx_bytes,
    rx_bytes,
    total_tx_bytes,
    total_rx_bytes,
    main,           \* where run_client is, and how it ended
    writer,         \* where the sending task is
    errors,         \* its consecutive_errors
    reader,         \* where the reading task is
    \* history
    sent,           \* bytes handed to the socket
    rcvd,           \* bytes of test data taken from it
    summary         \* the totals main reported

countVars == <<tx_bytes, rx_bytes, total_tx_bytes, total_rx_bytes>>
taskVars == <<writer, errors, reader, sent, rcvd>>
vars == <<cmd, running, countVars, main, taskVars, summary>>

is_udp == cmd.proto = "UDP"
client_tx == cmd.direction \in {"RX", "BOTH"}
client_rx == cmd.direction \in {"TX", "BOTH"}

\* What the reading task reads: test data, or, on TCP when the client only
\* sends, the status messages of the server.
ReadsData == client_rx
ReadsStatus == ~is_udp /\ ~client_rx

NoSummary == <<>>

-----------------------------------------------------------------------------
Init ==
    /\ cmd \in Commands
    /\ running = TRUE
    /\ tx_bytes = 0
    /\ rx_bytes = 0
    /\ total_tx_bytes = 0
    /\ total_rx_bytes = 0
    /\ main = "connect"
    /\ writer = "none"
    /\ errors = 0
    /\ reader = "none"
    /\ sent = 0
    /\ rcvd = 0
    /\ summary = NoSummary

\* HELLO, command and authentication are done, the UDP socket is bound.
Connected ==
    /\ main = "connect"
    /\ main' = "loop"
    /\ writer' = IF client_tx THEN "head" ELSE "none"
    /\ reader' = IF ReadsData \/ ReadsStatus THEN "head" ELSE "none"
    /\ UNCHANGED <<cmd, running, countVars, errors, sent, rcvd, summary>>

\* run_client returns an error, and so does main.
ConnectFails ==
    /\ main = "connect"
    /\ main' = "failed"
    /\ UNCHANGED <<cmd, running, countVars, taskVars, summary>>

-----------------------------------------------------------------------------
(* tcp_client_tx_loop and udp_client_tx_loop *)

WriterExit ==
    /\ writer = "head"
    /\ ~running
    /\ writer' = "done"
    /\ UNCHANGED <<cmd, running, countVars, main, errors, reader, sent, rcvd,
                   summary>>

WriterProceed ==
    /\ writer = "head"
    /\ running
    /\ sent + TxSize <= MaxBytes
    /\ writer' = "write"
    /\ UNCHANGED <<cmd, running, countVars, main, errors, reader, sent, rcvd,
                   summary>>

WriterSent ==
    /\ writer = "write"
    /\ tx_bytes' = tx_bytes + TxSize
    /\ sent' = sent + TxSize
    /\ errors' = 0
    /\ writer' = "head"
    /\ UNCHANGED <<cmd, running, rx_bytes, total_tx_bytes, total_rx_bytes,
                   main, reader, rcvd, summary>>

\* Mutant: the sender never gives up.
WriterFailed_Forever ==
    /\ writer = "write"
    /\ errors' = IF is_udp THEN errors + 1 ELSE errors
    /\ writer' = IF is_udp THEN "head" ELSE "done"
    /\ UNCHANGED <<cmd, running, countVars, main, reader, sent, rcvd, summary>>

\* TCP leaves at the first error, UDP after too many in a row; neither clears
\* running.
WriterFailed ==
    /\ writer = "write"
    /\ errors' = IF is_udp THEN errors + 1 ELSE errors
    /\ writer' = IF is_udp /\ errors + 1 <= MaxSendErrors THEN "head" ELSE "done"
    /\ UNCHANGED <<cmd, running, countVars, main, reader, sent, rcvd, summary>>

-----------------------------------------------------------------------------
(* tcp_client_rx_loop, tcp_client_status_reader and udp_client_rx_loop *)

ReaderExit ==
    /\ reader = "head"
    /\ ~running
    /\ reader' = "done"
    /\ UNCHANGED <<cmd, running, countVars, main, writer, errors, sent, rcvd,
                   summary>>

ReaderProceed ==
    /\ reader = "head"
    /\ running
    /\ reader' = "read"
    /\ UNCHANGED <<cmd, running, countVars, main, writer, errors, sent, rcvd,
                   summary>>

ReaderData ==
    /\ reader = "read"
    /\ ReadsData
    /\ \E n \in RxSizes :
          /\ rcvd + n <= MaxBytes
          /\ rx_bytes' = rx_bytes + n
          /\ rcvd' = rcvd + n
    /\ reader' = "head"
    /\ UNCHANGED <<cmd, running, tx_bytes, total_tx_bytes, total_rx_bytes,
                   main, writer, errors, sent, summary>>

\* A status message is no test data; a UDP receive times out after 5 s, fails,
\* or returns a datagram too short to count.
ReaderNothing ==
    /\ reader = "read"
    /\ ReadsStatus \/ is_udp
    /\ reader' = "head"
    /\ UNCHANGED <<cmd, running, countVars, main, writer, errors, sent, rcvd,
                   summary>>

\* TCP: the server is gone.  The task leaves and says nothing.
ReaderClosed ==
    /\ reader = "read"
    /\ ~is_udp
    /\ reader' = "done"
    /\ UNCHANGED <<cmd, running, countVars, main, writer, errors, sent, rcvd,
                   summary>>

-----------------------------------------------------------------------------
(* client_status_loop and udp_client_status_loop, and what follows them *)

\* Both loops look at running before each round.  Only they and the timer, which
\* drops them, ever clear it, so the exit for a cleared flag is never taken: a
\* loop ends by a failed exchange (UDP) or by the timer.

\* TCP, once a second: nothing is awaited between the swaps and the record.
Tick ==
    /\ main = "loop"
    /\ running
    /\ ~is_udp
    /\ tx_bytes' = IF client_tx THEN 0 ELSE tx_bytes
    /\ rx_bytes' = IF client_rx THEN 0 ELSE rx_bytes
    /\ total_tx_bytes' = total_tx_bytes + IF client_tx THEN tx_bytes ELSE 0
    /\ total_rx_bytes' = total_rx_bytes + IF client_rx THEN rx_bytes ELSE 0
    /\ UNCHANGED <<cmd, running, main, taskVars, summary>>

\* UDP: wait for the status of the server until ours is due.
StatusWait ==
    /\ main = "loop"
    /\ running
    /\ is_udp
    /\ main' = "wait"
    /\ UNCHANGED <<cmd, running, countVars, taskVars, summary>>

StatusReceived ==
    /\ main = "wait"
    /\ main' = "loop"
    /\ UNCHANGED <<cmd, running, countVars, taskVars, summary>>

\* Mutant: the loop is left and running stays set for the tasks.
StatusReadError_Silent ==
    /\ main = "wait"
    /\ main' = "join"
    /\ UNCHANGED <<cmd, running, countVars, taskVars, summary>>

StatusReadError ==
    /\ main = "wait"
    /\ running' = FALSE
    /\ main' = "join"
    /\ UNCHANGED <<cmd, countVars, taskVars, summary>>

\* Mutant: the counters are read, not swapped.
StatusDue_Load ==
    /\ main = "wait"
    /\ total_tx_bytes' = total_tx_bytes + tx_bytes
    /\ total_rx_bytes' = total_rx_bytes + rx_bytes
    /\ main' = "send"
    /\ UNCHANGED <<cmd, running, tx_bytes, rx_bytes, taskVars, summary>>

\* Ours is due: swap, record, and only then write.
StatusDue ==
    /\ main = "wait"
    /\ total_tx_bytes' = total_tx_bytes + tx_bytes
    /\ total_rx_bytes' = total_rx_bytes + rx_bytes
    /\ tx_bytes' = 0
    /\ rx_bytes' = 0
    /\ main' = "send"
    /\ UNCHANGED <<cmd, running, taskVars, summary>>

StatusSent ==
    /\ main = "send"
    /\ main' = "loop"
    /\ UNCHANGED <<cmd, running, countVars, taskVars, summary>>

StatusFailed ==
    /\ main = "send"
    /\ running' = FALSE
    /\ main' = "join"
    /\ UNCHANGED <<cmd, countVars, taskVars, summary>>

\* run_client joins its tasks and returns; main reads the summary.
Join ==
    /\ main = "join"
    /\ writer \in {"none", "done"}
    /\ reader \in {"none", "done"}
    /\ main' = "ended"
    /\ summary' = <<total_tx_bytes, total_rx_bytes>>
    /\ UNCHANGED <<cmd, running, countVars, taskVars>>

\* Mutant: the status loop is a task of its own and survives the timer.
TimerExpires_Detached ==
    /\ cmd.timed
    /\ main \in {"connect", "loop", "wait", "send", "join"}
    /\ summary = NoSummary
    /\ running' = FALSE
    /\ summary' = <<total_tx_bytes, total_rx_bytes>>
    /\ UNCHANGED <<cmd, countVars, main, taskVars>>

\* Mutant: the timer covers the test and not the connection set-up.
TimerExpires_TestOnly ==
    /\ cmd.timed
    /\ main \in {"loop", "wait", "send", "join"}
    /\ running' = FALSE
    /\ main' = "ended"
    /\ summary' = <<total_tx_bytes, total_rx_bytes>>
    /\ UNCHANGED <<cmd, countVars, taskVars>>

\* main: tokio::time::timeout drops run_client, then reads the summary.
TimerExpires ==
    /\ cmd.timed
    /\ main \in {"connect", "loop", "wait", "send", "join"}
    /\ running' = FALSE
    /\ main' = "ended"
    /\ summary' = <<total_tx_bytes, total_rx_bytes>>
    /\ UNCHANGED <<cmd, countVars, taskVars>>

\* The process exits.
Terminated ==
    /\ main \in {"ended", "failed"}
    /\ UNCHANGED vars

-----------------------------------------------------------------------------
Writer == WriterExit \/ WriterProceed \/ WriterSent \/ WriterFailed

Reader ==
    ReaderExit \/ ReaderProceed \/ ReaderData \/ ReaderNothing \/ ReaderClosed

Main ==
    \/ Connected \/ ConnectFails \/ Tick \/ StatusWait
    \/ StatusReceived \/ StatusReadError \/ StatusDue \/ StatusSent
    \/ StatusFailed \/ Join \/ TimerExpires

Next == Writer \/ Reader \/ Main \/ Terminated

Spec == Init /\ [][Next]_vars

\* The runtime schedules every ready task and timers fire; a UDP send ends by
\* itself.  A TCP write or read, the connection set-up and the status exchange
\* wait for the server.
TaskFairness ==
    /\ WF_vars(WriterExit \/ WriterProceed \/ (is_udp /\ (WriterSent \/ WriterFailed)))
    /\ WF_vars(ReaderExit \/ ReaderProceed \/ (is_udp /\ ReaderNothing))
    /\ WF_vars(Tick \/ StatusWait \/ StatusDue \/ Join)
    /\ WF_vars(TimerExpires)

StallingServerSpec == Spec /\ TaskFairness

-----------------------------------------------------------------------------
(* Properties *)

\* Every variable has its type; the sender gives up in time.
TypeOK ==
    /\ cmd \in Commands
    /\ running \in BOOLEAN
    /\ tx_bytes \in Nat
    /\ rx_bytes \in Nat
    /\ total_tx_bytes \in Nat
    /\ total_rx_bytes \in Nat
    /\ main \in {"connect", "loop", "wait", "send", "join", "ended", "failed"}
    /\ writer \in {"none", "head", "write", "done"}
    /\ errors \in 0 .. MaxSendErrors + 1
    /\ reader \in {"none", "head", "read", "done"}
    /\ sent \in Nat
    /\ rcvd \in Nat
    /\ summary \in (Nat \X Nat) \cup {NoSummary}

\* Wherever the timer cuts run_client off, and however the status loop
\* interleaves with the tasks, every byte is in a total or in the counter of
\* the unfinished interval: none is lost and none counted twice.
Accounting ==
    /\ total_tx_bytes + tx_bytes = sent
    /\ total_rx_bytes + rx_bytes = rcvd

\* The reported summary is final: the tasks that outlive a dropped run_client
\* do not touch the totals any more.
SummaryFinal ==
    summary # NoSummary => summary = <<total_tx_bytes, total_rx_bytes>>

\* The client ends once it was told to stop, by its timer or by a broken
\* status exchange: both tasks notice and are joined, without help from the
\* server.
StopEnds == (~running \/ main = "join") ~> main = "ended"

\* With --duration the client ends whatever the server does or fails to do.
DurationEnds == cmd.timed ~> main \in {"ended", "failed"}

=============================================================================
