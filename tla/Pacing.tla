------------------------------- MODULE Pacing -------------------------------
(***************************************************************************)
(* The rate of a sender: calc_send_interval and advance_next_send of       *)
(* src/src/bandwidth.rs, the part of the four sending loops that uses them *)
(* (udp_tx_loop, tcp_tx_loop_inner, udp_client_tx_loop,                    *)
(* tcp_client_tx_loop), the speed the command line asks for                *)
(* (src/src/main.rs) and the feedback of the status loops, which store a   *)
(* new speed and then a flag that the sender reads, clears and follows.    *)
(*                                                                         *)
(* Time is a clock that may advance between any two steps: a write may     *)
(* block and a sleep may oversleep.  The two stores and the loads are      *)
(* Relaxed, so the stores may become visible in either order.              *)
(***************************************************************************)
EXTENDS Integers

CONSTANTS
    Second,     \* ticks of the clock in a second
    TxSize,     \* cmd.tx_size: bytes of a packet
    LargeWrite, \* 256 * 1024: bytes a TCP sender without a speed writes at a time
    U32,        \* 2^32, where a speed wraps around
    Options,    \* values of --bandwidth in bit/s, 0 when it is not given
    Reports,    \* values of bytes_received the peer may report
    Backoff,    \* pause after a failed UDP send
    MaxTime     \* bound: when the clock stops

ASSUME PacingAssumption ==
    /\ Second \in Nat \ {0} /\ Second % 2 = 0
    /\ TxSize \in Nat \ {0}
    /\ LargeWrite \in Nat \ {0}
    /\ U32 \in Nat \ {0}
    /\ Options \subseteq 0 .. U32 - 1
    /\ Reports \subseteq 0 .. U32 - 1
    /\ Backoff \in Nat
    /\ MaxTime \in Nat

VARIABLES
    cmd,        \* protocol, direction as the server sees it, --bandwidth
    side,       \* whose sender this is
    effective_size, \* bytes of one write, fixed when the sender starts
    now,        \* Instant::now()
    \* the sender
    pc,
    interval,   \* time between packets, Unlimited for None
    next_send,
    wake,       \* when its sleep is over
    \* BandwidthState
    tx_speed,
    tx_speed_changed,
    \* the status loop
    store,      \* which of its two stores is still to be seen
    speed,      \* the value of that store
    \* history
    applied,    \* the speed the sender follows
    report,     \* the last two reports, the later one first
    origin,     \* when the sender took up its speed
    sends,      \* writes since then, after the one that starts the schedule
    burst,      \* writes at this instant
    late        \* how far the schedule was behind at the first of them

senderVars == <<pc, interval, next_send, wake, applied, origin, sends, burst,
                late>>
feedbackVars == <<tx_speed, tx_speed_changed, store, speed, report>>
testVars == <<cmd, side, effective_size>>
vars == <<testVars, now, senderVars, feedbackVars>>

Unlimited == 0

-----------------------------------------------------------------------------
(* bandwidth.rs *)

\* More than half a second becomes a second; less than a tick, a tick.
calc_send_interval(tx_speed_bps) ==
    IF tx_speed_bps = 0 THEN Unlimited
    ELSE LET iv == (Second * TxSize * 8) \div tx_speed_bps
         IN  IF iv > Second \div 2 THEN Second ELSE IF iv < 1 THEN 1 ELSE iv

\* Mutant: the debt of a blocked sender is kept.
advance_next_send_Debt(next, iv, t) == next + iv

\* One interval on, and no further behind than one interval.
advance_next_send(next, iv, t) ==
    IF next + iv + iv < t THEN t ELSE next + iv

-----------------------------------------------------------------------------
(* main.rs: which speed --bandwidth sets, in the command and so for the      *)
(* sender of the client (local_tx_speed) and of the server (remote_tx_speed) *)

local_tx_speed(c) == IF c.direction \in {"TX", "BOTH"} THEN c.bandwidth ELSE 0
remote_tx_speed(c) == IF c.direction \in {"RX", "BOTH"} THEN c.bandwidth ELSE 0

StartSpeed(c, s) == IF s = "client" THEN local_tx_speed(c) ELSE remote_tx_speed(c)

\* What one write of the sender holds: over TCP more than a packet, at least
\* LargeWrite, when it starts without a speed.
WriteSize(c, s) ==
    IF c.proto = "TCP" /\ StartSpeed(c, s) = 0 /\ LargeWrite > TxSize
      THEN LargeWrite ELSE TxSize

CommandType ==
    [proto : {"TCP", "UDP"}, direction : {"RX", "TX", "BOTH"}, bandwidth : Options]

\* The direction of the test makes this side send.
Sends(c, s) ==
    c.direction = "BOTH" \/ c.direction = (IF s = "client" THEN "RX" ELSE "TX")

\* Somebody stores speeds for this sender: the status loops of a UDP test, and
\* tcp_client_status_reader in a TCP test where only the client sends.
HasFeedback ==
    cmd.proto = "UDP" \/ (side = "client" /\ cmd.direction = "RX")

-----------------------------------------------------------------------------
Init ==
    /\ cmd \in CommandType
    /\ side \in {"client", "server"}
    /\ Sends(cmd, side)
    /\ effective_size = WriteSize(cmd, side)
    /\ now = 0
    /\ pc = "send"
    /\ interval = calc_send_interval(StartSpeed(cmd, side))
    /\ next_send = 0
    /\ wake = 0
    /\ tx_speed = 0
    /\ tx_speed_changed = FALSE
    /\ store = "none"
    /\ speed = 0
    /\ applied = StartSpeed(cmd, side)
    /\ report = <<0, 0>>
    /\ origin = 0
    /\ sends = -1
    /\ burst = 0
    /\ late = 0

Tick ==
    /\ now < MaxTime
    /\ now' = now + 1
    /\ burst' = 0
    /\ late' = 0
    /\ UNCHANGED <<testVars, pc, interval, next_send, wake, applied, origin,
                   sends, feedbackVars>>

-----------------------------------------------------------------------------
(* The sender *)

Counted(n) == IF interval = Unlimited THEN n ELSE n + 1

Send ==
    /\ pc = "send"
    /\ pc' = "check"
    /\ sends' = Counted(sends)
    /\ burst' = Counted(burst)
    /\ late' = IF burst = 0 /\ burst' = 1 THEN now - next_send ELSE late
    /\ UNCHANGED <<testVars, now, interval, next_send, wake, applied, origin,
                   feedbackVars>>

\* UDP: back off and go round again, with the schedule as it is.
SendFails ==
    /\ pc = "send"
    /\ cmd.proto = "UDP"
    /\ pc' = "sleep"
    /\ wake' = now + Backoff
    /\ UNCHANGED <<testVars, now, interval, next_send, applied, origin, sends,
                   burst, late, feedbackVars>>

CheckFlag ==
    /\ pc = "check"
    /\ pc' = IF tx_speed_changed THEN "clear" ELSE "pace"
    /\ UNCHANGED <<testVars, now, interval, next_send, wake, applied, origin,
                   sends, burst, late, feedbackVars>>

ClearFlag ==
    /\ pc = "clear"
    /\ tx_speed_changed' = FALSE
    /\ pc' = "load"
    /\ UNCHANGED <<testVars, now, interval, next_send, wake, applied, origin,
                   sends, burst, late, tx_speed, store, speed, report>>

\* Mutant: the schedule of the old speed is continued.
LoadSpeed_KeepsSchedule ==
    /\ pc = "load"
    /\ interval' = calc_send_interval(tx_speed)
    /\ applied' = tx_speed
    /\ origin' = now
    /\ sends' = 0
    /\ burst' = 0
    /\ late' = 0
    /\ pc' = "pace"
    /\ UNCHANGED <<testVars, now, next_send, wake, feedbackVars>>

LoadSpeed ==
    /\ pc = "load"
    /\ interval' = calc_send_interval(tx_speed)
    /\ next_send' = now
    /\ applied' = tx_speed
    /\ origin' = now
    /\ sends' = 0
    /\ burst' = 0
    /\ late' = 0
    /\ pc' = "pace"
    /\ UNCHANGED <<testVars, now, wake, feedbackVars>>

\* Sleep until the next packet is due, if it is not due already.
Pace ==
    /\ pc = "pace"
    /\ next_send' = IF interval = Unlimited
                      THEN next_send
                      ELSE advance_next_send(next_send, interval, now)
    /\ IF interval # Unlimited /\ next_send' > now
         THEN pc' = "sleep" /\ wake' = next_send'
         ELSE pc' = "send" /\ UNCHANGED wake
    /\ UNCHANGED <<testVars, now, interval, applied, origin, sends, burst,
                   late, feedbackVars>>

Wake ==
    /\ pc = "sleep"
    /\ now >= wake
    /\ pc' = "send"
    /\ UNCHANGED <<testVars, now, interval, next_send, wake, applied, origin,
                   sends, burst, late, feedbackVars>>

-----------------------------------------------------------------------------
(* The feedback *)

\* Mutant: the product is computed in 32 bits.
NewSpeed_Narrow(bytes) == ((bytes * 8 * 3) % U32) \div 2

\* ((bytes_received as u64 * 8 * 3) / 2) as u32
NewSpeed(bytes) == ((bytes * 8 * 3) \div 2) % U32

\* A status message reports bytes: the first of the two stores becomes visible.
Feedback(bytes, first) ==
    /\ HasFeedback
    /\ store = "none"
    /\ bytes > 0
    /\ IF first = "speed"
         THEN /\ tx_speed' = NewSpeed(bytes)
              /\ store' = "flag"
              /\ UNCHANGED tx_speed_changed
         ELSE /\ tx_speed_changed' = TRUE
              /\ store' = "speed"
              /\ UNCHANGED tx_speed
    /\ speed' = NewSpeed(bytes)
    /\ report' = <<bytes, report[1]>>
    /\ UNCHANGED <<testVars, now, senderVars>>

\* The second one does.
FeedbackSeen ==
    /\ store # "none"
    /\ tx_speed' = IF store = "speed" THEN speed ELSE tx_speed
    /\ tx_speed_changed' = (tx_speed_changed \/ store = "flag")
    /\ store' = "none"
    /\ UNCHANGED <<testVars, now, senderVars, speed, report>>

\* The clock has stopped.
Terminated ==
    /\ now = MaxTime
    /\ UNCHANGED vars

Sender == Send \/ SendFails \/ CheckFlag \/ ClearFlag \/ LoadSpeed \/ Pace \/ Wake

Next ==
    \/ Tick
    \/ Sender
    \/ \E bytes \in Reports, first \in {"speed", "flag"} : Feedback(bytes, first)
    \/ FeedbackSeen
    \/ Terminated

Spec == Init /\ [][Next]_vars

-----------------------------------------------------------------------------
(* Properties *)

\* Every variable has its type; a paced sender sends at least once a second.
TypeOK ==
    /\ cmd \in CommandType
    /\ side \in {"client", "server"}
    /\ effective_size \in {TxSize, LargeWrite}
    /\ now \in 0 .. MaxTime
    /\ pc \in {"send", "check", "clear", "load", "pace", "sleep"}
    /\ interval \in 0 .. Second
    /\ next_send \in Nat
    /\ wake \in Nat
    /\ tx_speed \in 0 .. U32 - 1
    /\ tx_speed_changed \in BOOLEAN
    /\ store \in {"none", "speed", "flag"}
    /\ speed \in 0 .. U32 - 1
    /\ applied \in 0 .. U32 - 1
    /\ report \in Nat \X Nat
    /\ origin \in 0 .. MaxTime
    /\ sends \in Nat \cup {-1}
    /\ burst \in Nat
    /\ late \in Int

\* Whatever blocks, oversleeps or fails, a paced sender is never ahead of the
\* schedule of its writes, so that catching up after a delay never makes it faster
\* on average; and the bits it has sent since it took up its speed are within that
\* speed, up to a tick of the clock for each packet (the division rounds down).
\* Exempt is a speed below a packet a second, which becomes a packet a second, and a
\* TCP sender that started without a speed: a new speed paces it as if it wrote
\* packets, and it goes on with its large writes.
RateKept ==
    /\ interval # Unlimited => sends * interval <= now - origin
    /\ effective_size = TxSize /\ TxSize * 8 <= applied =>
         sends * effective_size * 8 * Second <= applied * (now - origin + sends + 1)

\* A sender that was held up sends one packet more than the one that is late when it
\* gets going again, as advance_next_send promises ("at most one extra interval's
\* worth of packets"), and two more only if it is exactly two intervals late.
BurstBounded == burst > 2 => burst = 3 /\ late = 2 * interval

\* Nobody is in the middle of passing a speed on.
Settled ==
    /\ store = "none"
    /\ ~tx_speed_changed
    /\ pc \notin {"clear", "load"}

\* One and a half times the bits the peer reported, as docs/protocol.md has it.
FollowsReport(bytes) == applied = 12 * bytes

\* No report is lost: once a report has been passed on, the sender follows it,
\* whatever the order of stores, loads and clears.  Only when the flag becomes
\* visible before the speed can the sender take up the report before it
\* instead; it never stays further behind.  Said of reports whose speed fits the
\* u32 it is stored in: others wrap around.
SpeedFollowsReport ==
    Settled /\ report[1] > 0 /\ 12 * report[1] < U32 /\ 12 * report[2] < U32 =>
        FollowsReport(report[1]) \/ FollowsReport(report[2])

\* --bandwidth limits the direction under test.
OptionLimits ==
    cmd.bandwidth > 0 /\ report[1] = 0 => interval # Unlimited

=============================================================================
