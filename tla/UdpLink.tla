------------------------------ MODULE UdpLink -------------------------------
(***************************************************************************)
(* The two ends of a UDP test and what lies between them: udp_tx_loop,     *)
(* udp_rx_loop and udp_status_loop of src/src/server.rs, their twins in    *)
(* src/src/client.rs, the status message of src/src/protocol.rs and the    *)
(* CPU load of src/src/cpu.rs that it carries.                             *)
(*                                                                         *)
(* Data packets cross a network that may lose and duplicate them and, on   *)
(* some paths, reorder them.  Status messages cross the TCP control        *)
(* connection, a stream without message boundaries: a message is three     *)
(* words, which may arrive in pieces, and a read that its timer cancels    *)
(* has taken the words it got.  Cuts inside a word are not distinguished.  *)
(*                                                                         *)
(* The byte budget is left to TransferTest, the speed to Pacing: here a    *)
(* sender may send whenever it runs.  Bytes are counted in packets, which   *)
(* all have the same size.                                                 *)
(***************************************************************************)
EXTENDS Integers, Sequences, FiniteSets, SequencesExt, Sums

Peers == {"client", "server"}
Other(p) == IF p = "client" THEN "server" ELSE "client"

CONSTANTS
    Tests,          \* the tests to look at: direction as the server sees it, whether
                    \* the path keeps packets in order, whether probes are sent,
                    \* what passes between two CPU samples (<<total, idle>>), and
                    \* the bounds: packets and status messages a peer sends
    SeqSpace,       \* 2^32, where a sequence number wraps around
    U32,            \* 2^32 bytes, where the bytes of a report wrap around
    U64,            \* 2^64, where CPU times wrap around
    MaxInFlight,    \* bound: packets in the network in one direction
    MaxCopies       \* bound: packets the network duplicates

ASSUME UdpLinkAssumption ==
    /\ Tests \subseteq [direction : {"RX", "TX", "BOTH"}, in_order : BOOLEAN,
                        probe : BOOLEAN, times : SUBSET (Nat \X Nat),
                        packets : Nat, statuses : [Peers -> Nat]]
    /\ SeqSpace \in Nat \ {0}
    /\ U32 \in Nat \ {0}
    /\ U64 \in Nat \ {0}
    /\ MaxInFlight \in Nat
    /\ MaxCopies \in Nat

VARIABLES
    test,           \* the test, a member of Tests
    net,            \* net[p]: packets from p on their way
    copies,         \* packets duplicated so far
    stream,         \* stream[p]: words of status messages on their way to p
    broken,         \* the control connection is gone
    \* the tasks of each peer
    seq,            \* packets sent: the next sequence number, not wrapped
    last_seq,       \* None before the first packet
    pc,             \* the status loop
    status_buf,     \* words its read has taken
    held,           \* the interval it has swapped out
    \* BandwidthState of each peer
    running,
    tx_bytes,
    rx_bytes,
    rx_lost_packets,
    total_rx_bytes,
    total_lost_packets,
    remote_cpu,
    \* history
    first,          \* the first packet received, None before it
    got,            \* the packets received
    received,       \* how many, duplicates included
    sent,           \* the status messages sent, with the bytes counted for each
    dropped,        \* words that cancelled reads have taken
    acted           \* the last status message acted on, with its number

netVars == <<test, net, copies, stream, broken>>
dataVars == <<seq, last_seq, first, got, received>>
statusVars == <<pc, status_buf, held, remote_cpu, sent, dropped, acted>>
countVars == <<tx_bytes, rx_bytes, rx_lost_packets, total_rx_bytes, total_lost_packets>>
vars == <<netVars, dataVars, statusVars, countVars, running>>

None == -1
Probe == -2     \* a packet too short to hold a sequence number

Nothing == [tx |-> 0, rx |-> 0, lost |-> 0]

Sends(p) == test.direction \in {"BOTH", IF p = "client" THEN "RX" ELSE "TX"}
Receives(p) == Sends(Other(p))

-----------------------------------------------------------------------------
(* cpu.rs *)

\* The idle time may grow by more than the total (the time spent waiting for I/O
\* may shrink): the subtraction then wraps around.
compute_usage(times) ==
    IF times[1] = 0 THEN 0
    ELSE LET busy == (times[1] - times[2]) % U64
         IN  Min({((busy * 100) % U64) \div times[1], 100})

CpuLoads == {compute_usage(times) : times \in test.times}

-----------------------------------------------------------------------------
(* protocol.rs: StatusMessage *)

\* The first word holds 0x07 and, with its high bit set, the CPU load.
CpuWord(cpu_load) == 7 + 256 * (128 + (cpu_load % 128))

serialize(m) == <<CpuWord(m.cpu), m.seq, m.bytes>>

\* Mutant: the high bit is not removed.
deserialize_HighBit(words) ==
    [cpu |-> Min({(words[1] \div 256) % 256, 100}), seq |-> words[2], bytes |-> words[3]]

\* A load of 0 is 128 on the wire, and the high bit is removed only above 128.
deserialize(words) ==
    LET raw_cpu == (words[1] \div 256) % 256
        cpu == IF raw_cpu > 128 THEN raw_cpu % 128 ELSE raw_cpu
    IN  [cpu |-> Min({cpu, 100}), seq |-> words[2], bytes |-> words[3]]

-----------------------------------------------------------------------------
\* An IPv6 server and a client in NAT mode send a probe first.
Init ==
    /\ test \in Tests
    /\ net = [p \in Peers |-> IF test.probe THEN <<Probe>> ELSE <<>>]
    /\ copies = 0
    /\ stream = [p \in Peers |-> <<>>]
    /\ broken = FALSE
    /\ seq = [p \in Peers |-> 0]
    /\ last_seq = [p \in Peers |-> None]
    /\ pc = [p \in Peers |-> "read"]
    /\ status_buf = [p \in Peers |-> <<>>]
    /\ held = [p \in Peers |-> Nothing]
    /\ running = [p \in Peers |-> TRUE]
    /\ tx_bytes = [p \in Peers |-> 0]
    /\ rx_bytes = [p \in Peers |-> 0]
    /\ rx_lost_packets = [p \in Peers |-> 0]
    /\ total_rx_bytes = [p \in Peers |-> 0]
    /\ total_lost_packets = [p \in Peers |-> 0]
    /\ remote_cpu = [p \in Peers |-> 0]
    /\ first = [p \in Peers |-> None]
    /\ got = [p \in Peers |-> {}]
    /\ received = [p \in Peers |-> 0]
    /\ sent = [p \in Peers |-> <<>>]
    /\ dropped = [p \in Peers |-> 0]
    /\ acted = [p \in Peers |-> [at |-> None, nth |-> 0]]

-----------------------------------------------------------------------------
(* The data *)

\* The sending loop: packet[0..4] holds the sequence number.
SendPacket(p) ==
    /\ running[p] /\ Sends(p)
    /\ seq[p] < test.packets
    /\ Len(net[p]) < MaxInFlight
    /\ net' = [net EXCEPT ![p] = Append(@, seq[p])]
    /\ seq' = [seq EXCEPT ![p] = @ + 1]
    /\ tx_bytes' = [tx_bytes EXCEPT ![p] = @ + 1]
    /\ UNCHANGED <<test, copies, stream, broken, last_seq, first, got,
                   received, statusVars, rx_bytes, rx_lost_packets,
                   total_rx_bytes, total_lost_packets, running>>

\* The network
LosePacket(p) ==
    /\ \E i \in DOMAIN net[p] : net' = [net EXCEPT ![p] = RemoveAt(@, i)]
    /\ UNCHANGED <<test, copies, stream, broken, dataVars, statusVars,
                   countVars, running>>

DuplicatePacket(p) ==
    /\ Len(net[p]) < MaxInFlight
    /\ copies < MaxCopies
    /\ copies' = copies + 1
    /\ \E i \in DOMAIN net[p] : net' = [net EXCEPT ![p] = InsertAt(@, i, @[i])]
    /\ UNCHANGED <<test, stream, broken, dataVars, statusVars,
                   countVars, running>>

Deliver(p, i) ==
    /\ running[p] /\ Receives(p)
    /\ i \in DOMAIN net[Other(p)]
    /\ test.in_order => i = 1
    /\ net' = [net EXCEPT ![Other(p)] = RemoveAt(@, i)]

\* Mutant: a single missing packet is overlooked.
Gap_Skips(last, num) ==
    LET expected == (last + 1) % SeqSpace
    IN  IF last # None /\ num > expected + 1 THEN num - expected ELSE 0

\* seq - last.wrapping_add(1), when that is positive
Gap(last, num) ==
    LET expected == (last + 1) % SeqSpace
    IN  IF last # None /\ num > expected THEN num - expected ELSE 0

\* The receiving loop
ReceivePacket(p, i) ==
    /\ Deliver(p, i)
    /\ LET n   == net[Other(p)][i]
           num == n % SeqSpace
       IN  /\ n # Probe
           /\ rx_bytes' = [rx_bytes EXCEPT ![p] = @ + 1]
           /\ rx_lost_packets' =
                [rx_lost_packets EXCEPT ![p] = @ + Gap(last_seq[p], num)]
           /\ last_seq' = [last_seq EXCEPT ![p] = num]
           /\ first' = [first EXCEPT ![p] = IF @ = None THEN n ELSE @]
           /\ got' = [got EXCEPT ![p] = @ \cup {n}]
           /\ received' = [received EXCEPT ![p] = @ + 1]
    /\ UNCHANGED <<test, copies, stream, broken, seq, statusVars, tx_bytes,
                   total_rx_bytes, total_lost_packets, running>>

\* n < 4: it is not a packet of the test.
ReceiveProbe(p, i) ==
    /\ Deliver(p, i)
    /\ net[Other(p)][i] = Probe
    /\ UNCHANGED <<test, copies, stream, broken, dataVars, statusVars,
                   countVars, running>>

-----------------------------------------------------------------------------
(* The status loops *)

\* Back to the head of the loop, or straight on to the report when it is due.
AfterStatus(p) == IF running[p] THEN {"read", "report"} ELSE {"done", "report"}

\* A word arrives; with the third one the message is acted on.
ReadWord(p) ==
    /\ pc[p] = "read"
    /\ stream[p] # <<>>
    /\ stream' = [stream EXCEPT ![p] = Tail(@)]
    /\ LET words == Append(status_buf[p], Head(stream[p]))
       IN  IF Len(words) < 3
             THEN /\ status_buf' = [status_buf EXCEPT ![p] = words]
                  /\ UNCHANGED <<pc, remote_cpu, acted>>
             ELSE /\ status_buf' = [status_buf EXCEPT ![p] = <<>>]
                  /\ remote_cpu' = [remote_cpu EXCEPT ![p] = deserialize(words).cpu]
                  /\ acted' = [acted EXCEPT ![p] =
                        [at |-> dropped[p], nth |-> @.nth + 1, msg |-> deserialize(words)]]
                  /\ \E next \in AfterStatus(p) : pc' = [pc EXCEPT ![p] = next]
    /\ UNCHANGED <<test, net, copies, broken, dataVars, held, sent, dropped,
                   countVars, running>>

\* The second is over: the words of a message that has not arrived in full are gone.
ReadTimeout(p) ==
    /\ pc[p] = "read"
    /\ pc' = [pc EXCEPT ![p] = "report"]
    /\ dropped' = [dropped EXCEPT ![p] = @ + Len(status_buf[p])]
    /\ status_buf' = [status_buf EXCEPT ![p] = <<>>]
    /\ UNCHANGED <<netVars, dataVars, held, remote_cpu, sent, acted, countVars, running>>

\* Mutant: the counters are read and not reset.
TakeInterval_Load(p) ==
    /\ pc[p] = "report"
    /\ Len(sent[p]) < test.statuses[p]
    /\ held' = [held EXCEPT ![p] =
            [tx |-> tx_bytes[p], rx |-> rx_bytes[p], lost |-> rx_lost_packets[p]]]
    /\ pc' = [pc EXCEPT ![p] = "send"]
    /\ UNCHANGED <<netVars, dataVars, status_buf, remote_cpu, sent, dropped, acted,
                   countVars, running>>

\* swap(0) of the three counters.
TakeInterval(p) ==
    /\ pc[p] = "report"
    /\ Len(sent[p]) < test.statuses[p]
    /\ held' = [held EXCEPT ![p] =
            [tx |-> tx_bytes[p], rx |-> rx_bytes[p], lost |-> rx_lost_packets[p]]]
    /\ tx_bytes' = [tx_bytes EXCEPT ![p] = 0]
    /\ rx_bytes' = [rx_bytes EXCEPT ![p] = 0]
    /\ rx_lost_packets' = [rx_lost_packets EXCEPT ![p] = 0]
    /\ pc' = [pc EXCEPT ![p] = "send"]
    /\ UNCHANGED <<netVars, dataVars, status_buf, remote_cpu, sent, dropped, acted,
                   total_rx_bytes, total_lost_packets, running>>

record_interval(p) ==
    /\ total_rx_bytes' = [total_rx_bytes EXCEPT ![p] = @ + held[p].rx]
    /\ total_lost_packets' = [total_lost_packets EXCEPT ![p] = @ + held[p].lost]

\* A server that only sends reports what it sent.
report_bytes(p) ==
    IF p = "server" /\ Sends(p) /\ ~Receives(p) THEN held[p].tx ELSE held[p].rx

\* report_bytes as u32
SendStatus(p, cpu_load) ==
    /\ pc[p] = "send"
    /\ ~broken
    /\ LET m == [cpu |-> cpu_load, seq |-> Len(sent[p]) + 1,
                 bytes |-> report_bytes(p) % U32, counted |-> report_bytes(p)]
       IN  /\ sent' = [sent EXCEPT ![p] = Append(@, m)]
           /\ stream' = [stream EXCEPT ![Other(p)] = @ \o serialize(m)]
    /\ record_interval(p)
    /\ held' = [held EXCEPT ![p] = Nothing]
    /\ pc' = [pc EXCEPT ![p] = IF running[p] THEN "read" ELSE "done"]
    /\ UNCHANGED <<test, net, copies, broken, dataVars, status_buf, remote_cpu,
                   dropped, acted, tx_bytes, rx_bytes, rx_lost_packets, running>>

\* The write fails.  The client has recorded the interval before it; the server
\* would have recorded it after it.
SendFails(p) ==
    /\ pc[p] = "send"
    /\ broken
    /\ IF p = "client"
         THEN record_interval(p) /\ held' = [held EXCEPT ![p] = Nothing]
         ELSE UNCHANGED <<total_rx_bytes, total_lost_packets, held>>
    /\ running' = [running EXCEPT ![p] = FALSE]
    /\ pc' = [pc EXCEPT ![p] = "done"]
    /\ UNCHANGED <<netVars, dataVars, status_buf, remote_cpu, sent, dropped, acted,
                   tx_bytes, rx_bytes, rx_lost_packets>>

ReadFails(p) ==
    /\ pc[p] = "read"
    /\ broken
    /\ running' = [running EXCEPT ![p] = FALSE]
    /\ pc' = [pc EXCEPT ![p] = "done"]
    /\ UNCHANGED <<netVars, dataVars, status_buf, held, remote_cpu, sent, dropped,
                   acted, countVars>>

-----------------------------------------------------------------------------
(* The rest of the test *)

\* The duration of the client is over, or the server's quota.
Stop(p) ==
    /\ running[p]
    /\ running' = [running EXCEPT ![p] = FALSE]
    /\ UNCHANGED <<netVars, dataVars, statusVars, countVars>>

\* A peer is gone, or the network between them is.
Break ==
    /\ ~broken
    /\ broken' = TRUE
    /\ UNCHANGED <<test, net, copies, stream, dataVars, statusVars, countVars,
                   running>>

\* Both loops are over, or the bound on status messages is reached.
Terminated ==
    /\ \A p \in Peers : pc[p] = "done" \/ (pc[p] = "report" /\ Len(sent[p]) = test.statuses[p])
    /\ UNCHANGED vars

Next ==
    \/ \E p \in Peers :
        \/ SendPacket(p)
        \/ LosePacket(p)
        \/ DuplicatePacket(p)
        \/ \E i \in 1 .. MaxInFlight : ReceivePacket(p, i) \/ ReceiveProbe(p, i)
        \/ ReadWord(p)
        \/ ReadTimeout(p)
        \/ TakeInterval(p)
        \/ \E cpu_load \in CpuLoads : SendStatus(p, cpu_load)
        \/ SendFails(p)
        \/ ReadFails(p)
        \/ Stop(p)
    \/ Break
    \/ Terminated

Spec == Init /\ [][Next]_vars

-----------------------------------------------------------------------------
(* Properties *)

\* Losses a peer has counted.
Lost(p) == total_lost_packets[p] + held[p].lost + rx_lost_packets[p]

\* The sequence numbers wrap around between the packets of G next to n, and with them
\* whatever was lost there.
WrapsInGap(G, n) ==
    LET before == Max({g \in G : g < n})
        after  == Min({g \in G : g > n})
    IN  (before + 1) \div SeqSpace # after \div SeqSpace

\* A duplicate of the packet with the largest sequence number is taken for one that
\* comes a whole sequence space too early.
DuplicateAtWrap(p) ==
    received[p] > Cardinality(got[p]) /\ \E n \in got[p] : (n + 1) % SeqSpace = 0

\* A whole sequence space of packets is missing in a row, and the number that comes
\* next says nothing about it.
SpaceLost(p) ==
    \E a, b \in got[p] : b - a > SeqSpace /\ \A g \in got[p] : g <= a \/ g >= b

\* On a path that keeps packets in order, with or without duplicates, the losses
\* counted are exactly the packets missing between two that arrived; only a gap in
\* which the sequence number wraps around is not counted.  Whatever the network does
\* to the order, a packet that was lost after the first one that arrived and before
\* the latest one is counted (some that were only late are counted too), as long as
\* the sequence number has not wrapped around.
LossCounted ==
    \A p \in Peers :
        /\ test.in_order /\ ~DuplicateAtWrap(p) /\ ~SpaceLost(p) =>
             Lost(p) = Cardinality({n \in 0 .. seq[Other(p)] :
                                      /\ n \notin got[p]
                                      /\ \E a, b \in got[p] : a < n /\ n < b
                                      /\ ~WrapsInGap(got[p], n)})
        /\ seq[Other(p)] <= SeqSpace /\ got[p] # {} =>
             Lost(p) >= Cardinality(first[p] .. Max(got[p]) \ got[p])

\* The bytes of the messages a peer has sent.
Reported(p) == SumOf([i \in DOMAIN sent[p] |-> sent[p][i].bytes])

\* No interval had more bytes than the u32 of its report can hold.
ReportsFit(p) == \A i \in DOMAIN sent[p] : sent[p][i].counted < U32

\* Every packet received is in one interval, and once: recorded in the totals, about
\* to be, or in the current interval; the only interval that is never recorded is the
\* one a server could not report.  As long as the control connection stands, and no
\* report had more to say than fits it, what the reports of a peer that receives say
\* adds up to what it received, but for what it has not reported yet; a server that
\* only sends reports that instead.
IntervalsExact ==
    \A p \in Peers :
        /\ total_rx_bytes[p] + held[p].rx + rx_bytes[p] = received[p]
        /\ held[p] # Nothing => pc[p] = "send" \/ (p = "server" /\ broken)
        /\ ~broken /\ ReportsFit(p) =>
             CASE Receives(p) -> Reported(p) + held[p].rx + rx_bytes[p] = received[p]
               [] ~Receives(p) /\ p = "server" ->
                    Reported(p) + held[p].tx + tx_bytes[p] = seq[p]
               [] OTHER -> Reported(p) = 0

\* What a peer acted on is what the other one said.  Nothing is promised of a load
\* of 0, which deserialize does not read back.
SameStatus(acted_on, said) ==
    /\ acted_on.seq = said.seq /\ acted_on.bytes = said.bytes
    /\ said.cpu # 0 => acted_on.cpu = said.cpu

\* As long as the words that cancelled reads took make up whole messages, what a
\* peer acts on is the next message the other one sent after those it has acted on
\* or taken that way.  Otherwise it is out of step with the stream for good: it takes
\* the word with the CPU load, or the sequence number, for the bytes received, and
\* the load it shows is still a percentage.
StatusFaithful ==
    \A p \in Peers : remote_cpu[p] \in 0 .. 100 /\ (acted[p].at # None =>
        LET nth  == acted[p].nth + acted[p].at \div 3
            theirs == sent[Other(p)]
        IN  CASE acted[p].at % 3 = 0 -> SameStatus(acted[p].msg, theirs[nth])
              [] acted[p].at % 3 = 1 ->
                   acted[p].msg.bytes = CpuWord(theirs[nth + 1].cpu)
              [] OTHER ->
                   acted[p].msg.bytes = theirs[nth + 1].seq)

=============================================================================
