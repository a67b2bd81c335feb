----------------------------- MODULE MCUdpLink ------------------------------
EXTENDS UdpLink

Test(dir, ordered, n, client, server, cpu) ==
    [direction |-> dir, in_order |-> ordered, probe |-> n > 1, times |-> cpu,
     packets |-> n, statuses |-> [p \in Peers |-> IF p = "client" THEN client ELSE server]]

\* An idle machine, a busy one, and one whose idle time grew by more than its total.
Idle == <<2, 2>>
Busy == <<4, 3>>
Wraps == <<2, 3>>

\* Many packets and one report by the receiver, on a path that keeps the order and on
\* one that does not; peers that send and receive; reports enough for cancelled reads
\* to add up to a whole message.
MCTests ==
    {Test("RX", TRUE, 4, 0, 1, {Busy}), Test("TX", FALSE, 4, 1, 0, {Busy}),
     Test("BOTH", TRUE, 1, 0, 1, {Idle, Wraps}),
     Test("TX", TRUE, 1, 1, 2, {Busy}), Test("TX", TRUE, 0, 2, 3, {Busy})}
=============================================================================
