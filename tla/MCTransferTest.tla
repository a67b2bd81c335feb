--------------------------- MODULE MCTransferTest ---------------------------
(* Instances of TransferTest for TLC. *)
EXTENDS TransferTest

CONSTANTS s1, s2

Command(p, d, m, n) ==
    [proto |-> p, direction |-> d, multi |-> m, tx_size |-> n]

AllDirections == {"RX", "TX", "BOTH"}

\* One connection; a packet of size 2 exceeds a budget of 1, and the UDP packet of
\* size 0 has no room for a sequence number.
SingleCommands ==
    {Command("TCP", d, FALSE, 1) : d \in AllDirections}
      \cup {Command("TCP", "TX", FALSE, 2)}

UdpCommands ==
    {Command("UDP", d, FALSE, 1) : d \in AllDirections}
      \cup {Command("UDP", "TX", FALSE, 0)}

\* Several streams, one direction: a test in both directions has the tasks of
\* both.
MultiCommands == {Command("TCP", d, TRUE, 1) : d \in {"RX", "TX"}}

BothCommand == {Command("TCP", "BOTH", FALSE, 1)}

AllCommands == SingleCommands \cup UdpCommands \cup MultiCommands

=============================================================================
