--------------------------- MODULE MCTcpSessions ---------------------------
(* Instances of TcpSessions for TLC. *)
EXTENDS TcpSessions, TLC

CONSTANTS c1, c2, c3, a, b, t1, t2

ConnSymmetry == Permutations(Conns)

=============================================================================
