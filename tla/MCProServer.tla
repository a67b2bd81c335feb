---------------------------- MODULE MCProServer ----------------------------
(* Instances of ProServer for TLC. *)
EXTENDS ProServer

CONSTANTS c1, c2, c3, a, b, u, t1, t2

Window(d, w, m) ==
    [x \in Windows |-> IF x = "daily" THEN d ELSE IF x = "weekly" THEN w ELSE m]

Free == Window(0, 0, 0)

\* The limits of user and address of the command line in turn, with or without
\* a connection limit.
TwoConnections == {ManagerLimits(Free, Free, Free, Free, 2)}

EachLimit ==
    { ManagerLimits(Window(2, 0, 3), Free, Free, Free, 0),
      ManagerLimits(Free, Window(0, 3, 0), Window(1, 0, 0), Window(0, 0, 2), 2) }

\* The user has no limits of its own, or a weekly one.
OwnDefault == [x \in Users |-> [w \in {"daily", "weekly"} |-> 0]]
OwnWeekly == [x \in Users |-> [w \in {"daily", "weekly"} |->
                                IF w = "weekly" THEN 3 ELSE 0]]

NothingEarlier == Free
OneEarlier == Window(0, 1, 1)

-----------------------------------------------------------------------------
(* Two instances in one run: handlers and sessions of three connections      *)
(* under a connection limit, with tests that move nothing; and tests of two  *)
(* connections that move bytes under every kind of limit.                    *)

Scenarios == TwoConnections \cup EachLimit

InOrder ==
    /\ pc[c1] = "idle" => pc[c2] = "idle"
    /\ pc[c2] = "idle" => pc[c3] = "idle"
    /\ ip[c1] # b

Handling ==
    /\ ~unwritten
    /\ \A c \in Conns : test[c] # NoTest =>
         /\ Bytes(c) = 0 /\ ~test[c].alone
         /\ test[c].reason \in {"none", "ClientDisconnected"}

Metering ==
    /\ pc[c3] = "idle"
    /\ \A c \in Conns : count[c] = 0

\* Connections are accepted in a fixed order and the first one comes from a:
\* neither the connections nor the addresses differ otherwise.
Bounded ==
    InOrder /\ IF quota \in TwoConnections THEN Handling ELSE Metering

MCSpec == Init /\ [][Next /\ Bounded']_vars /\ Fairness

=============================================================================
