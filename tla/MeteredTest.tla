---------------------------- MODULE MeteredTest ----------------------------
(***************************************************************************)
(* What a bandwidth test promises to whoever started it.  It begins with a *)
(* byte budget, moves bytes until somebody stops it and a little longer,   *)
(* ends, and then reports a summary, the bytes sent and the bytes          *)
(* received, which claims no byte that did not move.  If a single task     *)
(* spends the budget, the budget is kept.                                  *)
(*                                                                         *)
(* TransferTest, the tasks of a test, implements this specification.       *)
(***************************************************************************)
EXTENDS Integers

CONSTANT U64Max     \* u64::MAX: no budget at all

VARIABLES
    phase,      \* "running", "stopping" or "ended"
    budget,     \* bytes the test may move
    alone,      \* a single task spends the budget
    tx,         \* bytes moved
    rx,
    summary     \* bytes sent and received, as reported at the end

vars == <<phase, budget, alone, tx, rx, summary>>

Init ==
    /\ phase = "running"
    /\ budget \in 0 .. U64Max
    /\ alone \in BOOLEAN
    /\ tx = 0
    /\ rx = 0
    /\ summary = <<0, 0>>

Move ==
    /\ phase \in {"running", "stopping"}
    /\ tx' >= tx
    /\ rx' >= rx
    /\ alone /\ budget # U64Max => tx' + rx' <= budget
    /\ UNCHANGED <<phase, budget, alone, summary>>

Stop ==
    /\ phase = "running"
    /\ phase' = "stopping"
    /\ UNCHANGED <<budget, alone, tx, rx, summary>>

End ==
    /\ phase = "stopping"
    /\ phase' = "ended"
    /\ summary' \in (0 .. tx) \X (0 .. rx)
    /\ UNCHANGED <<budget, alone, tx, rx>>

Next == Move \/ Stop \/ End

\* Whoever stops a test may wait for its end.
Ends == phase = "stopping" ~> phase = "ended"

Spec == Init /\ [][Next]_vars /\ Ends

=============================================================================
