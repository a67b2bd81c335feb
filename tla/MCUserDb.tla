------------------------------ MODULE MCUserDb ------------------------------
(* An instance of UserDb for TLC. *)
EXTENDS UserDb

\* A week of two days, a month of three: windows that open and close within the
\* days of the model.
MCSpan == [w \in Windows |-> IF w = "daily" THEN 0
                             ELSE IF w = "weekly" THEN 1 ELSE 2]

Window(d, w, m) ==
    [x \in Windows |-> IF x = "daily" THEN d ELSE IF x = "weekly" THEN w ELSE m]

MCLimits == ManagerLimits(Window(0, 0, 2), Window(0, 0, 0), Window(0, 0, 0),
                          Window(0, 0, 0), 0)

=============================================================================
