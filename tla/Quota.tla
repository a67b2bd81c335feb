------------------------------- MODULE Quota -------------------------------
(***************************************************************************)
(* The admission checks and the byte budget of the pro server:             *)
(* src/src/server_pro/quota.rs.  Pure operators over                       *)
(*   q     the limits of the QuotaManager (0 means unlimited)              *)
(*   uq    the limits stored with a user (0 means "use the default")       *)
(*   used  bytes already recorded, per window                              *)
(* Inbound is what the client sent to the server.                          *)
(***************************************************************************)
EXTENDS Integers

CONSTANT U64Max     \* u64::MAX: no budget at all

ASSUME U64MaxAssumption == U64Max \in Nat \ {0}

Windows == {"daily", "weekly", "monthly"}
PerWindow == [Windows -> 0 .. U64Max]

QuotaType ==
    [default : PerWindow, ip : PerWindow, ip_in : PerWindow,
     ip_out : PerWindow, max_conn : Nat]

UserQuotaType == [{"daily", "weekly"} -> 0 .. U64Max]

\* main: a directional limit that is not given falls back to the combined one.
or_fallback(specific, combined) ==
    [w \in Windows |-> IF specific[w] > 0 THEN specific[w] ELSE combined[w]]

\* QuotaManager::new as main calls it with the limits of the command line.
ManagerLimits(default, addr, inbound, outbound, max_conn) ==
    [default |-> default, ip |-> addr, ip_in |-> or_fallback(inbound, addr),
     ip_out |-> or_fallback(outbound, addr), max_conn |-> max_conn]

\* A user's own daily or weekly limit comes before the default; a monthly one
\* is never consulted.
UserLimits(q, uq) ==
    [w \in Windows |-> IF w # "monthly" /\ uq[w] > 0 THEN uq[w]
                                                     ELSE q.default[w]]

Both(in, out) == [w \in Windows |-> in[w] + out[w]]

Exceeded(limit, used) == limit > 0 /\ used >= limit

\* The first window whose limit is used up, in the order of the code.
FirstExceeded(limits, used) ==
    IF Exceeded(limits["daily"], used["daily"]) THEN "daily"
    ELSE IF Exceeded(limits["weekly"], used["weekly"]) THEN "weekly"
    ELSE IF Exceeded(limits["monthly"], used["monthly"]) THEN "monthly"
    ELSE "ok"

check_user(q, uq, used) == FirstExceeded(UserLimits(q, uq), used)

TooManyConnections(q, current) == q.max_conn > 0 /\ current >= q.max_conn

\* check_ip for Direction::Both, the only direction the callers pass.
check_ip(q, current, in, out) ==
    IF TooManyConnections(q, current) THEN "connections"
    ELSE IF FirstExceeded(q.ip, Both(in, out)) # "ok"
           THEN FirstExceeded(q.ip, Both(in, out))
    ELSE IF FirstExceeded(q.ip_in, in) # "ok" THEN "inbound"
    ELSE IF FirstExceeded(q.ip_out, out) # "ok" THEN "outbound"
    ELSE "ok"

\* limit.saturating_sub(used)
SaturatingSub(limit, used) == IF used <= limit THEN limit - used ELSE 0

\* Mutant: the limit itself is left, whatever was used.
Cap_Unused(budget, limit, used) ==
    IF limit > 0 /\ limit < budget THEN limit ELSE budget

\* The closure "cap" of remaining_budget.
Cap(budget, limit, used) ==
    IF limit > 0 /\ SaturatingSub(limit, used) < budget
      THEN SaturatingSub(limit, used) ELSE budget

CapWindows(budget, limits, used) ==
    Cap(Cap(Cap(budget, limits["daily"], used["daily"]),
            limits["weekly"], used["weekly"]),
        limits["monthly"], used["monthly"])

remaining_budget(q, uq, used, in, out) ==
    CapWindows(
      CapWindows(
        CapWindows(
          CapWindows(U64Max, UserLimits(q, uq), used),
          q.ip, Both(in, out)),
        q.ip_in, in),
      q.ip_out, out)

=============================================================================
