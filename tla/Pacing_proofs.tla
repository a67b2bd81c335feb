--------------------------- MODULE Pacing_proofs ---------------------------
(***************************************************************************)
(* Proofs about Pacing, for every clock, packet size and speed: types, the *)
(* rate and the burst of a sender, and what its speed follows.             *)
(***************************************************************************)
EXTENDS Pacing, TLAPS

-----------------------------------------------------------------------------
(* The operators *)

\* calc_send_interval gives 0 (None) exactly for speed 0, and at most a second.
LEMMA IntervalBounds ==
    ASSUME NEW s \in 0 .. U32 - 1
    PROVE  /\ calc_send_interval(s) \in 0 .. Second
           /\ s # 0 => calc_send_interval(s) # Unlimited
  <1>1. CASE s = 0
    BY <1>1, PacingAssumption DEF calc_send_interval, Unlimited
  <1>2. CASE s # 0
    <2> DEFINE bits == Second * TxSize * 8
               iv == bits \div s
    <2>1. bits \in Nat
      BY PacingAssumption
    <2>2. iv \in Nat
      <3> HIDE DEF bits
      <3> QED BY <1>2, <2>1, PacingAssumption
    <2>3. Second \div 2 \in Nat /\ Second \div 2 <= Second /\ Second >= 1
      BY PacingAssumption
    <2>4. calc_send_interval(s) =
            IF iv > Second \div 2 THEN Second ELSE IF iv < 1 THEN 1 ELSE iv
      BY <1>2 DEF calc_send_interval
    <2> HIDE DEF iv
    <2> QED BY <2>2, <2>3, <2>4, PacingAssumption DEF Unlimited
  <1> QED BY <1>1, <1>2

\* From a packet a second up, the interval is at most a tick shorter than the speed
\* asks for.
LEMMA IntervalCoversPacket ==
    ASSUME NEW s \in 0 .. U32 - 1, TxSize * 8 <= s
    PROVE  /\ calc_send_interval(s) # Unlimited
           /\ Second * TxSize * 8 <= s * (calc_send_interval(s) + 1)
  <1> DEFINE packet == TxSize * 8
             bits == Second * TxSize * 8
             iv == bits \div s
  <1>1. packet \in Nat /\ packet > 0 /\ s \in Nat /\ s >= packet
    BY PacingAssumption
  <1>2. bits = Second * packet /\ bits \in Nat
    BY PacingAssumption
  <1>3. calc_send_interval(s) # Unlimited
    <2>1. s # 0
      <3> HIDE DEF packet
      <3> QED BY <1>1
    <2> QED BY <2>1, IntervalBounds
  <1>4. iv \in Nat /\ bits < s * (iv + 1)
    <2> HIDE DEF bits, packet
    <2> QED BY <1>1, <1>2
  <1>5. bits <= s * Second
    <2> HIDE DEF bits, packet
    <2> QED BY <1>1, <1>2, PacingAssumption
  <1>6. calc_send_interval(s) =
          IF iv > Second \div 2 THEN Second ELSE IF iv < 1 THEN 1 ELSE iv
    <2>1. s # 0
      <3> HIDE DEF packet
      <3> QED BY <1>1
    <2> QED BY <2>1 DEF calc_send_interval
  <1>7. s * (Second + 1) = s * Second + s
    BY <1>1, PacingAssumption
  <1>8. bits <= s * (calc_send_interval(s) + 1)
    <2>1. CASE iv > Second \div 2
      <3>1. calc_send_interval(s) = Second
        BY <1>6, <2>1
      <3>2. s * Second \in Nat /\ s \in Nat
        BY <1>1, PacingAssumption
      <3>3. s * Second <= s * (Second + 1)
        BY <1>7, <3>2
      <3> HIDE DEF bits, packet, iv
      <3> QED BY <1>2, <1>5, <1>7, <3>1, <3>2, <3>3
    <2>2. CASE ~(iv > Second \div 2) /\ iv < 1
      <3>1. iv = 0
        <4> HIDE DEF iv
        <4> QED BY <1>4, <2>2
      <3>2. bits < s
        <4> HIDE DEF iv, bits, packet
        <4> QED BY <1>1, <1>4, <3>1
      <3>3. s * (1 + 1) = s + s
        BY <1>1
      <3> HIDE DEF iv, bits, packet
      <3> QED BY <1>1, <1>2, <1>6, <2>2, <3>2, <3>3
    <2>3. CASE ~(iv > Second \div 2) /\ ~(iv < 1)
      <3> HIDE DEF iv, bits, packet
      <3> QED BY <1>1, <1>2, <1>4, <1>6, <2>3
    <2> QED BY <2>1, <2>2, <2>3
  <1> QED BY <1>3, <1>8

\* n packets of b bits, a packet in every i ticks and b bits in every i + 1 at speed
\* s, are within speed s for the time t and a tick for each of them.
LEMMA PacketsInTime ==
    ASSUME NEW n \in Nat, NEW b \in Nat, NEW i \in Nat, NEW s \in Nat, NEW t \in Nat,
           n * i <= t, b <= s * (i + 1)
    PROVE  n * b <= s * (t + n + 1)
  <1> DEFINE ticks == n * i + n
  <1>1. n * (i + 1) = ticks /\ ticks \in Nat
    OBVIOUS
  <1>2. n * b <= n * (s * (i + 1))
    <2> DEFINE c == s * (i + 1)
    <2>1. c \in Nat /\ b <= c
      OBVIOUS
    <2> HIDE DEF c
    <2>2. n * b <= n * c
      BY <2>1
    <2> QED BY <2>2 DEF c
  <1>3. n * (s * (i + 1)) = s * (n * (i + 1))
    OBVIOUS
  <1>4. ticks <= t + n + 1
    <2> DEFINE p == n * i
    <2>1. p \in Nat /\ p <= t
      OBVIOUS
    <2> HIDE DEF p
    <2>2. p + n <= t + n + 1
      BY <2>1
    <2> QED BY <2>2 DEF p
  <1>5. s * ticks <= s * (t + n + 1)
    <2> HIDE DEF ticks
    <2> DEFINE u == t + n + 1
    <2>1. u \in Nat /\ ticks <= u
      BY <1>4
    <2> HIDE DEF u
    <2>2. s * ticks <= s * u
      BY <1>1, <2>1
    <2> QED BY <2>2 DEF u
  <1>6. n * (s * (i + 1)) = s * ticks
    BY <1>1, <1>3
  <1>7. n * b \in Int /\ s * ticks \in Int /\ s * (t + n + 1) \in Int
    <2> HIDE DEF ticks
    <2> QED BY <1>1
  <1> HIDE DEF ticks
  <1> QED BY <1>2, <1>5, <1>6, <1>7

\* The new speed is one and a half times the reported bits, modulo 2^32.
LEMMA SpeedBounds ==
    ASSUME NEW bytes \in Nat
    PROVE  /\ NewSpeed(bytes) \in 0 .. U32 - 1
           /\ NewSpeed(bytes) = (12 * bytes) % U32
  <1>1. (bytes * 8 * 3) \div 2 = 12 * bytes
    OBVIOUS
  <1>2. NewSpeed(bytes) = (12 * bytes) % U32
    BY <1>1 DEF NewSpeed
  <1> DEFINE bits == 12 * bytes
  <1>3. bits \in Nat
    OBVIOUS
  <1> HIDE DEF bits
  <1>4. bits % U32 \in 0 .. U32 - 1
    BY <1>3, PacingAssumption
  <1> QED BY <1>2, <1>4 DEF bits

\* advance_next_send moves on by at least an interval, and by more only to now.
LEMMA AdvanceBounds ==
    ASSUME NEW next \in Nat, NEW iv \in Nat, NEW t \in Nat, next <= t
    PROVE  /\ advance_next_send(next, iv, t) \in Nat
           /\ advance_next_send(next, iv, t) >= next + iv
           /\ advance_next_send(next, iv, t) + iv >= t
           /\ advance_next_send(next, iv, t) <= t + iv
  BY DEF advance_next_send

\* A bound on what is sent moves with next_send.
LEMMA Shift ==
    ASSUME NEW a \in Int, NEW i \in Int, NEW n \in Int, NEW m \in Int, NEW o \in Int,
           a <= n - o, m >= n + i
    PROVE  a + i <= m - o
  OBVIOUS

-----------------------------------------------------------------------------
(* Types *)

LEMMA InitTypes == Init => TypeOK
  <1> SUFFICES ASSUME Init PROVE TypeOK
    OBVIOUS
  <1>1. StartSpeed(cmd, side) \in 0 .. U32 - 1
    BY PacingAssumption
       DEF Init, StartSpeed, local_tx_speed, remote_tx_speed, CommandType
  <1>2. interval \in 0 .. Second
    BY <1>1, IntervalBounds DEF Init
  <1>5. effective_size \in {TxSize, LargeWrite}
    BY DEF Init, WriteSize
  <1>3. 0 \in 0 .. U32 - 1 /\ 0 \in 0 .. MaxTime
    BY PacingAssumption
  <1>4. applied \in 0 .. U32 - 1
    BY <1>1 DEF Init
  <1>6. report \in Nat \X Nat
    BY DEF Init
  <1>7. /\ cmd \in CommandType /\ side \in {"client", "server"}
        /\ now \in 0 .. MaxTime /\ origin \in 0 .. MaxTime
        /\ tx_speed \in 0 .. U32 - 1 /\ speed \in 0 .. U32 - 1
    BY <1>3 DEF Init
  <1>8. /\ pc = "send" /\ store = "none" /\ tx_speed_changed = FALSE
        /\ next_send = 0 /\ wake = 0 /\ sends = -1 /\ burst = 0 /\ late = 0
    BY DEF Init
  <1>9. /\ pc \in {"send", "check", "clear", "load", "pace", "sleep"}
        /\ store \in {"none", "speed", "flag"} /\ tx_speed_changed \in BOOLEAN
    BY <1>8
  <1>10. next_send \in Nat /\ wake \in Nat /\ burst \in Nat /\ late \in Int
    BY <1>8
  <1>11. sends \in Nat \cup {-1}
    BY <1>8
  <1> QED BY <1>2, <1>4, <1>5, <1>6, <1>7, <1>9, <1>10, <1>11 DEF TypeOK

LEMMA NextTypes == TypeOK /\ [Next]_vars => TypeOK'
  <1> SUFFICES ASSUME TypeOK, [Next]_vars PROVE TypeOK'
    OBVIOUS
  <1> USE PacingAssumption
  <1>1. CASE Tick
    BY <1>1 DEF TypeOK, Tick, testVars, feedbackVars
  <1>2. CASE Send
    BY <1>2 DEF TypeOK, Send, testVars, Counted, Unlimited, feedbackVars
  <1>3. CASE SendFails
    BY <1>3 DEF TypeOK, SendFails, testVars, feedbackVars
  <1>4. CASE CheckFlag
    BY <1>4 DEF TypeOK, CheckFlag, testVars, feedbackVars
  <1>5. CASE ClearFlag
    BY <1>5 DEF TypeOK, ClearFlag, testVars
  <1>6. CASE LoadSpeed
    <2>1. interval' \in 0 .. Second
      BY <1>6, IntervalBounds DEF TypeOK, LoadSpeed, testVars
    <2> QED BY <1>6, <2>1 DEF TypeOK, LoadSpeed, testVars, feedbackVars
  <1>7. CASE Pace
    <2>1. next_send' \in Nat
      BY <1>7 DEF TypeOK, Pace, testVars, advance_next_send
    <2> QED BY <1>7, <2>1 DEF TypeOK, Pace, testVars, feedbackVars
  <1>8. CASE Wake
    BY <1>8 DEF TypeOK, Wake, testVars, feedbackVars
  <1>9. ASSUME NEW bytes \in Reports, NEW first \in {"speed", "flag"},
               Feedback(bytes, first)
        PROVE  TypeOK'
    <2>1. bytes \in Nat
      OBVIOUS
    <2>2. NewSpeed(bytes) \in 0 .. U32 - 1
      BY <2>1, SpeedBounds
    <2> QED BY <1>9, <2>1, <2>2 DEF TypeOK, Feedback, testVars, senderVars
  <1>10. CASE FeedbackSeen
    BY <1>10 DEF TypeOK, FeedbackSeen, testVars, senderVars
  <1>11. CASE Terminated \/ UNCHANGED vars
    BY <1>11 DEF TypeOK, Terminated, vars, testVars, senderVars, feedbackVars
  <1> QED
    BY <1>1, <1>2, <1>3, <1>4, <1>5, <1>6, <1>7, <1>8, <1>9, <1>10, <1>11
       DEF Next, Sender

\* Every variable keeps its type: the interval of a paced sender is at most a second.
THEOREM TypeCorrect == Spec => []TypeOK
  BY InitTypes, NextTypes, PTL DEF Spec

-----------------------------------------------------------------------------
(* The rate *)

\* The sender is past its last packet and has not scheduled the next one.
Unscheduled == pc \in {"check", "clear", "load", "pace"}

\* The packets sent, and the next one once it is scheduled, are within the time to
\* next_send; next_send is over but for a sender that sleeps, which is at most an
\* interval away from it.  The interval is that of the speed the sender follows.
RateInv ==
    /\ interval # Unlimited =>
         IF Unscheduled THEN sends * interval <= next_send - origin
                        ELSE sends * interval + interval <= next_send - origin
    /\ interval = calc_send_interval(applied)
    /\ origin <= now
    /\ pc # "sleep" => next_send <= now
    /\ pc = "sleep" => next_send <= wake /\ next_send <= now + interval

LEMMA InitRate == Init => RateInv
  <1> SUFFICES ASSUME Init PROVE RateInv
    OBVIOUS
  <1>1. interval \in Int
    BY InitTypes DEF TypeOK
  <1> QED BY <1>1 DEF Init, RateInv, Unscheduled

LEMMA NextRate == TypeOK /\ RateInv /\ [Next]_vars => RateInv'
  <1> SUFFICES ASSUME TypeOK, RateInv, [Next]_vars PROVE RateInv'
    OBVIOUS
  <1> USE PacingAssumption
  <1> DEFINE sofar == sends * interval
  <1>0. /\ sofar \in Int
        /\ interval \in Nat /\ sends \in Int /\ now \in Nat /\ next_send \in Nat
        /\ wake \in Nat /\ origin \in Nat
    BY DEF TypeOK
  <1>1. CASE Tick
    <2> HIDE DEF sofar
    <2>1. sofar' = sofar
      BY <1>1 DEF Tick, sofar
    <2> QED BY <1>0, <1>1, <2>1 DEF RateInv, Unscheduled, Tick, sofar
  <1>2. CASE Send
    <2>1. interval # Unlimited => sofar' = sofar + interval
      BY <1>0, <1>2 DEF Send, Counted
    <2>2. pc = "send" /\ pc' = "check" /\ UNCHANGED <<interval, next_send, origin, applied, now>>
      BY <1>2 DEF Send
    <2> HIDE DEF sofar
    <2> QED BY <1>0, <2>1, <2>2 DEF RateInv, Unscheduled, sofar
  <1>3. CASE SendFails
    BY <1>0, <1>3 DEF RateInv, Unscheduled, SendFails
  <1>4. CASE CheckFlag
    BY <1>0, <1>4 DEF RateInv, Unscheduled, CheckFlag
  <1>5. CASE ClearFlag
    BY <1>0, <1>5 DEF RateInv, Unscheduled, ClearFlag
  <1>6. CASE LoadSpeed
    <2>1. interval' \in Nat
      BY <1>6, NextTypes DEF TypeOK
    <2>2. sofar' = 0
      BY <1>6, <2>1 DEF LoadSpeed
    <2>3. /\ pc' = "pace" /\ next_send' = now /\ origin' = now /\ now' = now
          /\ interval' = calc_send_interval(applied')
      BY <1>6 DEF LoadSpeed
    <2> HIDE DEF sofar
    <2> QED BY <1>0, <2>1, <2>2, <2>3 DEF RateInv, Unscheduled, sofar
  <1>7. CASE Pace
    <2>1. pc = "pace" /\ next_send <= now /\ UNCHANGED <<interval, sends, origin, applied, now>>
      BY <1>7 DEF Pace, RateInv
    <2>2. CASE interval = Unlimited
      BY <1>0, <1>7, <2>1, <2>2 DEF Pace, RateInv
    <2>3. CASE interval # Unlimited
      <3>1. /\ next_send' = advance_next_send(next_send, interval, now)
            /\ \/ pc' = "sleep" /\ wake' = next_send' /\ next_send' > now
               \/ pc' = "send" /\ ~(next_send' > now)
        BY <1>7, <2>3 DEF Pace
      <3>2. /\ next_send' \in Nat
            /\ next_send' >= next_send + interval
            /\ next_send' <= now + interval
        BY <1>0, <2>1, <3>1, AdvanceBounds
      <3>3. sofar <= next_send - origin
        BY <2>1, <2>3 DEF RateInv, Unscheduled
      <3> HIDE DEF sofar
      <3>4. interval \in Int /\ next_send \in Int /\ origin \in Int /\ next_send' \in Int
        BY <1>0, <3>2
      <3>5. sofar + interval <= next_send' - origin
        BY <1>0, <3>2, <3>3, <3>4, Shift
      <3>6. sends' * interval' + interval' <= next_send' - origin'
        BY <2>1, <3>5 DEF sofar
      <3> QED BY <1>0, <2>1, <3>1, <3>2, <3>6 DEF RateInv, Unscheduled
    <2> QED BY <2>2, <2>3
  <1>8. CASE Wake
    <2>1. pc = "sleep" /\ pc' = "send" /\ now >= wake
          /\ UNCHANGED <<interval, sends, next_send, origin, applied, now>>
      BY <1>8 DEF Wake
    <2> QED BY <1>0, <2>1 DEF RateInv, Unscheduled
  <1>9. CASE UNCHANGED <<now, senderVars>>
    BY <1>9 DEF RateInv, Unscheduled, senderVars
  <1> QED
    BY <1>1, <1>2, <1>3, <1>4, <1>5, <1>6, <1>7, <1>8, <1>9
       DEF Next, Sender, Feedback, FeedbackSeen, Terminated, vars

LEMMA RateFromInv == TypeOK /\ RateInv => RateKept
  <1> SUFFICES ASSUME TypeOK, RateInv PROVE RateKept
    OBVIOUS
  <1> DEFINE sofar == sends * interval
  <1>1. /\ sofar \in Int
        /\ interval \in Nat /\ now \in Nat /\ next_send \in Nat /\ origin \in Nat
        /\ applied \in Nat /\ applied \in 0 .. U32 - 1 /\ sends \in Nat \cup {-1}
    BY PacingAssumption DEF TypeOK
  <1>2. ASSUME interval # Unlimited PROVE sends * interval <= now - origin
    <2>1. \/ sofar <= next_send - origin /\ next_send <= now
          \/ sofar + interval <= next_send - origin /\ next_send <= now
          \/ sofar + interval <= next_send - origin /\ next_send <= now + interval
      BY <1>2 DEF RateInv, Unscheduled
    <2> HIDE DEF sofar
    <2>2. sofar <= now - origin
      BY <1>1, <2>1
    <2> QED BY <2>2 DEF sofar
  <1>3. ASSUME effective_size = TxSize, TxSize * 8 <= applied
        PROVE  sends * effective_size * 8 * Second <= applied * (now - origin + sends + 1)
    <2> DEFINE bits == Second * TxSize * 8
               elapsed == now - origin
    <2>1. interval = calc_send_interval(applied) /\ elapsed \in Nat
      BY <1>1 DEF RateInv
    <2>2. interval # Unlimited /\ bits <= applied * (interval + 1)
      BY <1>1, <1>3, <2>1, IntervalCoversPacket
    <2>3. bits \in Nat
      BY PacingAssumption
    <2>4. sends * effective_size * 8 * Second = sends * bits
      BY <1>1, <1>3, PacingAssumption
    <2>5. CASE sends = -1
      <3>1. sends * bits = -bits
        <4> HIDE DEF bits
        <4> QED BY <2>3, <2>5
      <3>2. now - origin + sends + 1 = elapsed
        BY <1>1, <2>5
      <3>3. applied * elapsed \in Nat
        <4> HIDE DEF elapsed
        <4> QED BY <1>1, <2>1
      <3>4. -bits <= applied * elapsed
        <4> HIDE DEF bits
        <4> QED BY <2>3, <3>3
      <3> QED BY <2>4, <3>1, <3>2, <3>4
    <2>6. CASE sends \in Nat
      <3>1. sends * interval <= elapsed
        BY <1>2, <2>2
      <3>2. sends * bits <= applied * (elapsed + sends + 1)
        <4> HIDE DEF bits, elapsed
        <4> QED BY <1>1, <2>1, <2>2, <2>3, <2>6, <3>1, PacketsInTime
      <3> QED BY <2>4, <3>2
    <2> QED BY <1>1, <2>5, <2>6
  <1> QED BY <1>2, <1>3 DEF RateKept

\* A paced sender of any of the four loops is never ahead of its schedule, and its
\* bits are within the speed it follows but for a tick of rounding per packet,
\* whatever delays it, whenever its speed is changed.
THEOREM RateKeptHolds == Spec => []RateKept
  BY InitTypes, NextTypes, InitRate, NextRate, RateFromInv, PTL DEF Spec

-----------------------------------------------------------------------------
(* The burst *)

\* Where the schedule is after the first and the second packet of this instant: an
\* interval on for each, unless the first was so late that it was reset.  The third
\* is sent only if the two intervals make up for the delay exactly; after it the
\* sender sleeps, and the clock has to advance.
BurstInv ==
    /\ burst \in 0 .. 3
    /\ burst > 0 => interval # Unlimited
    /\ burst = 1 => IF Unscheduled THEN next_send = now - late
                    ELSE \/ next_send = now - late + interval /\ late <= 2 * interval
                         \/ next_send = now
    /\ burst = 2 => IF Unscheduled
                    THEN \/ next_send = now - late + interval /\ late <= 2 * interval
                         \/ next_send = now
                    ELSE \/ next_send = now - late + 2 * interval /\ late <= 2 * interval
                         \/ next_send = now + interval /\ pc = "sleep" /\ wake > now
    /\ burst = 2 /\ ~Unscheduled /\ next_send > now => pc = "sleep" /\ wake > now
    /\ burst = 3 => late = 2 * interval
    /\ burst = 3 => IF Unscheduled THEN next_send = now ELSE pc = "sleep" /\ wake > now

LEMMA InitBurst == Init => BurstInv
  BY DEF Init, BurstInv, Unscheduled

LEMMA NextBurst == TypeOK /\ RateInv /\ BurstInv /\ [Next]_vars => BurstInv'
  <1> SUFFICES ASSUME TypeOK, RateInv, BurstInv, [Next]_vars PROVE BurstInv'
    OBVIOUS
  <1>0. /\ interval \in Nat /\ now \in Nat /\ next_send \in Nat /\ wake \in Nat
        /\ pc \in {"send", "check", "clear", "load", "pace", "sleep"}
        /\ burst \in 0 .. 3 /\ late \in Int
    BY DEF TypeOK, BurstInv
  <1>1. CASE Tick
    BY <1>0, <1>1 DEF BurstInv, Tick
  <1>2. CASE Send
    <2>1. /\ pc = "send" /\ pc' = "check"
          /\ UNCHANGED <<interval, next_send, now>>
          /\ burst' = IF interval = Unlimited THEN burst ELSE burst + 1
          /\ late' = IF burst = 0 /\ burst' = 1 THEN now - next_send ELSE late
          /\ next_send <= now
      BY <1>2 DEF Send, Counted, RateInv
    <2>2. burst \in 0 .. 2
      BY <1>0, <2>1 DEF BurstInv, Unscheduled
    <2> QED BY <1>0, <2>1, <2>2 DEF BurstInv, Unscheduled
  <1>3. CASE SendFails
    <2>1. pc = "send" /\ pc' = "sleep" /\ UNCHANGED <<interval, next_send, now, burst, late>>
      BY <1>3 DEF SendFails
    <2> QED BY <1>0, <2>1 DEF BurstInv, Unscheduled
  <1>4. CASE CheckFlag
    BY <1>0, <1>4 DEF BurstInv, Unscheduled, CheckFlag
  <1>5. CASE ClearFlag
    BY <1>0, <1>5 DEF BurstInv, Unscheduled, ClearFlag
  <1>6. CASE LoadSpeed
    BY <1>0, <1>6 DEF BurstInv, LoadSpeed
  <1>7. CASE Pace
    <2>1. pc = "pace" /\ next_send <= now /\ UNCHANGED <<interval, burst, late, now>>
      BY <1>7 DEF Pace, RateInv
    <2>2. CASE interval = Unlimited
      BY <1>0, <2>1, <2>2 DEF BurstInv
    <2>3. CASE interval # Unlimited
      <3>1. /\ next_send' = advance_next_send(next_send, interval, now)
            /\ \/ pc' = "sleep" /\ wake' = next_send' /\ next_send' > now
               \/ pc' = "send" /\ ~(next_send' > now)
        BY <1>7, <2>3 DEF Pace
      <3>2. \/ next_send' = now /\ next_send + interval + interval < now
            \/ next_send' = next_send + interval /\ next_send + interval + interval >= now
        BY <1>0, <3>1 DEF advance_next_send
      <3>3. interval >= 1
        BY <1>0, <2>3 DEF Unlimited
      <3> QED BY <1>0, <2>1, <2>3, <3>1, <3>2, <3>3 DEF BurstInv, Unscheduled
    <2> QED BY <2>2, <2>3
  <1>8. CASE Wake
    <2>1. pc = "sleep" /\ pc' = "send" /\ now >= wake
          /\ UNCHANGED <<interval, next_send, now, burst, late>>
      BY <1>8 DEF Wake
    <2> QED BY <1>0, <2>1 DEF BurstInv, Unscheduled
  <1>9. CASE UNCHANGED <<now, senderVars>>
    BY <1>9 DEF BurstInv, Unscheduled, senderVars
  <1> QED
    BY <1>1, <1>2, <1>3, <1>4, <1>5, <1>6, <1>7, <1>8, <1>9
       DEF Next, Sender, Feedback, FeedbackSeen, Terminated, vars

\* A sender that was held up sends at most one packet more than the late one, two
\* only if it is exactly two intervals late.
THEOREM BurstBoundedHolds == Spec => []BurstBounded
  <1>1. BurstInv => BurstBounded
    BY DEF BurstInv, BurstBounded
  <1> QED
    BY <1>1, InitTypes, NextTypes, InitRate, NextRate, InitBurst, NextBurst, PTL
       DEF Spec

-----------------------------------------------------------------------------
(* The feedback *)

\* A report is on its way to the sender.
Pending == tx_speed_changed \/ store = "flag" \/ pc \in {"clear", "load"}

\* tx_speed is that of the last report, or of the one before while the store is not
\* visible; the sender follows one of the two unless a report is on its way.
ReportInv ==
    /\ report[1] \in Nat /\ report[2] \in Nat
    /\ store \in {"none", "speed", "flag"}
    /\ store # "none" => speed = NewSpeed(report[1])
    /\ tx_speed = NewSpeed(IF store = "speed" THEN report[2] ELSE report[1])
    /\ ~Pending /\ report[1] > 0 =>
         applied = NewSpeed(report[1]) \/ applied = NewSpeed(report[2])

LEMMA InitReport == Init => ReportInv
  <1>1. NewSpeed(0) = 0
    BY SpeedBounds, PacingAssumption
  <1> QED BY <1>1 DEF Init, ReportInv

LEMMA NextReport == ReportInv /\ [Next]_vars => ReportInv'
  <1> SUFFICES ASSUME ReportInv, [Next]_vars PROVE ReportInv'
    OBVIOUS
  <1>1. CASE Tick \/ Send \/ SendFails \/ Pace \/ Wake
    <2>1. /\ UNCHANGED <<feedbackVars, applied>>
          /\ pc' \notin {"clear", "load"} \/ pc' = pc
      BY <1>1 DEF Tick, Send, SendFails, Pace, Wake, feedbackVars
    <2>2. Pending' => Pending
      BY <2>1 DEF Pending, feedbackVars
    <2>3. pc \in {"clear", "load"} => pc' = pc
      BY <1>1 DEF Tick, Send, SendFails, Pace, Wake
    <2>4. Pending => Pending'
      BY <2>1, <2>3 DEF Pending, feedbackVars
    <2> QED BY <2>1, <2>2, <2>4 DEF ReportInv, feedbackVars
  <1>2. CASE CheckFlag
    BY <1>2 DEF ReportInv, Pending, CheckFlag, feedbackVars
  <1>3. CASE ClearFlag
    BY <1>3 DEF ReportInv, Pending, ClearFlag
  <1>4. CASE LoadSpeed
    BY <1>4 DEF ReportInv, Pending, LoadSpeed, feedbackVars
  <1>5. ASSUME NEW bytes \in Reports, NEW first \in {"speed", "flag"},
               Feedback(bytes, first)
        PROVE  ReportInv'
    <2>1. bytes \in Nat
      BY PacingAssumption
    <2>2. report' = <<bytes, report[1]>> /\ speed' = NewSpeed(bytes) /\ store = "none"
      BY <1>5 DEF Feedback
    <2>3. Pending'
      BY <1>5 DEF Feedback, Pending
    <2> QED BY <1>5, <2>1, <2>2, <2>3 DEF ReportInv, Feedback
  <1>6. CASE FeedbackSeen
    BY <1>6 DEF ReportInv, Pending, FeedbackSeen, senderVars
  <1>7. CASE Terminated \/ UNCHANGED vars
    BY <1>7 DEF ReportInv, Pending, Terminated, vars, senderVars, feedbackVars
  <1> QED
    BY <1>1, <1>2, <1>3, <1>4, <1>5, <1>6, <1>7 DEF Next, Sender

\* No report is lost between the status loop and the sender: once nothing is on its
\* way, the sender follows the last report or the one before it, if both fit a u32.
THEOREM SpeedFollowsReportHolds == Spec => []SpeedFollowsReport
  <1>1. ReportInv => SpeedFollowsReport
    <2> SUFFICES ASSUME ReportInv, Settled, report[1] > 0,
                        12 * report[1] < U32, 12 * report[2] < U32
                 PROVE  FollowsReport(report[1]) \/ FollowsReport(report[2])
      BY DEF SpeedFollowsReport
    <2>1. applied = NewSpeed(report[1]) \/ applied = NewSpeed(report[2])
      BY DEF ReportInv, Settled, Pending
    <2>2. report[1] \in Nat /\ report[2] \in Nat
      BY DEF ReportInv
    <2>3. \A n \in Nat : 12 * n < U32 => NewSpeed(n) = 12 * n
      <3> SUFFICES ASSUME NEW n \in Nat, 12 * n < U32 PROVE NewSpeed(n) = 12 * n
        OBVIOUS
      <3> DEFINE bits == 12 * n
      <3>1. bits \in Nat /\ NewSpeed(n) = bits % U32
        BY SpeedBounds
      <3> HIDE DEF bits
      <3>2. bits < U32 => bits % U32 = bits
        BY <3>1, PacingAssumption
      <3> QED BY <3>1, <3>2 DEF bits
    <2> QED BY <2>1, <2>2, <2>3 DEF FollowsReport
  <1> QED BY <1>1, InitReport, NextReport, PTL DEF Spec

=============================================================================
