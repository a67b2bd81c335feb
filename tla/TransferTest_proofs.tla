------------------------ MODULE TransferTest_proofs ------------------------
(* Proofs about TransferTest, for every set of streams, commands, budgets,  *)
(* packet sizes and every bound.                                           *)
EXTENDS TransferTest, Sums_proofs

\* The command of a test is one of the declared shape, so its packet size is a
\* number a u64 can hold.
LEMMA CommandShape ==
    ASSUME cmd \in Commands
    PROVE  /\ cmd.proto \in {"TCP", "UDP"}
           /\ cmd.direction \in {"RX", "TX", "BOTH"}
           /\ cmd.tx_size \in 0 .. U64Max
  BY TransferAssumption DEF CommandType

\* fetch_sub of u64 values yields a u64 value.
LEMMA WrappingSubType ==
    ASSUME NEW a \in 0 .. U64Max, NEW b \in 0 .. U64Max
    PROVE  WrappingSub(a, b) \in 0 .. U64Max
  BY TransferAssumption DEF WrappingSub

\* TypeOK holds initially.
LEMMA TypeInit == Init => TypeOK
  BY TransferAssumption DEF Init, TypeOK

\* Every step of a writer, a reader, the reporter or the enforcer keeps the
\* types.
LEMMA TypeStep == TypeOK /\ [Next]_vars => TypeOK'
  <1> SUFFICES ASSUME TypeOK, [Next]_vars PROVE TypeOK'
    OBVIOUS
  <1> USE DEF TypeOK, testVars, countVars, writerVars, readerVars, reporterVars
  <1>0. cmd.tx_size \in 0 .. U64Max
    BY CommandShape
  <1>w. ASSUME NEW s \in Streams, Writer(s) PROVE TypeOK'
    <2>1. CASE WriterExit(s)
      BY <2>1, <1>0 DEF WriterExit
    <2>2. CASE WriterSwap(s)
      BY <2>2, <1>0 DEF WriterSwap
    <2>3. CASE WriterStatusSent(s)
      BY <2>3, <1>0 DEF WriterStatusSent
    <2>4. CASE WriterStatusFailed(s)
      BY <2>4, <1>0 DEF WriterStatusFailed
    <2>5. CASE WriterProceed(s)
      BY <2>5, <1>0 DEF WriterProceed
    <2>6. CASE WriterSpend(s)
      BY <2>6, <1>0 DEF WriterSpend
    <2>7. CASE WriterSub(s)
      BY <2>7, <1>0, WrappingSubType DEF WriterSub
    <2>8. CASE WriterSent(s)
      BY <2>8, <1>0 DEF WriterSent
    <2>9. CASE WriterFailed(s)
      BY <2>9, <1>0 DEF WriterFailed
    <2>10. CASE WriterPanics(s)
      BY <2>10, <1>0 DEF WriterPanics
    <2> QED BY <1>w, <2>1, <2>2, <2>3, <2>4, <2>5, <2>6, <2>7, <2>8, <2>9, <2>10 DEF Writer
  <1>r. ASSUME NEW s \in Streams, Reader(s) PROVE TypeOK'
    <2>1. CASE ReaderExit(s)
      BY <2>1, TransferAssumption DEF ReaderExit
    <2>2. CASE ReaderProceed(s)
      BY <2>2, TransferAssumption DEF ReaderProceed
    <2>3. CASE ReaderData(s)
      BY <2>3, TransferAssumption DEF ReaderData
    <2>4. CASE ReaderClosed(s)
      BY <2>4, TransferAssumption DEF ReaderClosed
    <2>5. CASE ReaderIdle(s)
      BY <2>5, TransferAssumption DEF ReaderIdle
    <2>6. CASE ReaderSpend(s)
      BY <2>6, TransferAssumption DEF ReaderSpend
    <2>7. CASE ReaderSub(s)
      BY <2>7, WrappingSubType DEF ReaderSub
    <2>8. CASE ReaderCount(s)
      BY <2>8, TransferAssumption DEF ReaderCount
    <2> QED BY <1>r, <2>1, <2>2, <2>3, <2>4, <2>5, <2>6, <2>7, <2>8 DEF Reader
  <1>p. ASSUME Reporter PROVE TypeOK'
    <2>1. CASE ReporterExit
      BY <2>1 DEF ReporterExit
    <2>2. CASE ReportTick
      BY <2>2 DEF ReportTick
    <2>3. CASE BothTick
      BY <2>3 DEF BothTick
    <2>4. CASE StatusWait
      BY <2>4 DEF StatusWait
    <2>5. CASE StatusReceived
      BY <2>5 DEF StatusReceived
    <2>6. CASE StatusReadError
      BY <2>6 DEF StatusReadError
    <2>7. CASE StatusDue
      BY <2>7 DEF StatusDue
    <2>8. CASE StatusSent
      BY <2>8 DEF StatusSent
    <2>9. CASE StatusFailed
      BY <2>9 DEF StatusFailed
    <2>10. CASE Stop
      BY <2>10 DEF Stop
    <2>11. CASE Join
      BY <2>11 DEF Join
    <2> QED BY <1>p, <2>1, <2>2, <2>3, <2>4, <2>5, <2>6, <2>7, <2>8, <2>9, <2>10, <2>11 DEF Reporter
  <1>e. CASE EnforcerStop
    BY <1>e DEF EnforcerStop
  <1>u. CASE UNCHANGED vars
    BY <1>u DEF vars
  <1> QED BY <1>w, <1>r, <1>p, <1>e, <1>u DEF Next, Terminated

\* Type correctness of the running test, for every instance.
THEOREM TypeCorrect == Spec => []TypeOK
  BY TypeInit, TypeStep, PTL DEF Spec

-----------------------------------------------------------------------------
(* After running is cleared: a task that has moved a packet late is back at *)
(* the top of its loop or has left it.                                     *)

LateInv ==
    \A s \in Streams :
      /\ lateTx[s] <= 1
      /\ lateTx[s] # 0 => ~running /\ writer[s] \in {"head", "done"}
      /\ lateRx[s] <= 1
      /\ lateRx[s] # 0 => ~running /\ reader[s] \in {"head", "done"}

\* Nobody is late before the test starts.
LEMMA LateInit == Init => LateInv
  BY DEF Init, LateInv

\* Each step keeps LateInv: only WriterSent and ReaderCount add to the counts,
\* and both return to the top of a loop that running = FALSE leaves.
LEMMA LateStep == TypeOK /\ LateInv /\ [Next]_vars => LateInv'
  <1> SUFFICES ASSUME TypeOK, LateInv, [Next]_vars PROVE LateInv'
    OBVIOUS
  <1> USE DEF TypeOK, LateInv, testVars, countVars, writerVars, readerVars,
              reporterVars
  <1>w. ASSUME NEW s \in Streams, Writer(s) PROVE LateInv'
    <2>1. CASE WriterSent(s)
      BY <2>1 DEF WriterSent
    <2>2. CASE WriterStatusFailed(s) \/ WriterSpend(s) \/ WriterFailed(s)
      BY <2>2 DEF WriterStatusFailed, WriterSpend, WriterFailed
    <2>3. CASE WriterExit(s) \/ WriterSwap(s) \/ WriterStatusSent(s)
      BY <2>3 DEF WriterExit, WriterSwap, WriterStatusSent
    <2>4. CASE WriterProceed(s) \/ WriterSub(s) \/ WriterPanics(s)
      BY <2>4 DEF WriterProceed, WriterSub, WriterPanics
    <2> QED BY <1>w, <2>1, <2>2, <2>3, <2>4 DEF Writer
  <1>r. ASSUME NEW s \in Streams, Reader(s) PROVE LateInv'
    <2>1. CASE ReaderCount(s)
      BY <2>1 DEF ReaderCount
    <2>2. CASE ReaderClosed(s) \/ ReaderSpend(s)
      BY <2>2 DEF ReaderClosed, ReaderSpend
    <2>3. CASE ReaderExit(s) \/ ReaderProceed(s) \/ ReaderData(s)
      BY <2>3 DEF ReaderExit, ReaderProceed, ReaderData
    <2>4. CASE ReaderIdle(s) \/ ReaderSub(s)
      BY <2>4 DEF ReaderIdle, ReaderSub
    <2> QED BY <1>r, <2>1, <2>2, <2>3, <2>4 DEF Reader
  <1>p. ASSUME Reporter PROVE LateInv'
    <2>1. UNCHANGED <<writer, reader, lateTx, lateRx>> /\ running' \in {running, FALSE}
      BY <1>p DEF Reporter, ReporterExit, ReportTick, BothTick, StatusWait,
           StatusReceived, StatusReadError, StatusDue, StatusSent,
           StatusFailed, Stop, Join
    <2> QED BY <2>1
  <1>e. CASE EnforcerStop
    BY <1>e DEF EnforcerStop
  <1>u. CASE UNCHANGED vars
    BY <1>u DEF vars
  <1> QED BY <1>w, <1>r, <1>p, <1>e, <1>u DEF Next, Terminated

\* Whoever clears running, each writer sends at most one more packet and each
\* reader counts at most one more read.
THEOREM LateBoundHolds == Spec => []LateBound
  <1>1. LateInv => LateBound
    BY DEF LateInv, LateBound
  <1> QED BY <1>1, LateInit, LateStep, TypeCorrect, PTL DEF Spec

-----------------------------------------------------------------------------
(* No half-dead test: the property is inductive as it stands.               *)

\* No task has left its loop when the test starts.
LEMMA HalfDeadInit == Init => NoHalfDeadTest
  BY DEF Init, NoHalfDeadTest

\* Every step that ends a task clears running, or is one of the two UDP exits.
LEMMA HalfDeadStep == TypeOK /\ NoHalfDeadTest /\ [Next]_vars => NoHalfDeadTest'
  <1> SUFFICES ASSUME TypeOK, NoHalfDeadTest, [Next]_vars PROVE NoHalfDeadTest'
    OBVIOUS
  <1> USE DEF TypeOK, NoHalfDeadTest, is_udp, testVars, countVars, writerVars,
              readerVars, reporterVars
  <1>w. ASSUME NEW s \in Streams, Writer(s) PROVE NoHalfDeadTest'
    <2>1. CASE WriterFailed(s)
      <3>1. running' => running /\ cmd.proto = "UDP"
        BY <2>1, ZenonT(20) DEF WriterFailed
      <3>2. /\ UNCHANGED <<cmd, reader>>
            /\ \A t \in Streams \ {s} : /\ writer'[t] = writer[t]
                                       /\ errors'[t] = errors[t]
        BY <2>1 DEF WriterFailed
      <3>3. cmd.proto = "UDP" /\ writer'[s] = "done" => errors'[s] > MaxSendErrors
        BY <2>1, TransferAssumption DEF WriterFailed
      <3> QED BY <3>1, <3>2, <3>3
    <2>2. CASE WriterPanics(s)
      BY <2>2 DEF WriterPanics
    <2>3. CASE WriterExit(s) \/ WriterStatusFailed(s) \/ WriterSpend(s)
      BY <2>3 DEF WriterExit, WriterStatusFailed, WriterSpend
    <2>4. CASE WriterSwap(s) \/ WriterStatusSent(s) \/ WriterProceed(s)
      BY <2>4 DEF WriterSwap, WriterStatusSent, WriterProceed
    <2>5. CASE WriterSub(s) \/ WriterSent(s)
      BY <2>5 DEF WriterSub, WriterSent
    <2> QED BY <1>w, <2>1, <2>2, <2>3, <2>4, <2>5 DEF Writer
  <1>r. ASSUME NEW s \in Streams, Reader(s) PROVE NoHalfDeadTest'
    <2>1. CASE ReaderExit(s) \/ ReaderClosed(s) \/ ReaderSpend(s)
      BY <2>1 DEF ReaderExit, ReaderClosed, ReaderSpend
    <2>2. CASE ReaderProceed(s) \/ ReaderData(s) \/ ReaderIdle(s)
      BY <2>2 DEF ReaderProceed, ReaderData, ReaderIdle
    <2>3. CASE ReaderSub(s) \/ ReaderCount(s)
      BY <2>3 DEF ReaderSub, ReaderCount
    <2> QED BY <1>r, <2>1, <2>2, <2>3 DEF Reader
  <1>p. ASSUME Reporter PROVE NoHalfDeadTest'
    <2>1. /\ UNCHANGED <<cmd, writer, errors, reader>>
          /\ running' \in {running, FALSE}
      BY <1>p DEF Reporter, ReporterExit, ReportTick, BothTick, StatusWait,
           StatusReceived, StatusReadError, StatusDue, StatusSent,
           StatusFailed, Stop, Join
    <2> QED BY <2>1
  <1>e. CASE EnforcerStop
    BY <1>e DEF EnforcerStop
  <1>u. CASE UNCHANGED vars
    BY <1>u DEF vars
  <1> QED BY <1>w, <1>r, <1>p, <1>e, <1>u DEF Next, Terminated

\* A task that leaves its loop has stopped the whole test, except a UDP writer
\* after too many send errors or with a packet too short to number.
THEOREM NoHalfDeadTestHolds == Spec => []NoHalfDeadTest
  BY HalfDeadInit, HalfDeadStep, TypeCorrect, PTL DEF Spec

-----------------------------------------------------------------------------
(* The end: when summary() has been returned every task has been joined.    *)

EndedInv == reporter = "ended" => Joined

\* The test does not start ended.
LEMMA EndedInit == Init => EndedInv
  BY DEF Init, EndedInv

\* A joined task takes no step, and nothing leaves "ended".
LEMMA EndedStep ==
    TypeOK /\ EndedInv /\ [Next]_vars =>
      /\ EndedInv'
      /\ reporter = "ended" =>
           UNCHANGED <<total_tx_bytes, total_rx_bytes, sent, rcvd>>
  <1> SUFFICES ASSUME TypeOK, EndedInv, [Next]_vars
               PROVE  /\ EndedInv'
                      /\ reporter = "ended" =>
                           UNCHANGED <<total_tx_bytes, total_rx_bytes, sent, rcvd>>
    OBVIOUS
  <1> USE DEF TypeOK, EndedInv, Joined, testVars, countVars, writerVars,
              readerVars, reporterVars
  <1>w. ASSUME NEW s \in Streams, Writer(s)
        PROVE  reporter # "ended" /\ reporter' = reporter
    BY <1>w DEF Writer, WriterExit, WriterSwap, WriterStatusSent,
         WriterStatusFailed, WriterProceed, WriterSpend, WriterSub, WriterSent,
         WriterFailed, WriterPanics
  <1>r. ASSUME NEW s \in Streams, Reader(s)
        PROVE  reporter # "ended" /\ reporter' = reporter
    BY <1>r DEF Reader, ReaderExit, ReaderProceed, ReaderData, ReaderClosed,
         ReaderIdle, ReaderSpend, ReaderSub, ReaderCount
  <1>p. ASSUME Reporter
        PROVE  reporter # "ended" /\ EndedInv'
    BY <1>p DEF Reporter, ReporterExit, ReportTick, BothTick, StatusWait,
         StatusReceived, StatusReadError, StatusDue, StatusSent, StatusFailed,
         Stop, Join
  <1>e. CASE EnforcerStop
    BY <1>e DEF EnforcerStop
  <1>u. CASE UNCHANGED vars
    BY <1>u DEF vars
  <1> QED BY <1>w, <1>r, <1>p, <1>e, <1>u DEF Next, Terminated

\* Once the summary has been returned the totals and the traffic are final.
THEOREM SummaryFinalHolds == Spec => SummaryFinal
  BY EndedInit, EndedStep, TypeCorrect, PTL DEF Spec, SummaryFinal

-----------------------------------------------------------------------------
(* The budget of a single spender.  The invariant adds what is in flight:   *)
(* an amount that has been subtracted and not yet moved, and an amount the  *)
(* check has approved and that is not yet subtracted.                      *)

\* Which tasks exist: those of the test's streams and directions.
ShapeInv ==
    \A s \in Streams :
      /\ s \notin streams => writer[s] = "none" /\ reader[s] = "none"
      /\ ~server_tx => writer[s] \notin {"spend", "sub", "write"}
      /\ ~server_rx => reader[s] = "none"

InFlight(s) ==
    (IF writer[s] = "write" THEN cmd.tx_size ELSE 0)
      + (IF reader[s] = "count" THEN got[s] ELSE 0)

BudgetInv ==
    SingleSpender /\ budget0 # U64Max =>
      \A s \in streams :
        /\ byte_budget + sent + rcvd + InFlight(s) <= budget0
        /\ writer[s] = "sub" => cmd.tx_size <= byte_budget
        /\ reader[s] = "sub" => got[s] <= byte_budget

\* The tasks that Init creates.
LEMMA ShapeInit == Init => ShapeInv
  BY DEF Init, HasWriter, HasReader, ShapeInv

\* No step creates a task or moves one to a role its command excludes.
LEMMA ShapeStep == TypeOK /\ ShapeInv /\ [Next]_vars => ShapeInv'
  <1> SUFFICES ASSUME TypeOK, ShapeInv, [Next]_vars PROVE ShapeInv'
    OBVIOUS
  <1> USE DEF TypeOK, ShapeInv, server_tx, server_rx, testVars, countVars,
              writerVars, readerVars, reporterVars
  <1>w. ASSUME NEW s \in Streams, Writer(s) PROVE ShapeInv'
    <2>1. CASE WriterExit(s) \/ WriterSwap(s) \/ WriterStatusSent(s)
      BY <2>1 DEF WriterExit, WriterSwap, WriterStatusSent
    <2>2. CASE WriterStatusFailed(s) \/ WriterProceed(s) \/ WriterSpend(s)
      BY <2>2 DEF WriterStatusFailed, WriterProceed, WriterSpend
    <2>3. CASE WriterSub(s) \/ WriterSent(s) \/ WriterFailed(s) \/ WriterPanics(s)
      BY <2>3 DEF WriterSub, WriterSent, WriterFailed, WriterPanics
    <2> QED BY <1>w, <2>1, <2>2, <2>3 DEF Writer
  <1>r. ASSUME NEW s \in Streams, Reader(s) PROVE ShapeInv'
    <2>1. CASE ReaderExit(s) \/ ReaderProceed(s) \/ ReaderData(s) \/ ReaderClosed(s)
      BY <2>1 DEF ReaderExit, ReaderProceed, ReaderData, ReaderClosed
    <2>2. CASE ReaderIdle(s) \/ ReaderSpend(s) \/ ReaderSub(s) \/ ReaderCount(s)
      BY <2>2 DEF ReaderIdle, ReaderSpend, ReaderSub, ReaderCount
    <2> QED BY <1>r, <2>1, <2>2 DEF Reader
  <1>p. ASSUME Reporter PROVE ShapeInv'
    BY <1>p DEF Reporter, ReporterExit, ReportTick, BothTick, StatusWait,
         StatusReceived, StatusReadError, StatusDue, StatusSent, StatusFailed,
         Stop, Join
  <1>e. CASE EnforcerStop
    BY <1>e DEF EnforcerStop
  <1>u. CASE UNCHANGED vars
    BY <1>u DEF vars
  <1> QED BY <1>w, <1>r, <1>p, <1>e, <1>u DEF Next, Terminated

\* At the start the whole budget is unspent.
LEMMA BudgetInit == Init => BudgetInv
  <1> SUFFICES ASSUME Init, NEW s \in streams
               PROVE  /\ byte_budget + sent + rcvd + InFlight(s) <= budget0
                      /\ writer[s] # "sub"
                      /\ reader[s] # "sub"
    BY DEF BudgetInv
  <1>1. s \in Streams /\ byte_budget \in 0 .. U64Max
    BY TransferAssumption DEF Init
  <1>2. writer[s] \in {"head", "none"} /\ reader[s] \in {"head", "none"}
    BY <1>1 DEF Init
  <1> QED BY <1>1, <1>2, TransferAssumption DEF Init, InFlight

\* Each step keeps the budget account of the only stream there is: the check
\* promises what the subtraction takes, since nobody subtracts in between.
LEMMA BudgetStep ==
    TypeOK /\ ShapeInv /\ BudgetInv /\ [Next]_vars => BudgetInv'
  <1> SUFFICES ASSUME TypeOK, ShapeInv, BudgetInv, [Next]_vars, SingleSpender',
                      budget0' # U64Max, NEW s \in streams'
               PROVE  /\ byte_budget' + sent' + rcvd' + InFlight(s)' <= budget0'
                      /\ writer'[s] = "sub" => cmd'.tx_size <= byte_budget'
                      /\ reader'[s] = "sub" => got'[s] <= byte_budget'
    BY DEF BudgetInv
  <1> USE DEF InFlight, testVars, countVars, writerVars, readerVars, reporterVars
  <1>1. UNCHANGED <<cmd, streams, budget0>>
    BY DEF Next, Writer, WriterExit, WriterSwap, WriterStatusSent,
         WriterStatusFailed, WriterProceed, WriterSpend, WriterSub, WriterSent,
         WriterFailed, WriterPanics, Reader, ReaderExit, ReaderProceed,
         ReaderData, ReaderClosed, ReaderIdle, ReaderSpend, ReaderSub,
         ReaderCount, Reporter, ReporterExit, ReportTick, BothTick, StatusWait,
         StatusReceived, StatusReadError, StatusDue, StatusSent, StatusFailed,
         Stop, Join, EnforcerStop, Terminated, vars
  <1>2. SingleSpender /\ budget0 # U64Max /\ s \in streams /\ s \in Streams
    BY <1>1 DEF SingleSpender, server_tx, server_rx, TypeOK
  <1>3. /\ byte_budget + sent + rcvd + InFlight(s) <= budget0
        /\ writer[s] = "sub" => cmd.tx_size <= byte_budget
        /\ reader[s] = "sub" => got[s] <= byte_budget
    BY <1>2 DEF BudgetInv
  <1>4. /\ cmd.tx_size \in Nat /\ U64Max \in Nat
        /\ byte_budget \in Nat /\ sent \in Nat /\ rcvd \in Nat
        /\ budget0 \in Nat /\ budget0 < U64Max /\ got[s] \in Nat
    BY <1>2, CommandShape, TransferAssumption DEF TypeOK
  <1>5. byte_budget # U64Max
    BY <1>3, <1>4
  <1>6. \A t \in Streams : t # s => writer[t] = "none" /\ reader[t] = "none"
    BY <1>2 DEF ShapeInv, SingleSpender
  <1>7. \/ reader[s] = "none"
        \/ writer[s] \notin {"spend", "sub", "write"}
    BY <1>2 DEF ShapeInv, SingleSpender
  <1>8. /\ writer \in [Streams -> {"none", "head", "status", "spend", "sub", "write", "done"}]
        /\ reader \in [Streams -> {"none", "head", "read", "spend", "sub", "count", "done"}]
        /\ got \in [Streams -> 0 .. U64Max]
    BY DEF TypeOK
  <1>w. ASSUME NEW t \in Streams, Writer(t)
        PROVE  /\ byte_budget' + sent' + rcvd' + InFlight(s)' <= budget0'
               /\ writer'[s] = "sub" => cmd'.tx_size <= byte_budget'
               /\ reader'[s] = "sub" => got'[s] <= byte_budget'
    <2>0. t = s /\ UNCHANGED <<reader, got, rcvd>>
      BY <1>w, <1>6 DEF Writer, WriterExit, WriterSwap, WriterStatusSent,
         WriterStatusFailed, WriterProceed, WriterSpend, WriterSub, WriterSent,
         WriterFailed, WriterPanics
    <2>1. CASE WriterSpend(s)
      BY <2>0, <2>1, <1>1, <1>2, <1>3, <1>4, <1>5, <1>8
         DEF WriterSpend, Unlimited, Refused, Affordable
    <2>2. CASE WriterSub(s)
      BY <2>0, <2>2, <1>1, <1>2, <1>3, <1>4, <1>7, <1>8 DEF WriterSub, WrappingSub
    <2>3. CASE WriterSent(s)
      BY <2>0, <2>3, <1>1, <1>2, <1>3, <1>4, <1>8 DEF WriterSent
    <2>4. CASE WriterFailed(s) \/ WriterPanics(s) \/ WriterStatusFailed(s)
      BY <2>0, <2>4, <1>1, <1>2, <1>3, <1>4, <1>8
         DEF WriterFailed, WriterPanics, WriterStatusFailed
    <2>5. CASE WriterExit(s) \/ WriterSwap(s) \/ WriterStatusSent(s) \/ WriterProceed(s)
      BY <2>0, <2>5, <1>1, <1>2, <1>3, <1>4, <1>8
         DEF WriterExit, WriterSwap, WriterStatusSent, WriterProceed
    <2> QED BY <1>w, <2>0, <2>1, <2>2, <2>3, <2>4, <2>5 DEF Writer
  <1>r. ASSUME NEW t \in Streams, Reader(t)
        PROVE  /\ byte_budget' + sent' + rcvd' + InFlight(s)' <= budget0'
               /\ writer'[s] = "sub" => cmd'.tx_size <= byte_budget'
               /\ reader'[s] = "sub" => got'[s] <= byte_budget'
    <2>0. t = s /\ reader[s] # "none" /\ UNCHANGED <<writer, sent>>
      BY <1>r, <1>6 DEF Reader, ReaderExit, ReaderProceed, ReaderData,
         ReaderClosed, ReaderIdle, ReaderSpend, ReaderSub, ReaderCount
    <2>1. CASE ReaderSpend(s)
      BY <2>0, <2>1, <1>1, <1>2, <1>3, <1>4, <1>5, <1>8
         DEF ReaderSpend, Unlimited, Refused, Affordable
    <2>2. CASE ReaderSub(s)
      BY <2>0, <2>2, <1>1, <1>2, <1>3, <1>4, <1>7, <1>8 DEF ReaderSub, WrappingSub
    <2>3. CASE ReaderCount(s)
      BY <2>0, <2>3, <1>1, <1>2, <1>3, <1>4, <1>8 DEF ReaderCount
    <2>4. CASE ReaderExit(s) \/ ReaderProceed(s) \/ ReaderClosed(s) \/ ReaderIdle(s)
      BY <2>0, <2>4, <1>1, <1>2, <1>3, <1>4, <1>8
         DEF ReaderExit, ReaderProceed, ReaderClosed, ReaderIdle
    <2>5. CASE ReaderData(s)
      BY <2>0, <2>5, <1>1, <1>2, <1>3, <1>4, <1>8 DEF ReaderData
    <2> QED BY <1>r, <2>0, <2>1, <2>2, <2>3, <2>4, <2>5 DEF Reader
  <1>p. CASE Reporter \/ EnforcerStop \/ UNCHANGED vars
    <2>1. UNCHANGED <<byte_budget, writerVars, readerVars>>
      BY <1>p DEF Reporter, ReporterExit, ReportTick, BothTick, StatusWait,
         StatusReceived, StatusReadError, StatusDue, StatusSent, StatusFailed,
         Stop, Join, EnforcerStop, vars
    <2> QED BY <2>1, <1>1, <1>3
  <1> QED BY <1>w, <1>r, <1>p DEF Next, Terminated

\* A test with one spending task never moves a byte more than its budget.
THEOREM SingleSpenderBudgetHolds == Spec => []SingleSpenderBudget
  <1>1. TypeOK /\ BudgetInv => SingleSpenderBudget
    <2> SUFFICES ASSUME TypeOK, BudgetInv, SingleSpender, budget0 # U64Max
                 PROVE  sent + rcvd <= budget0
      BY DEF SingleSpenderBudget, BudgetRespected
    <2> PICK s \in Streams : streams = {s}
      BY DEF SingleSpender
    <2> QED BY CommandShape DEF BudgetInv, InFlight, TypeOK
  <1> QED BY <1>1, ShapeInit, ShapeStep, BudgetInit, BudgetStep, TypeCorrect,
             PTL DEF Spec

-----------------------------------------------------------------------------
(* The account of the sent bytes.                                           *)

TxInv ==
    /\ TxAccounting
    /\ reporter # "send" => report_tx = 0
    /\ reporter \in {"wait", "send"} => is_udp

\* Nothing is counted before the test starts.
LEMMA TxInit == Init => TxInv
  BY DEF Init, TxInv, TxAccounting, AccountedTx

\* Sent bytes enter through WriterSent and move to the totals through the
\* reporter; a failed status write loses them, but ends the test.
LEMMA TxStep == TypeOK /\ TxInv /\ [Next]_vars => TxInv'
  <1> SUFFICES ASSUME TypeOK, TxInv, [Next]_vars PROVE TxInv'
    OBVIOUS
  <1> USE CommandShape DEF TypeOK, TxInv, TxAccounting, AccountedTx, BothLoop, is_udp,
              server_tx, server_rx, testVars, countVars, writerVars, readerVars,
              reporterVars
  <1>w. ASSUME NEW s \in Streams, Writer(s) PROVE TxInv'
    <2>1. CASE WriterSent(s)
      BY <2>1 DEF WriterSent
    <2>2. CASE Writer(s) /\ ~WriterSent(s)
      <3>1. /\ UNCHANGED <<cmd, total_tx_bytes, tx_bytes, reporterVars, sent>>
            /\ running' => running
        BY <2>2 DEF Writer, WriterExit, WriterSwap, WriterStatusSent,
             WriterStatusFailed, WriterProceed, WriterSpend, WriterSub,
             WriterFailed, WriterPanics
      <3> QED BY <3>1
    <2> QED BY <1>w, <2>1, <2>2
  <1>r. ASSUME NEW s \in Streams, Reader(s) PROVE TxInv'
    <2>1. /\ UNCHANGED <<cmd, total_tx_bytes, tx_bytes, reporterVars, sent>>
          /\ running' => running
      BY <1>r DEF Reader, ReaderExit, ReaderProceed, ReaderData, ReaderClosed,
           ReaderIdle, ReaderSpend, ReaderSub, ReaderCount
    <2> QED BY <2>1
  <1>p. ASSUME Reporter PROVE TxInv'
    <2>1. CASE ReportTick
      BY <2>1 DEF ReportTick, ReportLoop
    <2>2. CASE BothTick
      BY <2>2 DEF BothTick
    <2>3. CASE StatusDue
      BY <2>3 DEF StatusDue
    <2>4. CASE StatusSent
      BY <2>4 DEF StatusSent
    <2>5. CASE StatusFailed
      BY <2>5 DEF StatusFailed
    <2>6. CASE StatusWait \/ StatusReceived \/ StatusReadError
      BY <2>6 DEF StatusLoop, StatusWait, StatusReceived, StatusReadError
    <2>7. CASE ReporterExit \/ Stop \/ Join
      BY <2>7 DEF ReporterExit, Stop, Join
    <2> QED BY <1>p, <2>1, <2>2, <2>3, <2>4, <2>5, <2>6, <2>7 DEF Reporter
  <1>e. CASE EnforcerStop
    BY <1>e DEF EnforcerStop
  <1>u. CASE UNCHANGED vars
    BY <1>u DEF vars
  <1> QED BY <1>w, <1>r, <1>p, <1>e, <1>u DEF Next, Terminated

\* No sent byte is counted twice, and none is lost while the test runs unless
\* it is a single TCP connection in both directions.
THEOREM TxAccountingHolds == Spec => []TxAccounting
  <1>1. TxInv => TxAccounting
    BY DEF TxInv
  <1> QED BY <1>1, TxInit, TxStep, TypeCorrect, PTL DEF Spec

-----------------------------------------------------------------------------
(* The account of the received bytes.  A status writer owns what it has     *)
(* swapped out only while it writes.                                        *)

RxInv ==
    /\ RxAccounting
    /\ reporter # "send" => report_rx = 0
    /\ \A s \in Streams : writer[s] # "status" => held[s] = 0

\* Nothing is received before the test starts.
LEMMA RxInit == Init => RxInv
  <1> SUFFICES ASSUME Init PROVE RxInv
    OBVIOUS
  <1>1. SumOf(held) = 0
    BY TransferAssumption, SumOfZeros DEF Init
  <1> QED BY <1>1 DEF Init, RxInv, RxAccounting, AccountedRx

\* How the sum of what the status writers hold changes with one of them.
LEMMA HeldChange ==
    ASSUME TypeOK, NEW s \in Streams, NEW n \in Nat, held' = [held EXCEPT ![s] = n]
    PROVE  /\ SumOf(held') = SumOf(held) - held[s] + n
           /\ held[s] <= SumOf(held) /\ SumOf(held) \in Nat /\ held[s] \in Nat
  <1>1. held \in [Streams -> Nat] /\ held[s] \in Nat /\ IsFiniteSet(Streams)
    BY TransferAssumption DEF TypeOK
  <1>2. SumOf(held) \in Nat
    BY <1>1, SumOfType
  <1>3. /\ SumOf([held EXCEPT ![s] = n]) = SumOf(held) - held[s] + n
        /\ held[s] <= SumOf(held)
    BY <1>1, SumOfExcept
  <1> QED BY <1>1, <1>2, <1>3

\* Received bytes enter through ReaderCount, and each swap moves them to one
\* place; what a failed status write loses ends the test.
LEMMA RxStep == TypeOK /\ RxInv /\ [Next]_vars => RxInv'
  <1> SUFFICES ASSUME TypeOK, RxInv, [Next]_vars PROVE RxInv'
    OBVIOUS
  <1> DEFINE A == total_rx_bytes + rx_bytes + report_rx
  <1>0. /\ A + SumOf(held) <= rcvd /\ (running => A + SumOf(held) = rcvd)
        /\ SumOf(held) \in Nat
    BY TransferAssumption, SumOfType DEF RxInv, RxAccounting, AccountedRx, TypeOK
  <1>t. /\ total_rx_bytes \in Nat /\ rx_bytes \in Nat /\ report_rx \in Nat /\ rcvd \in Nat
        /\ writer \in [Streams ->
              {"none", "head", "status", "spend", "sub", "write", "done"}]
        /\ held \in [Streams -> Nat]
    BY DEF TypeOK
  <1> USE DEF testVars, countVars, writerVars, readerVars, reporterVars
  <1>1. ASSUME UNCHANGED <<total_rx_bytes, rx_bytes, report_rx, held, rcvd>>,
               running' => running, reporter' # "send" => report_rx = 0,
               \A s \in Streams : writer'[s] # "status" => held[s] = 0
        PROVE  RxInv'
    BY <1>0, <1>1 DEF RxInv, RxAccounting, AccountedRx
  <1>w. ASSUME NEW s \in Streams, Writer(s) PROVE RxInv'
    <2>1. CASE WriterSwap(s)
      <3>1. /\ held' = [held EXCEPT ![s] = rx_bytes] /\ rx_bytes' = 0
            /\ writer[s] = "head" /\ writer' = [writer EXCEPT ![s] = "status"]
            /\ UNCHANGED <<total_rx_bytes, report_rx, reporter, running, rcvd>>
        BY <2>1 DEF WriterSwap
      <3>h. held[s] = 0
        BY <3>1 DEF RxInv
      <3>s. SumOf(held') = SumOf(held) - held[s] + rx_bytes
        BY <1>t, <3>1, HeldChange
      <3>2. SumOf(held') = SumOf(held) + rx_bytes
        BY <1>0, <1>t, <3>h, <3>s
      <3>3. RxAccounting'
        BY <1>0, <1>t, <3>1, <3>2 DEF RxAccounting, AccountedRx
      <3>4. \A r \in Streams : writer'[r] # "status" => held'[r] = 0
        BY <1>t, <3>1 DEF RxInv
      <3> QED BY <3>1, <3>3, <3>4 DEF RxInv
    <2>2. CASE WriterStatusSent(s)
      <3>1. /\ held' = [held EXCEPT ![s] = 0] /\ total_rx_bytes' = total_rx_bytes + held[s]
            /\ \A r \in Streams : writer'[r] = "status" => writer[r] = "status"
            /\ \A r \in Streams \ {s} : writer'[r] = writer[r]
            /\ UNCHANGED <<rx_bytes, report_rx, reporter, running, rcvd>>
        BY <1>t, <2>2 DEF WriterStatusSent
      <3>2. SumOf(held') = SumOf(held) - held[s] + 0 /\ held[s] \in Nat
        BY <3>1, HeldChange
      <3>3. RxAccounting'
        BY <1>0, <1>t, <3>1, <3>2 DEF RxAccounting, AccountedRx
      <3>4. \A r \in Streams : writer'[r] # "status" => held'[r] = 0
        BY <1>t, <3>1 DEF RxInv
      <3> QED BY <3>1, <3>3, <3>4 DEF RxInv
    <2>3. CASE WriterStatusFailed(s)
      <3>1. /\ held' = [held EXCEPT ![s] = 0] /\ running' = FALSE
            /\ \A r \in Streams \ {s} : writer'[r] = writer[r]
            /\ UNCHANGED <<rx_bytes, total_rx_bytes, report_rx, reporter, rcvd>>
        BY <1>t, <2>3 DEF WriterStatusFailed
      <3>2. SumOf(held') = SumOf(held) - held[s] + 0 /\ held[s] \in Nat
        BY <3>1, HeldChange
      <3>3. RxAccounting'
        BY <1>0, <1>t, <3>1, <3>2 DEF RxAccounting, AccountedRx
      <3>4. \A r \in Streams : writer'[r] # "status" => held'[r] = 0
        BY <1>t, <3>1 DEF RxInv
      <3> QED BY <3>1, <3>3, <3>4 DEF RxInv
    <2>4. CASE \/ WriterExit(s) \/ WriterProceed(s) \/ WriterSpend(s) \/ WriterSub(s)
               \/ WriterSent(s) \/ WriterFailed(s) \/ WriterPanics(s)
      <3>1. /\ UNCHANGED <<total_rx_bytes, rx_bytes, report_rx, held, rcvd, reporter>>
            /\ running' => running
        <4>1. CASE WriterSpend(s)
          BY <4>1 DEF WriterSpend
        <4>2. CASE WriterExit(s) \/ WriterProceed(s) \/ WriterSub(s) \/ WriterSent(s)
          BY <4>2 DEF WriterExit, WriterProceed, WriterSub, WriterSent
        <4>3. CASE WriterFailed(s) \/ WriterPanics(s)
          <5>1. running' = (running /\ is_udp) \/ running' = running
            BY <4>3 DEF WriterFailed, WriterPanics
          <5>2. UNCHANGED <<total_rx_bytes, rx_bytes, report_rx, held, rcvd, reporter>>
            BY <4>3 DEF WriterFailed, WriterPanics
          <5>3. running' => running
            BY <5>1
          <5> QED BY <5>2, <5>3
        <4> QED BY <2>4, <4>1, <4>2, <4>3
      <3>2. writer[s] # "status" /\ \A r \in Streams \ {s} : writer'[r] = writer[r]
        <4>1. CASE WriterSpend(s)
          BY <1>t, <4>1 DEF WriterSpend
        <4>2. CASE WriterExit(s) \/ WriterProceed(s) \/ WriterSub(s) \/ WriterSent(s)
          BY <1>t, <4>2 DEF WriterExit, WriterProceed, WriterSub, WriterSent
        <4>3. CASE WriterFailed(s) \/ WriterPanics(s)
          BY <1>t, <4>3 DEF WriterFailed, WriterPanics
        <4> QED BY <2>4, <4>1, <4>2, <4>3
      <3>3. \A r \in Streams : writer'[r] # "status" => held[r] = 0
        BY <3>2 DEF RxInv
      <3> QED BY <1>1, <3>1, <3>3 DEF RxInv
    <2> QED BY <1>w, <2>1, <2>2, <2>3, <2>4 DEF Writer
  <1>r. ASSUME NEW s \in Streams, Reader(s) PROVE RxInv'
    <2>1. CASE ReaderCount(s)
      <3>1. /\ got[s] \in Nat /\ rx_bytes' = rx_bytes + got[s] /\ rcvd' = rcvd + got[s]
            /\ UNCHANGED <<total_rx_bytes, report_rx, held, writer, reporter, running>>
        BY <2>1, TransferAssumption DEF ReaderCount, TypeOK
      <3> QED BY <1>0, <1>t, <3>1 DEF RxInv, RxAccounting, AccountedRx
    <2>2. CASE Reader(s) /\ ~ReaderCount(s)
      <3>1. /\ UNCHANGED <<total_rx_bytes, rx_bytes, report_rx, held, rcvd, writer, reporter>>
            /\ running' => running
        BY <2>2 DEF Reader, ReaderExit, ReaderProceed, ReaderData, ReaderClosed,
           ReaderIdle, ReaderSpend, ReaderSub
      <3> QED BY <1>1, <3>1 DEF RxInv
    <2> QED BY <1>r, <2>1, <2>2
  <1>p. ASSUME Reporter PROVE RxInv'
    <2>1. CASE ReportTick
      <3>1. /\ \/ rx_bytes' = 0 /\ total_rx_bytes' = total_rx_bytes + rx_bytes
               \/ rx_bytes' = rx_bytes /\ total_rx_bytes' = total_rx_bytes + 0
            /\ UNCHANGED <<report_rx, held, writer, reporter, running, rcvd>>
        BY <2>1 DEF ReportTick
      <3> QED BY <1>0, <1>t, <3>1 DEF RxInv, RxAccounting, AccountedRx
    <2>2. CASE StatusDue
      <3>1. /\ rx_bytes' = 0 /\ report_rx' = rx_bytes /\ report_rx = 0 /\ reporter' = "send"
            /\ UNCHANGED <<total_rx_bytes, held, writer, running, rcvd>>
        BY <2>2 DEF StatusDue, RxInv
      <3> QED BY <1>0, <1>t, <3>1 DEF RxInv, RxAccounting, AccountedRx
    <2>3. CASE StatusSent
      <3>1. /\ total_rx_bytes' = total_rx_bytes + report_rx /\ report_rx' = 0
            /\ UNCHANGED <<rx_bytes, held, writer, running, rcvd>>
        BY <2>3 DEF StatusSent
      <3> QED BY <1>0, <1>t, <3>1 DEF RxInv, RxAccounting, AccountedRx
    <2>4. CASE StatusFailed
      <3>1. /\ report_rx' = 0 /\ running' = FALSE
            /\ UNCHANGED <<total_rx_bytes, rx_bytes, held, writer, rcvd>>
        BY <2>4 DEF StatusFailed
      <3> QED BY <1>0, <1>t, <3>1 DEF RxInv, RxAccounting, AccountedRx
    <2>5. CASE \/ ReporterExit \/ BothTick \/ StatusWait \/ StatusReceived \/ StatusReadError
               \/ Stop \/ Join
      <3>1. /\ UNCHANGED <<total_rx_bytes, rx_bytes, report_rx, held, rcvd, writer>>
            /\ running' => running
            /\ reporter # "send"
        BY <2>5 DEF ReporterExit, BothTick, StatusWait, StatusReceived, StatusReadError,
           Stop, Join
      <3> QED BY <1>1, <3>1 DEF RxInv
    <2> QED BY <1>p, <2>1, <2>2, <2>3, <2>4, <2>5 DEF Reporter
  <1>e. CASE EnforcerStop
    BY <1>1, <1>e DEF EnforcerStop, RxInv
  <1>u. CASE UNCHANGED vars
    BY <1>1, <1>u DEF vars, RxInv
  <1> QED BY <1>w, <1>r, <1>p, <1>e, <1>u DEF Next, Terminated

\* No received byte is counted twice, and none is lost while the test runs,
\* although up to one status writer per stream and the reporter swap the same
\* counter (tcp_tx_with_status, tcp_status_sender, status_report_loop,
\* udp_status_loop).
THEOREM RxAccountingHolds == Spec => []RxAccounting
  <1>1. RxInv => RxAccounting
    BY DEF RxInv
  <1> QED BY <1>1, RxInit, RxStep, TypeCorrect, PTL DEF Spec


-----------------------------------------------------------------------------
(* The refinement.  Seen from outside, a test moves bytes, is stopped, or    *)
(* ends; every other step of its tasks is invisible.                        *)

\* By the time the reporter awaits the tasks, running has been cleared.
StoppedInv == reporter \in {"join", "ended"} => ~running

\* Bytes move only while the summary is outstanding.
Moving ==
    /\ reporter # "ended"
    /\ UNCHANGED <<reporter, running>>
    /\ sent' >= sent
    /\ rcvd' >= rcvd

\* A step that at most clears running.
Inner ==
    /\ UNCHANGED <<sent, rcvd>>
    /\ running' => running
    /\ reporter' = "ended" <=> reporter = "ended"
    /\ reporter = "ended" => UNCHANGED <<total_tx_bytes, total_rx_bytes>>

\* The summary is returned.
Ending ==
    /\ reporter = "join"
    /\ reporter' = "ended"
    /\ UNCHANGED <<running, total_tx_bytes, total_rx_bytes, sent, rcvd>>

\* Every step is one of the three.
LEMMA StepShape ==
    ASSUME TypeOK, EndedInv, StoppedInv, [Next]_vars
    PROVE  UNCHANGED testVars /\ (Moving \/ Inner \/ Ending)
  <1> USE DEF countVars, writerVars, readerVars, reporterVars
  <1>w. ASSUME NEW s \in Streams, Writer(s)
        PROVE  UNCHANGED testVars /\ (Moving \/ Inner \/ Ending)
    <2>0. writer[s] \notin {"none", "done"}
      BY <1>w DEF Writer, WriterExit, WriterSwap, WriterStatusSent,
         WriterStatusFailed, WriterProceed, WriterSpend, WriterSub, WriterSent,
         WriterFailed, WriterPanics
    <2>1. reporter # "ended"
      BY <2>0 DEF EndedInv, Joined
    <2>2. CASE WriterSent(s)
      <3>1. cmd.tx_size \in Nat /\ sent \in Nat /\ rcvd \in Nat
        BY CommandShape DEF TypeOK
      <3> QED BY <2>1, <2>2, <3>1 DEF WriterSent, Moving
    <2>3. CASE WriterSpend(s)
      BY <2>1, <2>3 DEF WriterSpend, Inner
    <2>4. CASE WriterExit(s) \/ WriterSwap(s) \/ WriterStatusSent(s)
      BY <2>1, <2>4 DEF WriterExit, WriterSwap, WriterStatusSent, Inner
    <2>5. CASE WriterStatusFailed(s) \/ WriterProceed(s) \/ WriterSub(s) \/ WriterPanics(s)
      BY <2>1, <2>5 DEF WriterStatusFailed, WriterProceed, WriterSub, WriterPanics, Inner
    <2>6. CASE WriterFailed(s)
      <3>1. running' = (running /\ is_udp) /\ UNCHANGED <<testVars, sent, rcvd, reporter>>
        BY <2>6 DEF WriterFailed
      <3>2. running' => running
        BY <3>1
      <3> QED BY <2>1, <3>1, <3>2 DEF Inner
    <2> QED BY <1>w, <2>2, <2>3, <2>4, <2>5, <2>6 DEF Writer
  <1>r. ASSUME NEW s \in Streams, Reader(s)
        PROVE  UNCHANGED testVars /\ (Moving \/ Inner \/ Ending)
    <2>0. reader[s] \notin {"none", "done"}
      BY <1>r DEF Reader, ReaderExit, ReaderProceed, ReaderData, ReaderClosed,
         ReaderIdle, ReaderSpend, ReaderSub, ReaderCount
    <2>1. reporter # "ended"
      BY <2>0 DEF EndedInv, Joined
    <2>2. CASE ReaderCount(s)
      <3>1. got[s] \in Nat /\ sent \in Nat /\ rcvd \in Nat
        BY TransferAssumption DEF TypeOK
      <3> QED BY <2>1, <2>2, <3>1 DEF ReaderCount, Moving
    <2>3. CASE ReaderSpend(s)
      BY <2>1, <2>3 DEF ReaderSpend, Inner
    <2>4. CASE ReaderExit(s) \/ ReaderProceed(s) \/ ReaderData(s)
      BY <2>1, <2>4 DEF ReaderExit, ReaderProceed, ReaderData, Inner
    <2>5. CASE ReaderClosed(s) \/ ReaderIdle(s) \/ ReaderSub(s)
      BY <2>1, <2>5 DEF ReaderClosed, ReaderIdle, ReaderSub, Inner
    <2> QED BY <1>r, <2>2, <2>3, <2>4, <2>5 DEF Reader
  <1>p. ASSUME Reporter
        PROVE  UNCHANGED testVars /\ (Moving \/ Inner \/ Ending)
    <2>1. CASE Join
      BY <2>1 DEF Join, Ending
    <2>2. CASE Stop \/ StatusFailed \/ StatusReadError
      BY <2>2 DEF Stop, StatusFailed, StatusReadError, Inner
    <2>3. CASE ReporterExit \/ ReportTick \/ BothTick \/ StatusWait
      BY <2>3 DEF ReporterExit, ReportTick, BothTick, StatusWait, Inner
    <2>4. CASE StatusReceived \/ StatusDue \/ StatusSent
      BY <2>4 DEF StatusReceived, StatusDue, StatusSent, Inner
    <2> QED BY <1>p, <2>1, <2>2, <2>3, <2>4 DEF Reporter
  <1>e. CASE EnforcerStop
    BY <1>e DEF EnforcerStop, Inner
  <1>u. CASE UNCHANGED vars
    BY <1>u DEF vars, Inner
  <1> QED BY <1>w, <1>r, <1>p, <1>e, <1>u DEF Next, Terminated

\* Only Stop leads to the wait, and nothing sets running again.
LEMMA StoppedStep ==
    TypeOK /\ EndedInv /\ StoppedInv /\ [Next]_vars => StoppedInv'
  <1> SUFFICES ASSUME TypeOK, EndedInv, StoppedInv, [Next]_vars PROVE StoppedInv'
    OBVIOUS
  <1>1. running' => running
    BY StepShape DEF Moving, Inner, Ending
  <1>2. reporter' = "join" => reporter = "join" \/ Stop
    <2> USE DEF reporterVars
    <2>w. ASSUME NEW s \in Streams, Writer(s) PROVE reporter' = reporter
      BY <2>w DEF Writer, WriterExit, WriterSwap, WriterStatusSent,
         WriterStatusFailed, WriterProceed, WriterSpend, WriterSub, WriterSent,
         WriterFailed, WriterPanics
    <2>r. ASSUME NEW s \in Streams, Reader(s) PROVE reporter' = reporter
      BY <2>r DEF Reader, ReaderExit, ReaderProceed, ReaderData, ReaderClosed,
         ReaderIdle, ReaderSpend, ReaderSub, ReaderCount
    <2>p. ASSUME Reporter, ~Stop PROVE reporter' = "join" => reporter = "join"
      BY <2>p DEF Reporter, ReporterExit, ReportTick, BothTick, StatusWait,
         StatusReceived, StatusReadError, StatusDue, StatusSent, StatusFailed, Join
    <2> QED BY <2>w, <2>r, <2>p DEF Next, EnforcerStop, Terminated, vars
  <1>3. reporter' = "ended" => reporter \in {"join", "ended"}
    BY StepShape DEF Moving, Inner, Ending
  <1>4. Stop => ~running'
    BY DEF Stop
  <1> QED BY <1>1, <1>2, <1>3, <1>4 DEF StoppedInv

\* The steps of a test, one by one, as steps of a metered test: WriterSent and
\* ReaderCount move bytes, whatever first clears running stops it, Join ends it.
LEMMA MeteredStep ==
    ASSUME TypeOK, EndedInv, StoppedInv, [Next]_vars,
           SingleSpenderBudget', TxAccounting, RxAccounting
    PROVE  [Metered!Next]_(Metered!vars)
  <1>0. UNCHANGED <<cmd, streams, budget0>>
    BY StepShape DEF testVars
  <1>1. SingleSpender' <=> SingleSpender
    BY <1>0 DEF SingleSpender, server_tx, server_rx
  <1>b. (SingleSpender' = SingleSpender)
    BY <1>1 DEF SingleSpender
  <1>2. CASE Moving
    <2>1. SingleSpender /\ budget0 # U64Max => sent' + rcvd' <= budget0
      BY <1>0, <1>1 DEF SingleSpenderBudget, BudgetRespected
    <2>2. Metered!Move
      BY <1>0, <1>b, <1>2, <2>1 DEF Metered!Move, Moving
    <2> QED BY <2>2 DEF Metered!Next
  <1>3. CASE Inner /\ (reporter = "ended" \/ running' = running)
    <2>1. UNCHANGED Metered!vars
      BY <1>0, <1>b, <1>3 DEF Metered!vars, Inner
    <2> QED BY <2>1
  <1>4. CASE Inner /\ reporter # "ended" /\ running' # running
    <2>0. running \in BOOLEAN /\ running' \in BOOLEAN
      BY TypeStep DEF TypeOK
    <2>1. running /\ ~running'
      BY <1>4, <2>0 DEF Inner
    <2>2. Metered!Stop
      BY <1>0, <1>b, <1>4, <2>1 DEF Metered!Stop, Inner
    <2> QED BY <2>2 DEF Metered!Next
  <1>5. CASE Ending
    <2>1. ~running
      BY <1>5 DEF Ending, StoppedInv
    <2>t. /\ total_tx_bytes \in Nat /\ tx_bytes \in Nat /\ report_tx \in Nat /\ sent \in Nat
          /\ total_rx_bytes \in Nat /\ rx_bytes \in Nat /\ report_rx \in Nat /\ rcvd \in Nat
          /\ held \in [Streams -> Nat]
      BY DEF TypeOK
    <2>h. SumOf(held) \in Nat
      BY <2>t, TransferAssumption, SumOfType
    <2>2. total_tx_bytes <= sent
      BY <2>t DEF TxAccounting, AccountedTx
    <2>3. total_rx_bytes <= rcvd
      BY <2>t, <2>h DEF RxAccounting, AccountedRx
    <2>4. <<total_tx_bytes', total_rx_bytes'>> \in (0 .. sent) \X (0 .. rcvd)
      BY <1>5, <2>t, <2>2, <2>3 DEF Ending
    <2>5. Metered!End
      BY <1>0, <1>b, <1>5, <2>1, <2>4 DEF Metered!End, Ending
    <2> QED BY <2>5 DEF Metered!Next
  <1> QED BY <1>2, <1>3, <1>4, <1>5, StepShape

\* The safety part of the refinement: the tasks of a test take only steps of a
\* metered test (run_tcp_test_server, run_tcp_multiconn_server,
\* run_udp_test_server).
THEOREM TestIsMetered == Spec => Metered!Init /\ [][Metered!Next]_(Metered!vars)
  <1>1. Init => Metered!Init
    <2> SUFFICES ASSUME Init PROVE Metered!Init
      OBVIOUS
    <2>1. SingleSpender \in BOOLEAN
      BY DEF SingleSpender
    <2>2. budget0 \in 0 .. U64Max
      BY TransferAssumption DEF Init
    <2> QED BY <2>1, <2>2 DEF Metered!Init, Init
  <1>2. Init => StoppedInv
    BY DEF Init, StoppedInv
  <1>3. TypeOK /\ EndedInv /\ StoppedInv /\ [Next]_vars /\ SingleSpenderBudget'
          /\ TxAccounting /\ RxAccounting => [Metered!Next]_(Metered!vars)
    BY MeteredStep
  <1> QED BY <1>1, <1>2, <1>3, EndedInit, EndedStep, StoppedStep, TypeCorrect,
             SingleSpenderBudgetHolds, TxAccountingHolds, RxAccountingHolds, PTL DEF Spec

\* A test that is told to stop ends, given the fairness of the runtime and a
\* peer that does not stall; with that, which TLC checks, the tasks implement
\* a metered test.
THEOREM TransferTestRefinesMeteredTest ==
    Spec /\ Metered!Ends => ImplementsMeteredTest
  BY TestIsMetered DEF ImplementsMeteredTest, Metered!Spec
=============================================================================
