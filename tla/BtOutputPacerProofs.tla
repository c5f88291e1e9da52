------------------------ MODULE BtOutputPacerProofs ------------------------
(***************************************************************************)
(* Safety of BtOutputPacer for every set of reports and every interval.    *)
(***************************************************************************)
EXTENDS BtOutputPacer, TLAPS

\* What NewestReportWins and its companions need to be inductive: the ages
\* agree, a flush thread that is writing left nothing pending (so it may park),
\* and stop_call, stopping_ and the thread's end go together.
IInv ==
  /\ TypeOK
  /\ since_write = wire_age
  /\ NewestReportWins
  /\ HeldReportHasFlusher
  /\ flush = "writing" => pending = NoReport
  /\ stop_call = "none" <=> ~stopping
  /\ flush = "exited" => stopping
  /\ NoFlusherAfterStop

\* A new pacer holds nothing and has no thread.
LEMMA InitEstablishesIInv == Init => IInv
<1> SUFFICES ASSUME Init PROVE IInv
  OBVIOUS
<1>1. 0 \in 0..kMinInterval /\ kMinInterval \in 0..kMinInterval
  BY PacerAssumption
<1>2. TypeOK
  BY <1>1 DEF Init, TypeOK, FlushStates
<1>3. QED
  BY <1>2 DEF Init, IInv, NewestReportWins, HeldReportHasFlusher,
              NoFlusherAfterStop

\* An age grows by one tick and saturates.
LEMMA AgedInRange ==
  ASSUME NEW t \in 0..kMinInterval
  PROVE  /\ Aged(t) \in 0..kMinInterval
         /\ Aged(t) >= t
  BY PacerAssumption DEF Aged

\* Submitting: the step either writes at once or leaves the report pending
\* with the flush thread awake.
LEMMA SubmitPreserves ==
  ASSUME IInv, NEW r \in Reports, submit(r)
  PROVE  IInv'
<1> USE PacerAssumption
    DEF IInv, submit, mutex_free, FlushStates, NewestReportWins,
        HeldReportHasFlusher, NoFlusherAfterStop
<1>1. CASE submit_direct(r)
  <2>1. TypeOK'
    BY <1>1 DEF TypeOK, submit_direct, write_locked
  <2>2. QED
    BY <1>1, <2>1 DEF TypeOK, submit_direct, write_locked
<1>2. CASE submit_throttled(r)
  <2>1. /\ flush_started \in FlushStates
        /\ ~stopping => flush_started = "running"
        /\ stopping => flush_started \in {flush, "running"}
    BY DEF flush_started, notified, TypeOK
  <2>2. flush_started # "writing"
    BY DEF flush_started, notified
  <2>3. stop_call = "returned" => flush_started \in {"none", "exited"}
    BY DEF flush_started, notified, TypeOK
  <2>4. flush_started = "exited" => flush = "exited"
    BY DEF flush_started, notified
  <2>5. TypeOK'
    BY <1>2, <2>1 DEF TypeOK, submit_throttled
  <2>6. QED
    BY <1>2, <2>1, <2>2, <2>3, <2>4, <2>5 DEF TypeOK, submit_throttled
<1>3. QED
  BY <1>1, <1>2

\* One turn of the flush thread.
LEMMA FlushLoopPreserves ==
  ASSUME IInv, flush_loop
  PROVE  IInv'
<1> USE PacerAssumption
    DEF IInv, flush_loop, mutex_free, FlushStates, NewestReportWins,
        HeldReportHasFlusher, NoFlusherAfterStop
<1>1. CASE flush_parks
  BY <1>1 DEF TypeOK, flush_parks
<1>2. CASE flush_waits
  <2>1. kMinInterval - since_write \in 0..kMinInterval
    BY DEF TypeOK
  <2>2. QED
    BY <1>2, <2>1 DEF TypeOK, flush_waits
<1>3. CASE flush_writes
  <2>1. TypeOK'
    BY <1>3 DEF TypeOK, flush_writes, write_locked
  <2>2. QED
    BY <1>3, <2>1 DEF TypeOK, flush_writes, write_locked
<1>4. QED
  BY <1>1, <1>2, <1>3

\* stop() empties the pacer and wakes the thread.
LEMMA StopPreserves ==
  ASSUME IInv, stop
  PROVE  IInv'
<1>1. /\ notified \in FlushStates
      /\ notified # "writing"
  BY DEF IInv, TypeOK, FlushStates, notified, stop, mutex_free
<1>2. QED
  BY <1>1, PacerAssumption
     DEF IInv, TypeOK, stop, NewestReportWins, HeldReportHasFlusher,
         NoFlusherAfterStop

\* Time only ages both clocks alike.
LEMMA TickPreserves ==
  ASSUME IInv, Tick
  PROVE  IInv'
<1>1. since_write' \in 0..kMinInterval /\ wire_age' = since_write'
  BY AgedInRange DEF IInv, TypeOK, Tick
<1>2. timer' \in 0..kMinInterval
  BY PacerAssumption DEF IInv, TypeOK, Tick
<1>3. QED
  BY <1>1, <1>2
     DEF IInv, TypeOK, Tick, NewestReportWins, HeldReportHasFlusher,
         NoFlusherAfterStop

\* One case per method of the class and step of its thread.
LEMMA NextPreservesIInv == IInv /\ [Next]_vars => IInv'
<1> SUFFICES ASSUME IInv, [Next]_vars PROVE IInv'
  OBVIOUS
<1> USE PacerAssumption
<1>1. ASSUME NEW r \in Reports, submit(r) PROVE IInv'
  BY <1>1, SubmitPreserves
<1>2. CASE submit_returns
  BY <1>2 DEF IInv, TypeOK, submit_returns, NewestReportWins,
              HeldReportHasFlusher, NoFlusherAfterStop
<1>3. CASE discard_pending
  BY <1>3 DEF IInv, TypeOK, discard_pending, NewestReportWins,
              HeldReportHasFlusher, NoFlusherAfterStop
<1>4. CASE stop
  BY <1>4, StopPreserves
<1>5. CASE stop_returns
  BY <1>5 DEF IInv, TypeOK, stop_returns, NewestReportWins,
              HeldReportHasFlusher, NoFlusherAfterStop
<1>6. CASE flush_loop
  BY <1>6, FlushLoopPreserves
<1>7. CASE flush_write_returns
  BY <1>7 DEF IInv, TypeOK, FlushStates, flush_write_returns,
              NewestReportWins, HeldReportHasFlusher, NoFlusherAfterStop
<1>8. CASE flush_timeout \/ flush_spurious_wake
  BY <1>8 DEF IInv, TypeOK, FlushStates, flush_timeout, flush_spurious_wake,
              NewestReportWins, HeldReportHasFlusher, NoFlusherAfterStop
<1>9. CASE flush_exits
  BY <1>9 DEF IInv, TypeOK, FlushStates, flush_exits, NewestReportWins,
              HeldReportHasFlusher, NoFlusherAfterStop
<1>10. CASE Tick
  BY <1>10, TickPreserves
<1>11. CASE UNCHANGED vars
  BY <1>11 DEF IInv, TypeOK, vars, NewestReportWins, HeldReportHasFlusher,
               NoFlusherAfterStop
<1>12. QED
  BY <1>1, <1>2, <1>3, <1>4, <1>5, <1>6, <1>7, <1>8, <1>9, <1>10, <1>11
     DEF Next, FlushThread

\* The inductive invariant of the pacer.
THEOREM InductiveInvariant == Spec => []IInv
  BY InitEstablishesIInv, NextPreservesIInv, PTL DEF Spec

\* Every variable of the pacer keeps its type.
THEOREM TypeCorrect == Spec => []TypeOK
<1>1. IInv => TypeOK
  BY DEF IInv
<1>2. QED
  BY <1>1, InductiveInvariant, PTL

\* The newest report is held or is the last one on the wire: no older report
\* ever follows a newer one, for any number of threads that submit.
THEOREM NewestReportAlwaysWins == Spec => []NewestReportWins
<1>1. IInv => NewestReportWins
  BY DEF IInv
<1>2. QED
  BY <1>1, InductiveInvariant, PTL

\* A held report is never left to a flush thread that sleeps without a
\* deadline or does not exist.
THEOREM NoLostWakeup == Spec => []HeldReportHasFlusher
<1>1. IInv => HeldReportHasFlusher
  BY DEF IInv
<1>2. QED
  BY <1>1, InductiveInvariant, PTL

\* No flush thread survives stop() or is started after it.
THEOREM StopIsFinal == Spec => []NoFlusherAfterStop
<1>1. IInv => NoFlusherAfterStop
  BY DEF IInv
<1>2. QED
  BY <1>1, InductiveInvariant, PTL

-----------------------------------------------------------------------------
\* Every step of the pacer is a step of PacedOutput or leaves it unchanged.
LEMMA StepRefines == IInv /\ [Next]_vars => [Paced!Next]_(Paced!vars)
<1> SUFFICES ASSUME IInv, [Next]_vars PROVE [Paced!Next]_(Paced!vars)
  OBVIOUS
<1> USE DEF Paced!Next, Paced!vars
<1>1. ASSUME NEW r \in Reports, submit(r) PROVE [Paced!Next]_(Paced!vars)
  <2>1. CASE submit_direct(r)
    <3>1. Paced!Pass(r)
      BY <2>1 DEF submit_direct, write_locked, due, Paced!Pass, IInv
    <3>2. QED
      BY <3>1
  <2>2. CASE submit_throttled(r)
    <3>1. Paced!Hold(r)
      BY <2>2 DEF submit_throttled, Paced!Hold
    <3>2. QED
      BY <3>1
  <2>3. QED
    BY <1>1, <2>1, <2>2 DEF submit
<1>2. CASE discard_pending \/ stop
  <2>1. Paced!Drop
    BY <1>2 DEF discard_pending, stop, Paced!Drop
  <2>2. QED
    BY <2>1
<1>3. CASE flush_loop
  <2>1. CASE flush_writes
    <3>1. Paced!Deliver
      BY <2>1 DEF flush_writes, write_locked, due, Paced!Deliver, IInv
    <3>2. QED
      BY <3>1
  <2>2. CASE flush_parks \/ flush_waits
    BY <2>2 DEF flush_parks, flush_waits
  <2>3. QED
    BY <1>3, <2>1, <2>2, Zenon DEF flush_loop
<1>4. CASE Tick
  <2>1. Aged(wire_age) = IF wire_age < kMinInterval THEN wire_age + 1 ELSE wire_age
    BY DEF Aged
  <2>2. Paced!Tick \/ UNCHANGED Paced!vars
    BY <1>4, <2>1 DEF Tick, Paced!Tick
  <2>3. QED
    BY <2>2
<1>5. CASE \/ submit_returns
           \/ stop_returns
           \/ flush_write_returns
           \/ flush_timeout
           \/ flush_spurious_wake
           \/ flush_exits
  BY <1>5 DEF submit_returns, stop_returns, flush_write_returns,
              flush_timeout, flush_spurious_wake, flush_exits
<1>6. CASE UNCHANGED vars
  BY <1>6 DEF vars
<1>7. QED
  BY <1>1, <1>2, <1>3, <1>4, <1>5, <1>6 DEF Next, FlushThread

\* Whatever the threads do, the controller sees a one-place register with a
\* rate cap: BtOutputPacer implements PacedOutput.
THEOREM PacerImplementsPacedOutput == Spec => ImplementsPacedOutput
<1>1. Init => Paced!Init
  BY DEF Init, Paced!Init
<1>2. QED
  BY <1>1, StepRefines, InductiveInvariant, PTL
     DEF Spec, ImplementsPacedOutput, Paced!Spec

\* No two reports are closer together than kMinInterval, whichever of the
\* threads writes them.
THEOREM RateIsCapped == Spec => RateCapped
<1>1. IInv /\ [Next]_vars => [wire_age' < wire_age => wire_age = kMinInterval]_vars
  <2> SUFFICES ASSUME IInv, [Next]_vars, wire_age' < wire_age
               PROVE  wire_age = kMinInterval
    OBVIOUS
  <2>1. [Paced!Next]_(Paced!vars)
    BY StepRefines
  <2>2. wire_age \in 0..kMinInterval /\ kMinInterval \in Nat
    BY PacerAssumption DEF IInv, TypeOK
  <2>3. QED
    BY <2>1, <2>2
       DEF Paced!Next, Paced!vars, Paced!Pass, Paced!Hold, Paced!Deliver,
           Paced!Drop, Paced!Tick
<1>2. QED
  BY <1>1, InductiveInvariant, PTL DEF Spec, RateCapped
=============================================================================
