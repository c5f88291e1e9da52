-------------------------- MODULE FunctionFSProofs --------------------------
(***************************************************************************)
(* The threads of the FunctionFS backend, for any number of reports and    *)
(* whichever of them were started: none outlives the endpoint files it     *)
(* works on, reports reach the host in order, the newest one is kept, and  *)
(* close() joins no thread that sleeps on its condition variable.          *)
(***************************************************************************)
EXTENDS FunctionFS, TLAPS

Running(t) == pc[t] \notin {"none", "done"}

AfterOut == {"kill_in", "signal_in", "join_in", "release", "closed"}
AfterEp0 == {"kill_out", "join_out"} \cup AfterOut

\* functionfs_close() joins ep0, out and in, in this order: has it joined t by
\* the time it is at `place`?
Joined(t, place) ==
  \/ place \in {"release", "closed"}
  \/ t = "out" /\ place \in AfterOut
  \/ t = "ep0" /\ place \in AfterEp0

\* A running thread is recorded in *_thread_spawned, which shrinks as close()
\* goes on and is empty when it closes the files.
IInv ==
  /\ pc \in [Threads -> Places]
  /\ main \in {"closed", "open"} \cup CloseSteps
  /\ \A t \in Threads : Running(t) => t \in spawned
  /\ \A t \in Threads : Joined(t, main) => t \notin spawned
  /\ main # "closed" => ep_open

\* Before the first functionfs_init() nothing runs.
LEMMA InitEstablishesIInv == Init => IInv
  BY DEF Init, IInv, Running, Threads, Places

\* functionfs_init() starts only threads it records.
LEMMA InitCallPreserves == IInv /\ (functionfs_init \/ init_fails) => IInv'
<1>1. CASE functionfs_init
  <2>1. PICK S \in SUBSET Threads :
          /\ spawned' = S
          /\ pc' = [t \in Threads |-> IF t \in S THEN "check" ELSE "none"]
    BY <1>1 DEF functionfs_init
  <2>2. main' = "open" /\ ep_open' = TRUE
    BY <1>1 DEF functionfs_init
  <2> QED BY <2>1, <2>2 DEF IInv, Running, Joined, AfterEp0, AfterOut, CloseSteps, Places
<1>2. CASE init_fails
  BY <1>2 DEF init_fails, IInv, Running
<1> QED BY <1>1, <1>2

\* Steps after which a thread that was not running still is not, and nothing
\* else of the invariant changed.
LEMMA ThreadsOnly ==
  /\ IInv
  /\ UNCHANGED <<spawned, main, ep_open>>
  /\ pc' \in [Threads -> Places]
  /\ \A t \in Threads : Running(t)' => Running(t)
  => IInv'
  BY DEF IInv, Running

\* Moving one running thread.
LEMMA GotoOnly ==
  \A t \in Threads, place \in Places :
    /\ IInv
    /\ UNCHANGED <<spawned, main, ep_open>>
    /\ Running(t)
    /\ Goto(t, place)
    => IInv'
<1> TAKE t \in Threads, place \in Places
<1> HAVE /\ IInv
         /\ UNCHANGED <<spawned, main, ep_open>>
         /\ Running(t)
         /\ Goto(t, place)
<1>1. pc' \in [Threads -> Places]
  BY DEF IInv, Goto
<1>2. \A u \in Threads : Running(u)' => Running(u)
  BY DEF IInv, Goto, Running, Places
<1> QED BY <1>1, <1>2, ThreadsOnly

\* Every step of the three threads, of the host, and the scheduler's.
LEMMA ServicePreserves == IInv /\ (Service \/ in_spurious_wake \/ Host) => IInv'
<1> SUFFICES ASSUME IInv, Service \/ in_spurious_wake \/ Host PROVE IInv'
  OBVIOUS
<1>1. CASE ep0_loop
  <2>1. CASE ep0_reads
    BY <2>1, GotoOnly DEF ep0_reads, only_pc, Running, Threads, Places
  <2>2. CASE ep0_stores("enable", TRUE)
    BY <2>2, GotoOnly DEF ep0_stores, Running, Threads, Places
  <2>3. CASE ep0_stores("disable", FALSE)
    BY <2>3, GotoOnly DEF ep0_stores, Running, Threads, Places
  <2> QED BY <1>1, <2>1, <2>2, <2>3 DEF ep0_loop
<1>2. CASE out_loop
  <2>1. CASE out_reads
    BY <2>1, GotoOnly DEF out_reads, only_pc, Running, Threads, Places
  <2>2. CASE out_handled
    BY <2>2, GotoOnly DEF out_handled, only_pc, Running, Threads, Places
  <2> QED BY <1>2, <2>1, <2>2 DEF out_loop
<1>3. CASE in_loop \/ in_spurious_wake
  <2>1. CASE in_waits
    BY <2>1, GotoOnly DEF in_waits, only_pc, Running, Threads, Places
  <2>2. CASE in_takes
    BY <2>2, GotoOnly DEF in_takes, Running, Threads, Places
  <2>3. CASE in_writes
    BY <2>3, GotoOnly DEF in_writes, Running, Threads, Places
  <2>4. CASE in_spurious_wake
    BY <2>4, GotoOnly DEF in_spurious_wake, only_pc, Running, Threads, Places
  <2> QED BY <1>3, <2>1, <2>2, <2>3, <2>4 DEF in_loop
<1>4. ASSUME NEW t \in Threads, Sleeps(t) \/ ThreadEnds(t) PROVE IInv'
  <2>1. CASE Sleeps(t)
    BY <2>1, GotoOnly DEF Sleeps, only_pc, Running, Places
  <2>2. CASE ThreadEnds(t)
    BY <2>2, GotoOnly DEF ThreadEnds, only_pc, Running, Places
  <2> QED BY <1>4, <2>1, <2>2
<1>5. CASE Host
  <2>1. ASSUME NEW kind \in {"enable", "disable", "check"}, host_event(kind)
        PROVE  IInv'
    BY <2>1, GotoOnly DEF host_event, only_pc, Running, Threads, Places
  <2>2. CASE host_output
    BY <2>2, GotoOnly DEF host_output, only_pc, Running, Threads, Places
  <2>3. CASE host_polls
    BY <2>3, GotoOnly DEF host_polls, Running, Threads, Places
  <2>4. CASE host_resets
    <3>1. pc' \in [Threads -> Places] /\ \A t \in Threads : Running(t)' => Running(t)
      BY <2>4 DEF host_resets, IInv, Running, Places
    <3> QED BY <2>4, <3>1, ThreadsOnly DEF host_resets
  <2> QED BY <1>5, <2>1, <2>2, <2>3, <2>4 DEF Host
<1> QED BY <1>1, <1>2, <1>3, <1>4, <1>5 DEF Service

\* functionfs_close() forgets a thread only when it has been joined.
LEMMA ClosePreserves == IInv /\ (close_begins \/ functionfs_close) => IInv'
<1> SUFFICES ASSUME IInv, close_begins \/ functionfs_close PROVE IInv'
  OBVIOUS
<1> USE DEF IInv, Joined, AfterEp0, AfterOut, Threads, CloseSteps
<1>1. CASE close_begins
  BY <1>1 DEF close_begins, Running
<1>2. CASE close_clears_open
  BY <1>2 DEF close_clears_open, Running
<1>3. CASE \/ close_kills("ep0", "kill_ep0", "join_ep0")
           \/ close_kills("out", "kill_out", "join_out")
           \/ close_kills("in", "kill_in", "signal_in")
  <2>1. pc' \in [Threads -> Places] /\ \A t \in Threads : Running(t)' => Running(t)
    BY <1>3 DEF close_kills, Interrupted, Running, Places
  <2> QED BY <1>3, <2>1 DEF close_kills
<1>4. CASE close_joins("ep0", "join_ep0", "kill_out")
  BY <1>4 DEF close_joins, Goto, Running, Places
<1>5. CASE close_joins("out", "join_out", "kill_in")
  BY <1>5 DEF close_joins, Goto, Running, Places
<1>6. CASE close_joins("in", "join_in", "release")
  BY <1>6 DEF close_joins, Goto, Running, Places
<1>7. CASE close_signals_in
  <2>1. pc' \in [Threads -> Places] /\ \A t \in Threads : Running(t)' => Running(t)
    BY <1>7 DEF close_signals_in, Signalled, Running, Places
  <2> QED BY <1>7, <2>1 DEF close_signals_in
<1>8. CASE close_releases
  BY <1>8 DEF close_releases, Running
<1> QED BY <1>1, <1>2, <1>3, <1>4, <1>5, <1>6, <1>7, <1>8 DEF functionfs_close

\* One case per step of init and close, and per thread.
LEMMA NextPreservesIInv == IInv /\ [Next]_vars => IInv'
<1> SUFFICES ASSUME IInv, [Next]_vars PROVE IInv'
  OBVIOUS
<1>1. CASE functionfs_init \/ init_fails
  BY <1>1, InitCallPreserves
<1>2. CASE functionfs_send_input_report
  <2>1. pc' \in [Threads -> Places] /\ \A t \in Threads : Running(t)' => Running(t)
    BY <1>2 DEF functionfs_send_input_report, Signalled, IInv, Running, Threads, Places
  <2> QED BY <1>2, <2>1, ThreadsOnly DEF functionfs_send_input_report
<1>3. CASE close_begins \/ functionfs_close
  BY <1>3, ClosePreserves
<1>4. CASE Service \/ in_spurious_wake \/ Host
  BY <1>4, ServicePreserves
<1>5. CASE UNCHANGED vars
  BY <1>5 DEF vars, IInv, Running
<1> QED BY <1>1, <1>2, <1>3, <1>4, <1>5 DEF Next

\* The inductive invariant of the backend.
THEOREM InductiveInvariant == Spec => []IInv
  BY InitEstablishesIInv, NextPreservesIInv, PTL DEF Spec

\* The endpoint files are open as long as a thread may use them
\* (functionfs_close() joins every started thread before it closes them).
THEOREM ThreadsKeepDevice == Spec => []ThreadsHaveDevice
<1>1. IInv => ThreadsHaveDevice
  BY DEF IInv, ThreadsHaveDevice, Running, Joined, AfterEp0, AfterOut
<1> QED BY <1>1, InductiveInvariant, PTL

-----------------------------------------------------------------------------
(* The order of input reports *)

\* The report in the mailbox is newer than the copy in_loop() took, and the copy
\* it has not written yet is newer than everything the host has read.
Order ==
  /\ received \in Seq(Nat)
  /\ sent \in Nat /\ pending_report \in 0 .. sent /\ local_buf \in Nat
  /\ report_pending => local_buf < pending_report
  /\ local_buf <= pending_report
  /\ \A i \in DOMAIN received : received[i] <= local_buf
  /\ pc["in"] \in {"taken", "enter", "blocked"} =>
       \A i \in DOMAIN received : received[i] < local_buf
  /\ InputInOrder

\* What the order is about.
ordered == <<sent, pending_report, local_buf, report_pending, received>>

\* Steps that only move threads, none of them in_loop() towards its write.
LEMMA OtherStepsKeepOrder ==
  /\ Order
  /\ UNCHANGED ordered
  /\ pc'["in"] \in {"taken", "enter", "blocked"} => pc["in"] \in {"taken", "enter", "blocked"}
  => Order'
  BY DEF Order, ordered, InputInOrder

\* What Append does to the elements.
LEMMA Appending ==
  ASSUME NEW S, NEW s \in Seq(S), NEW e \in S
  PROVE  /\ Append(s, e) \in Seq(S)
         /\ Len(Append(s, e)) = Len(s) + 1 /\ Len(s) \in Nat
         /\ DOMAIN Append(s, e) = 1 .. Len(s) + 1
         /\ \A i \in 1 .. Len(s) : Append(s, e)[i] = s[i]
         /\ Append(s, e)[Len(s) + 1] = e
  OBVIOUS

\* The host reads what in_loop() wrote.
LEMMA HostPollsKeepsOrder == Order /\ IInv /\ host_polls => Order'
<1> SUFFICES ASSUME Order, IInv, host_polls PROVE Order'
  OBVIOUS
<1>1. /\ received' = Append(received, local_buf) /\ pc["in"] = "blocked" /\ pc'["in"] = "check"
      /\ UNCHANGED <<sent, pending_report, local_buf, report_pending>>
  BY DEF host_polls, Goto, IInv, Threads, mailbox
<1>2. /\ received \in Seq(Nat) /\ local_buf \in Nat
      /\ \A i \in 1 .. Len(received) : received[i] < local_buf
  BY <1>1 DEF Order
<1>3. /\ received' \in Seq(Nat) /\ DOMAIN received' = 1 .. Len(received) + 1
      /\ \A i \in 1 .. Len(received) : received'[i] = received[i]
      /\ received'[Len(received) + 1] = local_buf
  BY <1>1, <1>2, Appending
<1> DEFINE n == Len(received)
<1>0. n \in Nat
  BY <1>2
<1> HIDE DEF n
<1>4. \A i \in DOMAIN received' : received'[i] <= local_buf
  <2> SUFFICES ASSUME NEW i \in DOMAIN received' PROVE received'[i] <= local_buf
    OBVIOUS
  <2>1. i \in 1 .. n \/ i = n + 1
    BY <1>0, <1>3 DEF n
  <2>2. \A k \in 1 .. n : received'[k] = received[k] /\ received[k] < local_buf /\ received[k] \in Nat
    <3>1. \A k \in 1 .. n : received[k] \in Nat
      BY <1>2 DEF n
    <3> QED BY <1>2, <1>3, <3>1 DEF n
  <2>3. received'[n + 1] = local_buf
    BY <1>3 DEF n
  <2>4. CASE i \in 1 .. n
    BY <1>2, <2>2, <2>4
  <2> QED BY <1>2, <2>1, <2>3, <2>4
<1>5. InputInOrder'
  <2> SUFFICES ASSUME NEW i \in DOMAIN received', NEW j \in DOMAIN received', i < j
               PROVE  received'[i] < received'[j]
    BY DEF InputInOrder
  <2>1. i \in 1 .. n /\ (j \in 1 .. n \/ j = n + 1)
    BY <1>0, <1>3 DEF n
  <2>2. CASE j = n + 1
    <3>1. received[i] < local_buf
      BY <1>2, <2>1 DEF n
    <3> QED BY <1>3, <2>1, <2>2, <3>1 DEF n
  <2>3. CASE j \in 1 .. n
    <3>1. received[i] < received[j]
      BY <1>2, <2>1, <2>3 DEF Order, InputInOrder, n
    <3> QED BY <1>3, <2>1, <2>3, <3>1 DEF n
  <2> QED BY <2>1, <2>2, <2>3
<1> QED BY <1>1, <1>3, <1>4, <1>5 DEF Order

\* main() puts newer reports into the mailbox, in_loop() copies them.
LEMMA NextKeepsOrder == Order /\ IInv /\ [Next]_vars => Order'
<1> SUFFICES ASSUME Order, IInv, [Next]_vars PROVE Order'
  OBVIOUS
<1> USE DEF IInv, Threads
<1>1. CASE functionfs_init
  BY <1>1 DEF functionfs_init, Order, InputInOrder
<1>2. CASE init_fails
  BY <1>2 DEF init_fails, history, Order, InputInOrder
<1>3. CASE functionfs_send_input_report
  <2>1. pc'["in"] \in {"taken", "enter", "blocked"} => pc["in"] \in {"taken", "enter", "blocked"}
    BY <1>3 DEF functionfs_send_input_report, Signalled
  <2> QED BY <1>3, <2>1 DEF functionfs_send_input_report, Order, InputInOrder
<1>4. CASE close_begins
  BY <1>4, OtherStepsKeepOrder DEF close_begins, ordered, mailbox, history
<1>5. CASE functionfs_close
  <2>1. UNCHANGED ordered
    BY <1>5 DEF functionfs_close, close_clears_open, close_kills, close_joins,
       close_signals_in, close_releases, ordered, mailbox, history
  <2>2. pc'["in"] \in {"taken", "enter", "blocked"} => pc["in"] \in {"taken", "enter", "blocked"}
    BY <1>5 DEF functionfs_close, close_clears_open, close_kills, close_joins,
       close_signals_in, close_releases, Interrupted, Signalled, Goto
  <2> QED BY <2>1, <2>2, OtherStepsKeepOrder
<1>6. CASE in_takes
  BY <1>6 DEF in_takes, history, Goto, Order, InputInOrder
<1>7. CASE ep0_loop \/ out_loop \/ in_waits \/ in_writes \/ in_spurious_wake
  BY <1>7, OtherStepsKeepOrder DEF ep0_loop, ep0_reads, ep0_stores, out_loop, out_reads,
     out_handled, in_waits, in_writes, in_spurious_wake, only_pc, ordered, mailbox, history, Goto
<1>8. ASSUME NEW t \in Threads, Sleeps(t) \/ ThreadEnds(t) PROVE Order'
  BY <1>8, OtherStepsKeepOrder DEF Sleeps, ThreadEnds, only_pc, ordered, mailbox, history, Goto
<1>9. CASE \/ \E kind \in {"enable", "disable", "check"} : host_event(kind)
           \/ host_output \/ host_resets
  BY <1>9, OtherStepsKeepOrder DEF host_event, host_output, host_resets, only_pc, ordered,
     mailbox, history, Goto
<1>10. CASE host_polls
  BY <1>10, HostPollsKeepsOrder
<1>11. CASE UNCHANGED vars
  BY <1>11, OtherStepsKeepOrder DEF vars, ordered
<1> QED
  BY <1>1, <1>2, <1>3, <1>4, <1>5, <1>6, <1>7, <1>8, <1>9, <1>10, <1>11
  DEF Next, Service, in_loop, Host

\* The host reads input reports in the order main() sent them and none twice,
\* for any number of reports, openings and resets.
THEOREM InputArrivesInOrder == Spec => []InputInOrder
<1>1. Init => Order
  BY DEF Init, Order, InputInOrder
<1>2. Order => InputInOrder
  BY DEF Order
<1> QED BY <1>1, <1>2, InductiveInvariant, NextKeepsOrder, PTL DEF Spec

-----------------------------------------------------------------------------
(* The newest input report *)

Writing == pc["in"] \in {"taken", "enter", "blocked"}

\* While the device is open the report sent last is in the mailbox, with a thread
\* that is awake, or in in_loop()'s hands, or read, or dropped by a reset or an
\* unconfigured device: no overwriting, waking or waiting loses it.  This is what
\* NewestInputDelivered rests on besides the scheduling.
NewestIsKept ==
  main = "open" /\ sent > 0 =>
    /\ pending_report = sent
    /\ IF report_pending THEN pc["in"] # "cond"
       ELSE /\ local_buf = sent
            /\ Writing \/ lost = sent \/ (received # <<>> /\ received[Len(received)] = sent)

\* Steps that leave the reports where they are.
LEMMA OtherStepsKeepNewest ==
  ASSUME NewestIsKept, UNCHANGED <<ordered, lost>>,
         main' = "open" => main = "open",
         Writing => Writing',
         pc'["in"] = "cond" => pc["in"] = "cond" \/ ~report_pending
  PROVE  NewestIsKept'
  BY DEF NewestIsKept, ordered

\* in_loop() gives up its report only when it was read or dropped.
LEMMA NextKeepsNewest == IInv /\ Order /\ NewestIsKept /\ [Next]_vars => NewestIsKept'
<1> SUFFICES ASSUME IInv, Order, NewestIsKept, [Next]_vars PROVE NewestIsKept'
  OBVIOUS
<1> USE DEF IInv, Threads
<1>1. CASE functionfs_init \/ init_fails \/ close_begins \/ functionfs_close
  <2>1. main' # "open" \/ sent' = 0
    BY <1>1 DEF functionfs_init, init_fails, close_begins, functionfs_close, close_clears_open,
       close_kills, close_joins, close_signals_in, close_releases
  <2> QED BY <2>1 DEF NewestIsKept
<1>2. CASE functionfs_send_input_report
  <2>1. pc'["in"] # "cond"
    BY <1>2 DEF functionfs_send_input_report, Signalled, Places
  <2> QED BY <1>2, <2>1 DEF functionfs_send_input_report, NewestIsKept
<1>3. CASE in_takes
  <2>1. pc'["in"] = "taken"
    BY <1>3 DEF in_takes, Goto
  <2> QED BY <1>3, <2>1 DEF in_takes, history, NewestIsKept, Writing
<1>4. CASE in_writes
  <2>1. pc'["in"] = IF configured THEN "enter" ELSE "check"
    BY <1>4 DEF in_writes, Goto
  <2>2. lost' = IF configured THEN lost ELSE local_buf
    BY <1>4 DEF in_writes
  <2>3. UNCHANGED <<ordered, main>> /\ Writing
    BY <1>4 DEF in_writes, mailbox, ordered, Writing
  <2> QED BY <2>1, <2>2, <2>3 DEF NewestIsKept, Writing, ordered
<1>5. CASE host_polls
  <2>1. /\ received' = Append(received, local_buf) /\ pc'["in"] = "check"
        /\ UNCHANGED <<sent, pending_report, report_pending, local_buf, main>>
    BY <1>5 DEF host_polls, mailbox, Goto
  <2>2. received' # <<>> /\ received'[Len(received')] = local_buf
    <3>1. received \in Seq(Nat) /\ local_buf \in Nat
      BY DEF Order
    <3>2. Len(received') = Len(received) + 1 /\ received'[Len(received) + 1] = local_buf /\ Len(received) \in Nat
      BY <2>1, <3>1, Appending
    <3> QED BY <3>2
  <2> QED BY <2>1, <2>2 DEF NewestIsKept
<1>6. CASE host_resets
  <2>1. /\ pc'["in"] = IF pc["in"] = "blocked" THEN "check" ELSE pc["in"]
        /\ lost' = IF pc["in"] = "blocked" THEN local_buf ELSE lost
        /\ UNCHANGED <<ordered, main>>
    BY <1>6 DEF host_resets, mailbox, ordered
  <2> QED BY <2>1 DEF NewestIsKept, Writing, ordered
<1>7. CASE in_waits
  BY <1>7, OtherStepsKeepNewest DEF in_waits, only_pc, mailbox, history, ordered, Goto, Writing
<1>8. CASE ep0_loop \/ out_loop \/ in_spurious_wake
  BY <1>8, OtherStepsKeepNewest DEF ep0_loop, ep0_reads, ep0_stores, out_loop, out_reads, out_handled,
     in_spurious_wake, only_pc, mailbox, history, ordered, Goto, Writing
<1>9. ASSUME NEW t \in Threads, Sleeps(t) \/ ThreadEnds(t) PROVE NewestIsKept'
  BY <1>9, OtherStepsKeepNewest DEF Sleeps, ThreadEnds, only_pc, mailbox, history, ordered, Goto, Writing
<1>10. CASE host_output \/ \E kind \in {"enable", "disable", "check"} : host_event(kind)
  BY <1>10, OtherStepsKeepNewest DEF host_output, host_event, only_pc, mailbox, history, ordered, Goto, Writing
<1>11. CASE UNCHANGED vars
  BY <1>11, OtherStepsKeepNewest DEF vars, ordered, Writing
<1> QED
  BY <1>1, <1>2, <1>3, <1>4, <1>5, <1>6, <1>7, <1>8, <1>9, <1>10, <1>11
  DEF Next, Service, in_loop, Host

\* Both invariants of the reports.
LEMMA OrderInvariant == Spec => [](IInv /\ Order)
<1>1. Init => Order
  BY DEF Init, Order, InputInOrder
<1> QED BY <1>1, InductiveInvariant, NextKeepsOrder, PTL DEF Spec

\* The mailbox may skip reports but never the newest one, for any number of them
\* (functionfs_send_input_report(), in_loop()).
THEOREM NewestInputIsKept == Spec => []NewestIsKept
<1>1. Init => NewestIsKept
  BY DEF Init, NewestIsKept
<1> QED BY <1>1, OrderInvariant, NextKeepsNewest, PTL DEF Spec

-----------------------------------------------------------------------------
(* Types *)

\* What TypeOK says beyond IInv; a report in in_loop()'s hands is a real one.
Types ==
  /\ device_open \in BOOLEAN /\ configured \in BOOLEAN /\ ep_open \in BOOLEAN
  /\ report_pending \in BOOLEAN
  /\ spawned \in SUBSET Threads
  /\ sent <= MaxReports
  /\ lost \in 0 .. MaxReports
  /\ received \in Seq(1 .. MaxReports)
  /\ Writing => local_buf >= 1

\* The counters and queues of a device that has just been opened.
LEMMA NoReportsYet == 0 <= MaxReports /\ 0 \in 0 .. MaxReports /\ <<>> \in Seq(1 .. MaxReports)
  BY FunctionFSAssumption

\* The mailbox keeps the reports within the range of those that were sent.
LEMMA NextKeepsTypes == IInv /\ Order /\ Types /\ [Next]_vars => Types'
<1> SUFFICES ASSUME IInv, Order, Types, [Next]_vars PROVE Types'
  OBVIOUS
<1> USE FunctionFSAssumption DEF IInv, Types
<1>0. sent \in Nat /\ local_buf \in 0 .. MaxReports /\ pending_report \in 0 .. MaxReports
  BY DEF Order
<1>1. CASE functionfs_init
  <2>1. /\ pc'["in"] \in {"check", "none"} /\ spawned' \in SUBSET Threads
        /\ device_open' = TRUE /\ configured' = FALSE /\ ep_open' = TRUE /\ report_pending' = FALSE
        /\ sent' = 0 /\ lost' = 0 /\ received' = <<>>
    BY <1>1 DEF functionfs_init, Threads
  <2> QED BY <2>1, NoReportsYet DEF Writing
<1>2. CASE init_fails \/ close_begins
  BY <1>2 DEF init_fails, close_begins, mailbox, history, Writing
<1>3. CASE functionfs_send_input_report
  BY <1>0, <1>3 DEF functionfs_send_input_report, Signalled, Writing, Threads
<1>4. CASE functionfs_close
  <2>1. /\ UNCHANGED <<configured, local_buf, mailbox, history>> /\ device_open' \in BOOLEAN
        /\ ep_open' \in BOOLEAN /\ spawned' \in SUBSET Threads
        /\ pc'["in"] \in {pc["in"], "check", "none"}
    BY <1>4 DEF functionfs_close, close_clears_open, close_kills, close_joins,
       close_signals_in, close_releases, Interrupted, Signalled, Goto, Threads
  <2> QED BY <2>1 DEF mailbox, history, Writing
<1>5. CASE in_takes
  <2>1. local_buf' = pending_report /\ local_buf < pending_report /\ pending_report >= 1
    BY <1>0, <1>5 DEF in_takes, Order
  <2> QED BY <1>5, <2>1 DEF in_takes, history, Writing
<1>6. CASE host_polls
  <2>1. /\ received' = Append(received, local_buf) /\ local_buf \in 1 .. MaxReports /\ pc'["in"] = "check"
        /\ UNCHANGED <<device_open, configured, spawned, local_buf, report_pending, ep_open, sent, lost>>
    BY <1>0, <1>6 DEF host_polls, mailbox, Goto, Writing, Threads
  <2>2. received' \in Seq(1 .. MaxReports)
    BY <2>1
  <2> QED BY <2>1, <2>2 DEF Writing
<1>7. CASE in_writes
  BY <1>0, <1>7 DEF in_writes, Goto, mailbox, Writing, Threads
<1>8. CASE host_resets
  BY <1>0, <1>8 DEF host_resets, mailbox, Writing, Threads
<1>9. ASSUME UNCHANGED <<device_open, spawned, local_buf, mailbox, ep_open, history>>,
             configured' \in BOOLEAN, Writing' => Writing
      PROVE  Types'
  BY <1>9 DEF mailbox, history
<1>10. CASE in_waits \/ in_spurious_wake \/ out_loop
  <2>1. UNCHANGED only_pc
    BY <1>10 DEF in_waits, in_spurious_wake, out_loop, out_reads, out_handled
  <2>2. Writing' => Writing
    BY <1>10 DEF in_waits, in_spurious_wake, out_loop, out_reads, out_handled, Goto, Writing, Threads
  <2> QED BY <1>9, <2>1, <2>2 DEF only_pc
<1>11. CASE ep0_loop
  <2>1. UNCHANGED <<device_open, spawned, local_buf, mailbox, ep_open, history>> /\ configured' \in BOOLEAN
    BY <1>11 DEF ep0_loop, ep0_reads, ep0_stores, only_pc
  <2>2. Writing' => Writing
    BY <1>11 DEF ep0_loop, ep0_reads, ep0_stores, Goto, Writing, Threads
  <2> QED BY <1>9, <2>1, <2>2
<1>12. ASSUME NEW t \in Threads, Sleeps(t) \/ ThreadEnds(t) PROVE Types'
  <2>1. UNCHANGED only_pc
    BY <1>12 DEF Sleeps, ThreadEnds
  <2>2. Writing' => Writing
    BY <1>12 DEF Sleeps, ThreadEnds, Goto, Writing, Threads
  <2> QED BY <1>9, <2>1, <2>2 DEF only_pc
<1>13. CASE host_output \/ \E kind \in {"enable", "disable", "check"} : host_event(kind)
  <2>1. UNCHANGED only_pc
    BY <1>13 DEF host_output, host_event
  <2>2. Writing' => Writing
    BY <1>13 DEF host_output, host_event, Goto, Writing, Threads
  <2> QED BY <1>9, <2>1, <2>2 DEF only_pc
<1>14. CASE UNCHANGED vars
  BY <1>14 DEF vars, Writing
<1> QED
  BY <1>1, <1>2, <1>3, <1>4, <1>5, <1>6, <1>7, <1>8, <1>10, <1>11, <1>12, <1>13, <1>14
  DEF Next, Service, in_loop, Host

\* Every variable of the backend keeps its type, and the host reads only reports
\* that were sent.
THEOREM TypeCorrect == Spec => []TypeOK
<1>1. Init => Types
  <2> SUFFICES ASSUME Init PROVE Types
    OBVIOUS
  <2>1. pc["in"] = "none"
    BY DEF Init, Threads
  <2>2. /\ device_open \in BOOLEAN /\ configured \in BOOLEAN /\ ep_open \in BOOLEAN
        /\ report_pending \in BOOLEAN /\ spawned \in SUBSET Threads
        /\ sent = 0 /\ lost = 0 /\ received = <<>>
    BY DEF Init
  <2> QED BY <2>1, <2>2, NoReportsYet DEF Types, Writing
<1>2. IInv /\ Order /\ Types => TypeOK
  BY FunctionFSAssumption DEF IInv, Order, Types, TypeOK
<1> QED BY <1>1, <1>2, OrderInvariant, NextKeepsTypes, PTL DEF Spec

-----------------------------------------------------------------------------
(* close() and the condition variable *)

\* close() clears device_open before it signals in_loop(), and in_loop() looks at
\* the flag before it waits: close() never joins it asleep on report_cond.
NoJoinOfWaiter == main = "join_in" => pc["in"] # "cond"

CloseInv ==
  /\ device_open => main \in {"open", "clear"}
  /\ main \in {"join_in", "release", "closed"} => pc["in"] # "cond"

\* Every thread that starts to wait is one that close() is still going to wake.
LEMMA NextKeepsCloseInv == IInv /\ CloseInv /\ [Next]_vars => CloseInv'
<1> SUFFICES ASSUME IInv, CloseInv, [Next]_vars PROVE CloseInv'
  OBVIOUS
<1> USE DEF IInv, CloseInv, Threads
<1>1. CASE functionfs_init \/ init_fails
  BY <1>1 DEF functionfs_init, init_fails
<1>2. CASE functionfs_send_input_report \/ close_begins \/ close_clears_open
  BY <1>2 DEF functionfs_send_input_report, Signalled, close_begins, close_clears_open
<1>3. CASE functionfs_close
  BY <1>2, <1>3 DEF functionfs_close, close_kills, close_joins, close_signals_in, close_releases,
     Interrupted, Signalled, Goto, Places
<1>4. CASE in_loop \/ in_spurious_wake
  BY <1>4 DEF in_loop, in_waits, in_takes, in_writes, in_spurious_wake, only_pc, mailbox, Goto
<1>5. CASE ep0_loop \/ out_loop
  BY <1>5 DEF ep0_loop, ep0_reads, ep0_stores, out_loop, out_reads, out_handled, only_pc, Goto
<1>6. ASSUME NEW t \in Threads, Sleeps(t) \/ ThreadEnds(t) PROVE CloseInv'
  BY <1>6 DEF Sleeps, ThreadEnds, only_pc, Goto
<1>7. CASE Host
  BY <1>7 DEF Host, host_output, host_event, host_polls, host_resets, only_pc, mailbox, Goto
<1>8. CASE UNCHANGED vars
  BY <1>8 DEF vars
<1> QED BY <1>1, <1>2, <1>3, <1>4, <1>5, <1>6, <1>7, <1>8 DEF Next, Service

\* No lost wakeup at the end: functionfs_close() does not wait for an in_loop()
\* that waits for a report.
THEOREM CloseWakesInput == Spec => []NoJoinOfWaiter
<1>1. Init => CloseInv
  BY DEF Init, CloseInv, Threads
<1>2. CloseInv => NoJoinOfWaiter
  BY DEF CloseInv, NoJoinOfWaiter
<1> QED BY <1>1, <1>2, NextKeepsCloseInv, InductiveInvariant, PTL DEF Spec
===============================================================================
