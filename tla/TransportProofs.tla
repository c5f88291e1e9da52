--------------------------- MODULE TransportProofs ---------------------------
(***************************************************************************)
(* main(), the pump and the watchdog in every order, for any capacity of   *)
(* the socket pair, any number of reports and claim attempts, and any set  *)
(* of faults: who closes the handle, what is left behind, that nothing but *)
(* a loss hangs up, that output reports arrive in order and the newest is  *)
(* kept, that close() tells the threads it waits for, and that the         *)
(* descriptor behaves like a hidraw node.                                  *)
(***************************************************************************)
EXTENDS Transport, TLAPS

InUse == {"running"} \cup CloseSteps
Holding == {"detach", "claim", "settle", "give_up", "pipe", "open"} \cup InUse

\* Which threads run, and what the watchdog has done to the handle.
Threads ==
  /\ main \in UsbOpenSteps \cup {"open"} => kind = "usb"
  /\ main = "bpf_setup" => kind = "bpf"
  /\ watchdog # "none" => kind = "usb" /\ main \in InUse
  /\ pump # "none" => main \in InUse
  /\ main \in {"join_watchdog", "release"} => Ended(pump)
  /\ main = "release" => Ended(watchdog)
  /\ main \notin InUse => ~force_closed
  /\ kind = "usb" /\ main \in Holding =>
       /\ watchdog \in {"none", "wait", "look", "ask"} => ~force_closed /\ handle
       /\ watchdog = "close" => force_closed /\ handle
       /\ watchdog = "done" => (force_closed <=> ~handle)

\* Who owns the controller at each place of main().  The watchdog closes the
\* handle only of an interface that is lost already: without this a forced
\* close could leave a claimed interface to nobody.
Ownership ==
  /\ alive => present /\ main \notin {"idle", "dead"}
  /\ driver # "kernel" => kind = "usb" /\ present /\ (mishap \/ alive)
  /\ program => kind = "bpf" /\ present /\ (mishap \/ alive)
  /\ attempt > MaxClaimAttempts => main = "give_up"
  /\ alive /\ main = "find" => driver = "usbhid"
  /\ alive /\ main = "claim" => driver \in {"none", "kernel"}
  /\ alive /\ main = "give_up" /\ ~mishap => driver \in {"usbhid", "kernel"}
  /\ kind = "usb" /\ alive /\ main \in {"settle", "pipe", "open"} \cup InUse =>
       driver \in {"claimed", "kernel"}
  /\ alive /\ (force_closed \/ watchdog = "close") => driver = "kernel"

\* What the socket pair and the pump hold belongs to this connection.
Contents ==
  /\ main \notin InUse => hup = FALSE /\ inbox = <<>> /\ received = 0
  /\ main = "running" /\ hup => pump = "done"
  /\ pump = "deliver" => held = received /\ received > 0

IInv == TypeOK /\ Threads /\ Ownership /\ Contents

-----------------------------------------------------------------------------
(* Places *)

\* The places of main(), spelt out.
LEMMA Places ==
  /\ UsbOpenSteps = {"find", "detach", "claim", "settle", "give_up", "pipe"}
  /\ CloseSteps = {"join_pump", "join_watchdog", "release"}
  /\ InUse = {"running", "join_pump", "join_watchdog", "release"}
  /\ MainPlaces = {"idle", "bpf_setup", "open", "running", "dead", "find", "detach", "claim",
                   "settle", "give_up", "pipe", "join_pump", "join_watchdog", "release"}
  BY DEF UsbOpenSteps, CloseSteps, InUse, MainPlaces

\* Before the first open nothing is held.
LEMMA InitEstablishesIInv == Init => IInv
<1> SUFFICES ASSUME Init PROVE IInv
  OBVIOUS
<1>1. TypeOK
  <2>1. inbox \in Seq(Numbers) /\ outbox \in Seq(Numbers)
    BY DEF Init
  <2>2. 0 \in Numbers /\ 0 \in 0 .. CheckEvery - 1 /\ 1 \in 1 .. MaxClaimAttempts + 1
    BY TransportAssumption DEF Numbers
  <2> QED BY <2>1, <2>2 DEF Init, TypeOK, MainPlaces, PumpPlaces, WatchdogPlaces
<1>2. Threads /\ Ownership /\ Contents
  BY TransportAssumption, Places DEF Init, Threads, Ownership, Contents, Holding, Ended
<1> QED BY <1>1, <1>2 DEF IInv

-----------------------------------------------------------------------------
(* Opening over USB *)

\* A transport that is deleted, after a close or an open that failed, holds nothing.
LEMMA DeletedIsClean ==
  ASSUME IInv, Deleted, UNCHANGED <<rigid, present>>,
         driver' \in {"kernel", "usbhid", "none", "claimed"}, program' \in BOOLEAN,
         mishap' \in BOOLEAN, alive' = FALSE,
         driver' # "kernel" => kind = "usb" /\ present /\ mishap',
         program' => kind = "bpf" /\ present /\ mishap'
  PROVE  IInv'
<1>1. TypeOK'
  <2>1. inbox' \in Seq(Numbers) /\ outbox' \in Seq(Numbers)
    BY DEF Deleted, Forgotten
  <2>2. 0 \in Numbers /\ 0 \in 0 .. CheckEvery - 1 /\ 1 \in 1 .. MaxClaimAttempts + 1
    BY TransportAssumption DEF Numbers
  <2> QED BY <2>1, <2>2 DEF IInv, TypeOK, Deleted, Forgotten, rigid, MainPlaces, PumpPlaces,
             WatchdogPlaces
<1>2. Threads' /\ Ownership' /\ Contents'
  BY TransportAssumption, Places DEF Threads, Ownership, Contents, Holding, Ended, Deleted,
     Forgotten, rigid
<1> QED BY <1>1, <1>2 DEF IInv

\* The open of the USB transport, with its retries.
LEMMA UsbOpenPreserves == IInv /\ UsbOpen => IInv'
<1> SUFFICES ASSUME IInv, UsbOpen PROVE IInv'
  OBVIOUS
<1> USE Places DEF IInv, Threads, Ownership, Contents, Holding
<1>1. CASE hid_id_unbind
  <2>1. TypeOK'
    BY <1>1 DEF hid_id_unbind, opening, unopened, rigid, flags, pumping, pipe, counts, TypeOK
  <2> QED BY <1>1, <2>1 DEF hid_id_unbind, opening, unopened, rigid, flags, pumping, pipe, counts,
       TypeOK, Ended
<1>2. CASE find_device
  BY <1>2 DEF find_device, opening, unopened, rigid, flags, pumping, pipe, counts, TypeOK, Ended
<1>3. CASE find_fails
  BY <1>3, DeletedIsClean DEF find_fails, unopened, rigid, TypeOK, Bound
<1>4. CASE detach_kernel_driver
  BY <1>4 DEF detach_kernel_driver, opening, unopened, rigid, flags, pumping, pipe, counts, TypeOK, Ended
<1>5. CASE claim_interface
  BY <1>5, TransportAssumption DEF claim_interface, NextAttempt, unopened, rigid, flags, pumping,
       pipe, counts, TypeOK, Ended
<1>6. CASE claim_settles
  BY <1>6, TransportAssumption DEF claim_settles, NextAttempt, Released, opening, unopened, rigid,
       flags, pumping,
     pipe, counts, TypeOK, Ended
<1>7. CASE give_up
  BY <1>7, DeletedIsClean DEF give_up, unopened, rigid, TypeOK, Bound
<1>8. CASE pipe_opens
  BY <1>8 DEF pipe_opens, opening, unopened, rigid, flags, pumping, pipe, counts, TypeOK, Ended
<1>9. CASE pipe_fails
  BY <1>9, DeletedIsClean DEF pipe_fails, unopened, rigid, TypeOK, Released
<1>10. CASE transport_start
  BY <1>10 DEF transport_start, rigid, device, flags, pipe, counts, TypeOK, Ended, PumpPlaces, WatchdogPlaces
<1> QED BY <1>1, <1>2, <1>3, <1>4, <1>5, <1>6, <1>7, <1>8, <1>9, <1>10 DEF UsbOpen

-----------------------------------------------------------------------------
(* Opening over Bluetooth, and main() while the transport runs *)

\* The open of the HID-BPF transport.
LEMMA BpfOpenPreserves == IInv /\ BpfOpen => IInv'
<1> SUFFICES ASSUME IInv, BpfOpen PROVE IInv'
  OBVIOUS
<1> USE Places DEF IInv, Threads, Ownership, Contents, Holding
<1>1. CASE bpf_add
  BY <1>1 DEF bpf_add, rigid, pumping, flags, pipe, counts, TypeOK, Ended
<1>2. CASE bpf_opens
  BY <1>2 DEF bpf_opens, rigid, device, flags, pipe, counts, TypeOK, Ended, PumpPlaces
<1>3. CASE bpf_open_fails
  BY <1>3, DeletedIsClean DEF bpf_open_fails, rigid, TypeOK
<1> QED BY <1>1, <1>2, <1>3 DEF BpfOpen

\* What main() does with an open transport.
LEMMA MainPreserves == IInv /\ (read_report \/ write_output \/ close_begins \/ Closing) => IInv'
<1> SUFFICES ASSUME IInv, read_report \/ write_output \/ close_begins \/ Closing PROVE IInv'
  OBVIOUS
<1> USE Places DEF IInv, Threads, Ownership, Contents, Holding
<1>1. CASE read_report
  BY <1>1 DEF read_report, connected, rigid, device, flags, pumping, counts, TypeOK, Ended
<1>2. CASE write_output
  <2>1. offered' \in Numbers
    BY <1>2, TransportAssumption DEF write_output, TypeOK, Numbers
  <2>2. outbox' \in Seq(Numbers)
    BY <1>2, <2>1 DEF write_output, TypeOK
  <2> QED BY <1>2, <2>1, <2>2 DEF write_output, connected, rigid, device, flags, pumping, TypeOK, Ended
<1>3. CASE close_begins
  BY <1>3 DEF close_begins, rigid, device, flags, pumping, counts, TypeOK, Ended
<1>4. CASE close_joins_pump \/ close_joins_watchdog
  BY <1>4 DEF close_joins_pump, close_joins_watchdog, rigid, device, flags, pumping, pipe, counts,
       TypeOK, Ended
<1>5. CASE close_releases
  BY <1>5, DeletedIsClean DEF close_releases, reattach, rigid, TypeOK, Ended
<1> QED BY <1>1, <1>2, <1>3, <1>4, <1>5 DEF Closing

-----------------------------------------------------------------------------
(* The threads *)

\* The end of the process takes the threads and the handle along.
LEMMA DeathIsClean == IInv /\ dies => IInv'
<1> SUFFICES ASSUME IInv, dies PROVE IInv'
  OBVIOUS
<1>1. TypeOK'
  <2>1. inbox' \in Seq(Numbers) /\ outbox' \in Seq(Numbers)
    BY DEF dies, Forgotten
  <2>2. 0 \in Numbers /\ 0 \in 0 .. CheckEvery - 1 /\ 1 \in 1 .. MaxClaimAttempts + 1
    BY TransportAssumption DEF Numbers
  <2> QED BY <2>1, <2>2 DEF IInv, TypeOK, dies, Released, Forgotten, unopened, rigid, MainPlaces,
             PumpPlaces, WatchdogPlaces
<1>2. Threads' /\ Ownership' /\ Contents'
  BY TransportAssumption, Places DEF IInv, TypeOK, Threads, Ownership, Contents, Holding, Ended, dies,
     Released, Forgotten, unopened, rigid
<1> QED BY <1>1, <1>2 DEF IInv

\* A step of the pump that touches only its own state and the pair.
LEMMA PumpPreserves == IInv /\ Pump => IInv'
<1> SUFFICES ASSUME IInv, Pump PROVE IInv'
  OBVIOUS
<1> USE Places DEF IInv, Threads, Ownership, Contents, Holding, connected, rigid, device, flags, Ended
<1>1. ASSUME NEW to \in PumpPlaces \ {"none", "done", "deliver"}, pump \notin {"none", "done"}, only_pump(to)
      PROVE  IInv'
  BY <1>1 DEF only_pump, pipe, counts, TypeOK
<1>2. CASE pump_top
  <2>1. CASE only_pump("shut") \/ only_pump("in")
    BY <1>2, <2>1, <1>1 DEF pump_top, PumpPlaces, Transfers
  <2>2. CASE outbox # <<>> /\ ~hup /\ pump' = "out"
    <3>1. /\ held' = IF kind = "usb" THEN Head(outbox) ELSE outbox[Len(outbox)]
          /\ outbox' = IF kind = "usb" THEN Tail(outbox) ELSE <<>>
          /\ pump = "top" /\ UNCHANGED <<connected, checks, hup, inbox, counts>>
      BY <1>2, <2>2 DEF pump_top, only_pump
    <3>2. Head(outbox) \in Numbers /\ outbox[Len(outbox)] \in Numbers
      BY <2>2 DEF TypeOK
    <3>3. Tail(outbox) \in Seq(Numbers) /\ <<>> \in Seq(Numbers)
      BY <2>2 DEF TypeOK
    <3>4. held' \in Numbers
      BY <3>1, <3>2
    <3>5. outbox' \in Seq(Numbers)
      BY <3>1, <3>3
    <3>6. TypeOK'
      BY <2>2, <3>1, <3>4, <3>5 DEF TypeOK, PumpPlaces, counts
    <3> QED BY <2>2, <3>1, <3>6 DEF counts
  <2> QED BY <1>2, <2>1, <2>2 DEF pump_top
<1>3. CASE bpf_sends
  BY <1>3, TransportAssumption DEF bpf_sends, pipe, TypeOK, PumpPlaces, Numbers
<1>4. CASE transfer_begins("out", "sending") \/ transfer_begins("in", "receiving")
  BY <1>4, <1>1 DEF transfer_begins, PumpPlaces, Transfers
<1>5. CASE transfer_on_closed_handle
  <2>1. CASE dies
    BY <2>1, DeathIsClean
  <2>2. ASSUME pump' \in {"in", "shut"}, held' = 0, UNCHANGED <<connected, checks, pipe, counts>> PROVE IInv'
    <3>1. held' \in Numbers
      BY <2>2, TransportAssumption DEF Numbers
    <3>2. TypeOK'
      BY <2>2, <3>1 DEF TypeOK, PumpPlaces, pipe, counts
    <3> QED BY <1>5, <2>2, <3>2 DEF transfer_on_closed_handle, pipe, counts
  <2> QED BY <1>5, <2>1, <2>2 DEF transfer_on_closed_handle
<1>6. CASE usb_sends
  BY <1>6, TransportAssumption DEF usb_sends, pipe, TypeOK, PumpPlaces, Numbers
<1>7. CASE pump_receives
  <2>1. received' \in Numbers /\ received' > 0
    BY <1>7, TransportAssumption DEF pump_receives, TypeOK, Numbers
  <2> QED BY <1>7, <2>1 DEF pump_receives, Listening, pipe, TypeOK, PumpPlaces
<1>8. CASE pump_times_out \/ pump_loses_device
  BY <1>8, <1>1 DEF pump_times_out, pump_loses_device, AfterReceive, Listening, PumpPlaces, Transfers
<1>9. CASE pump_delivers
  <2>1. inbox' \in Seq(Numbers)
    BY <1>9 DEF pump_delivers, TypeOK
  <2> QED BY <1>9, <2>1, TransportAssumption DEF pump_delivers, AfterReceive, counts, TypeOK,
       PumpPlaces, Numbers
<1>10. CASE bpf_checks
  <2>1. checks' \in 0 .. CheckEvery - 1
    BY <1>10, TransportAssumption DEF bpf_checks, TypeOK
  <2> QED BY <1>10, <2>1 DEF bpf_checks, pipe, counts, TypeOK, PumpPlaces
<1>11. CASE pump_shuts_down
  BY <1>11 DEF pump_shuts_down, counts, TypeOK, PumpPlaces
<1> QED BY <1>2, <1>3, <1>4, <1>5, <1>6, <1>7, <1>8, <1>9, <1>10, <1>11 DEF Pump

\* What no step of the watchdog touches.
unwatched == <<rigid, present, program, alive, mishap, main, attempt, pumping, stop_flag, pipe, counts>>

\* The handle is left alone, or condemned, or closed.
spares ==
  /\ watchdog \in {"wait", "look", "ask"} /\ watchdog' \in {"wait", "look", "ask", "done"}
  /\ driver' = driver /\ handle' = handle /\ force_closed' = force_closed
condemns ==
  /\ watchdog \in {"look", "ask"} /\ watchdog' = "close"
  /\ alive => driver = "kernel"
  /\ driver' = driver /\ handle' = handle /\ force_closed' = TRUE
closes ==
  /\ watchdog = "close" /\ watchdog' = "done"
  /\ driver' = Released /\ handle' = FALSE /\ force_closed' = force_closed

\* A step of the watchdog is one of the three.
LEMMA WatchdogSteps ==
  ASSUME Watchdog
  PROVE  UNCHANGED unwatched /\ (spares \/ condemns \/ closes)
<1> USE DEF unwatched, rigid, device, flags, spares, condemns, closes
<1>1. CASE watchdog_wakes
  BY <1>1 DEF watchdog_wakes, only_watchdog
<1>2. ASSUME watchdog_condemns, watchdog \in {"look", "ask"}, alive => driver = "kernel"
      PROVE  UNCHANGED unwatched /\ condemns
  BY <1>2 DEF watchdog_condemns
<1>3. CASE watchdog_looks
  BY <1>3, <1>2 DEF watchdog_looks, only_watchdog
<1>4. CASE watchdog_asks
  BY <1>4, <1>2 DEF watchdog_asks, only_watchdog
<1>5. CASE watchdog_closes
  BY <1>5 DEF watchdog_closes, unopened
<1> QED BY <1>1, <1>3, <1>4, <1>5 DEF Watchdog

\* The watchdog of the USB transport.
LEMMA WatchdogPreserves == IInv /\ Watchdog => IInv'
<1> SUFFICES ASSUME IInv, Watchdog PROVE IInv'
  OBVIOUS
<1>1. UNCHANGED <<kind, main, pump, alive, present, program, mishap, attempt>>
  BY WatchdogSteps DEF unwatched, rigid, pumping
<1>2. kind = "usb" /\ main \in InUse /\ main # "release"
  BY WatchdogSteps DEF IInv, Threads, Ended, spares, condemns, closes
<1>3. TypeOK'
  <2>1. /\ watchdog' \in WatchdogPlaces /\ driver' \in {"kernel", "usbhid", "none", "claimed"}
        /\ handle' \in BOOLEAN /\ force_closed' \in BOOLEAN
    BY WatchdogSteps DEF IInv, TypeOK, WatchdogPlaces, Released, spares, condemns, closes
  <2> QED BY <2>1, WatchdogSteps DEF IInv, TypeOK, unwatched, rigid, pumping, pipe, counts
<1>4. Threads'
  <2>1. watchdog \in {"wait", "look", "ask"} => ~force_closed /\ handle
    BY <1>2 DEF IInv, Threads, Holding
  <2>2. watchdog = "close" => force_closed /\ handle
    BY <1>2 DEF IInv, Threads, Holding
  <2>3. /\ watchdog' \in {"wait", "look", "ask"} => ~force_closed' /\ handle'
        /\ watchdog' = "close" => force_closed' /\ handle'
        /\ watchdog' = "done" => (force_closed' <=> ~handle')
        /\ watchdog' # "none"
    <3>1. CASE spares
      BY <3>1, <2>1 DEF spares
    <3>2. CASE condemns
      BY <3>2, <2>1 DEF condemns
    <3>3. CASE closes
      BY <3>3, <2>2 DEF closes
    <3> QED BY <3>1, <3>2, <3>3, WatchdogSteps
  <2> QED BY <1>1, <1>2, <2>3 DEF IInv, Threads, Ended
<1>5. Ownership'
  <2>1. driver' \in {driver, Released}
    BY WatchdogSteps DEF spares, condemns, closes
  <2>2. watchdog = "close" /\ alive => driver = "kernel"
    BY DEF IInv, Ownership
  <2>3. alive => driver' = driver
    BY <2>2, WatchdogSteps DEF Released, spares, condemns, closes
  <2>4. ~alive => driver' = driver
    BY <2>1 DEF Released
  <2>5. alive /\ (force_closed' \/ watchdog' = "close") => driver = "kernel"
    BY WatchdogSteps DEF IInv, Ownership, spares, condemns, closes
  <2> QED BY <1>1, <2>3, <2>4, <2>5 DEF IInv, Ownership
<1>6. Contents'
  BY <1>1, WatchdogSteps DEF IInv, Contents, unwatched, pumping, pipe, counts
<1> QED BY <1>3, <1>4, <1>5, <1>6 DEF IInv

\* The controller, the kernel and a restart.
LEMMA EnvironmentPreserves == IInv /\ (Environment \/ restart) => IInv'
<1> SUFFICES ASSUME IInv, Environment \/ restart PROVE IInv'
  OBVIOUS
<1>1. CASE plug \/ unplug \/ kernel_reclaims
  <2>1. TypeOK'
    <3>1. /\ UNCHANGED service
          /\ present' \in BOOLEAN /\ alive' \in BOOLEAN /\ program' \in BOOLEAN /\ mishap' \in BOOLEAN
          /\ driver' \in {"kernel", "usbhid", "none", "claimed"}
      BY <1>1 DEF IInv, TypeOK, plug, unplug, kernel_reclaims
    <3> QED BY <3>1 DEF IInv, TypeOK, service, rigid, flags, pumping, pipe, counts
  <2>2. Threads' /\ Contents'
    <3>1. UNCHANGED service
      BY <1>1 DEF plug, unplug, kernel_reclaims
    <3> QED BY <3>1 DEF IInv, Threads, Contents, Ended, service, rigid, flags, pumping, pipe, counts
  <2>3. Ownership'
    <3>1. CASE plug
      BY <3>1, Places DEF IInv, TypeOK, Ownership, service, rigid, flags, plug
    <3>2. CASE unplug
      BY <3>2, Places DEF IInv, TypeOK, Ownership, service, rigid, flags, unplug
    <3>3. CASE kernel_reclaims
      BY <3>3, Places DEF IInv, TypeOK, Ownership, service, rigid, flags, kernel_reclaims
    <3> QED BY <1>1, <3>1, <3>2, <3>3
  <2> QED BY <2>1, <2>2, <2>3 DEF IInv
<1>2. CASE killed
  BY <1>2, DeathIsClean DEF killed
<1>3. CASE restart
  BY <1>3, Places, DeletedIsClean DEF restart, unopened, rigid, IInv, TypeOK, Ownership
<1> QED BY <1>1, <1>2, <1>3 DEF Environment

\* All of them together.
LEMMA NextPreservesIInv == IInv /\ [Next]_vars => IInv'
<1>1. IInv /\ UNCHANGED vars => IInv'
  BY DEF IInv, TypeOK, Threads, Ownership, Contents, Ended, vars, rigid, device, flags, pumping, pipe,
     counts
<1> QED BY <1>1, UsbOpenPreserves, BpfOpenPreserves, MainPreserves, PumpPreserves, WatchdogPreserves,
           EnvironmentPreserves DEF Next

\* The inductive invariant of the transports.
THEOREM InductiveInvariant == Spec => []IInv
  BY InitEstablishesIInv, NextPreservesIInv, PTL DEF Spec

\* Every variable keeps its type.
THEOREM TypeCorrect == Spec => []TypeOK
<1>1. IInv => TypeOK
  BY DEF IInv
<1> QED BY <1>1, InductiveInvariant, PTL

\* libusb_close() is called once for every handle, by the watchdog or by
\* usb_hid_transport_close().
THEOREM HandleIsClosedOnce == Spec => []HandleClosedOnce
<1>1. IInv => HandleClosedOnce
  BY Places DEF IInv, TypeOK, Threads, Holding, HandleClosedOnce, Ended
<1> QED BY <1>1, InductiveInvariant, PTL

\* No thread outlives the TransportState it works on.
THEOREM NoThreadOutlives == Spec => []ThreadsAreJoined
<1>1. IInv => ThreadsAreJoined
  BY Places DEF IInv, Threads, ThreadsAreJoined, Ended
<1> QED BY <1>1, InductiveInvariant, PTL

\* A controller that no transport holds is the kernel's again, after every way
\* an open or a close may end.
THEOREM ControllerIsGivenBack == Spec => []NobodyStranded
<1>1. IInv => NobodyStranded
  BY DEF IInv, Ownership, NobodyStranded
<1> QED BY <1>1, InductiveInvariant, PTL

-----------------------------------------------------------------------------
(* Refinement *)

shown == <<link, IF link = "closed" THEN <<>> ELSE inbox,
           IF link = "closed" THEN 0 ELSE IF pump = "deliver" THEN received - 1 ELSE received>>

\* While main() has no descriptor there is nothing to poll.
LEMMA ClosedStutters ==
  ASSUME main \notin {"open", "running"}, main' \notin {"open", "running"}
  PROVE  UNCHANGED shown
  BY DEF shown, link

\* An open that succeeds opens the pipe.
LEMMA OpenRefines ==
  ASSUME IInv, pipe_opens \/ bpf_opens
  PROVE  Pipe!Open
<1>1. hup = FALSE /\ inbox = <<>> /\ received = 0 /\ pump \notin {"deliver"}
  BY Places DEF IInv, Threads, Contents, pipe_opens, bpf_opens
<1>2. /\ link = "closed" /\ link' = "open"
      /\ hup' = FALSE /\ inbox' = <<>> /\ received' = 0 /\ pump' # "deliver"
  BY <1>1 DEF link, pipe_opens, bpf_opens, opening, pipe, counts, pumping
<1> QED BY <1>2 DEF Pipe!Open

\* A close ends the pipe, or was not one.
LEMMA CloseRefines ==
  ASSUME main \in {"open", "running"}, main' \notin {"open", "running"}
  PROVE  Pipe!Close
  BY DEF Pipe!Close, link

\* The pump puts a report into the pair, or hangs it up; the rest is its own.
LEMMA PumpRefines ==
  ASSUME IInv, Pump, main = "running"
  PROVE  [Pipe!Next]_shown
<1> USE DEF connected, pipe, counts, link, shown
<1>1. CASE pump_top \/ bpf_sends \/ transfer_begins("out", "sending") \/ transfer_begins("in", "receiving")
           \/ usb_sends \/ pump_times_out \/ pump_loses_device \/ bpf_checks
  BY <1>1 DEF pump_top, bpf_sends, transfer_begins, usb_sends, pump_times_out, pump_loses_device,
     bpf_checks, only_pump, AfterReceive, Listening
<1>2. CASE transfer_on_closed_handle
  <2>1. CASE dies
    BY <2>1, CloseRefines DEF dies, Pipe!Next
  <2>2. CASE ~dies
    BY <1>2, <2>2 DEF transfer_on_closed_handle
  <2> QED BY <2>1, <2>2
<1>3. CASE pump_receives
  <2>1. pump # "deliver" /\ received \in Int
    BY <1>3 DEF pump_receives, Listening, IInv, TypeOK, Numbers
  <2> QED BY <1>3, <2>1 DEF pump_receives
<1>4. CASE pump_delivers
  <2>1. ~hup /\ held = received /\ received > 0 /\ received \in Nat /\ pump = "deliver"
    BY <1>4, TransportAssumption DEF pump_delivers, IInv, TypeOK, Contents, Numbers
  <2>2. /\ pump' # "deliver" /\ received' = received /\ ~hup' /\ main' = "running"
        /\ inbox' = Append(inbox, held)
    BY <1>4, <2>1 DEF pump_delivers, AfterReceive
  <2>3. Pipe!Arrive
    BY <2>1, <2>2 DEF Pipe!Arrive
  <2> QED BY <2>3 DEF Pipe!Next
<1>5. CASE pump_shuts_down
  <2>1. ~hup
    BY <1>5 DEF pump_shuts_down, IInv, Contents
  <2>2. Pipe!HangUp
    BY <1>5, <2>1 DEF pump_shuts_down, Pipe!HangUp
  <2> QED BY <2>2 DEF Pipe!Next
<1> QED BY <1>1, <1>2, <1>3, <1>4, <1>5 DEF Pump

\* Every step is one of the pipe or a stutter.
LEMMA StepRefines == IInv /\ [Next]_vars => [Pipe!Next]_(Pipe!vars)
<1> SUFFICES ASSUME IInv, [Next]_vars PROVE [Pipe!Next]_shown
  BY DEF Pipe!vars, shown
<1>1. CASE main \notin {"open", "running"}
  <2>1. CASE pipe_opens \/ bpf_opens
    BY <2>1, OpenRefines DEF Pipe!Next
  <2>2. CASE main' \notin {"open", "running"}
    BY <1>1, <2>2, ClosedStutters
  <2>3. CASE ~(pipe_opens \/ bpf_opens)
    <3>1. main' \notin {"open", "running"}
      BY <1>1, <2>3, Places DEF IInv, Threads, Ended, Next, vars, UsbOpen, BpfOpen, hid_id_unbind,
           find_device,
         find_fails, detach_kernel_driver, claim_interface, claim_settles, NextAttempt, give_up,
         pipe_fails, transport_start, bpf_add, bpf_open_fails, Deleted, read_report, write_output,
         close_begins, Closing, close_joins_pump, close_joins_watchdog, close_releases, Pump, pump_top,
         only_pump, bpf_sends, transfer_begins, transfer_on_closed_handle, dies, usb_sends,
         pump_receives, pump_times_out, pump_loses_device, pump_delivers, bpf_checks, pump_shuts_down,
         connected, Watchdog, watchdog_wakes, watchdog_looks, watchdog_condemns, watchdog_asks,
         watchdog_closes, only_watchdog, Environment, plug, unplug, kernel_reclaims, killed, restart,
         service
    <3> QED BY <2>2, <3>1
  <2> QED BY <2>1, <2>3
<1>2. CASE main \in {"open", "running"}
  <2>1. CASE main' \notin {"open", "running"}
    BY <1>2, <2>1, CloseRefines DEF Pipe!Next
  <2>2. CASE main' \in {"open", "running"}
    <3>1. CASE Pump
      BY <1>2, <3>1, PumpRefines, Places DEF IInv, Threads, Pump, pump_top, bpf_sends, transfer_begins,
         transfer_on_closed_handle, usb_sends, pump_receives, Listening, pump_times_out,
         pump_loses_device, pump_delivers, bpf_checks, pump_shuts_down
    <3>2. CASE read_report
      <4>1. Pipe!Read
        BY <1>2, <3>2 DEF Pipe!Read, read_report, connected, pumping, counts, link
      <4> QED BY <4>1 DEF Pipe!Next
    <3>3. CASE transport_start
      BY <3>3, Places DEF IInv, Threads, Contents, transport_start, pipe, counts, link, shown
    <3>4. CASE write_output \/ Watchdog \/ Environment \/ UNCHANGED vars
      BY <1>2, <2>2, <3>4, Places DEF write_output, Watchdog, watchdog_wakes, watchdog_looks,
           watchdog_condemns,
         watchdog_asks, watchdog_closes, only_watchdog, Environment, plug, unplug, kernel_reclaims,
         killed, dies, service, vars, pumping, pipe, counts, connected, link, shown
    <3>5. CASE UsbOpen \/ BpfOpen \/ close_begins \/ Closing \/ restart
      BY <1>2, <2>2, <3>3, <3>5, Places DEF UsbOpen, BpfOpen, hid_id_unbind, find_device, find_fails,
         detach_kernel_driver, claim_interface, claim_settles, give_up, pipe_opens, pipe_fails, bpf_add,
         bpf_opens, bpf_open_fails, close_begins, Closing, close_joins_pump, close_joins_watchdog,
         close_releases, restart
    <3> QED BY <3>1, <3>2, <3>3, <3>4, <3>5 DEF Next
  <2> QED BY <2>1, <2>2
<1> QED BY <1>1, <1>2

\* The descriptor of either transport behaves like a hidraw node.
THEOREM TransportImplementsPipe == Spec => ImplementsPipe
<1>1. Init => Pipe!Init
  BY DEF Init, Pipe!Init, link
<1> QED BY <1>1, StepRefines, InductiveInvariant, PTL DEF Spec, ImplementsPipe, Pipe!Spec

-----------------------------------------------------------------------------
(* Losses *)

\* Nothing but a loss ends the pump of a running transport, and a pump that may
\* be blocked in a transfer has a watchdog to wake it.
WatchInv ==
  /\ stop_flag => main \in CloseSteps
  /\ pump \in Transfers => kind = "usb"
  /\ main = "running" =>
       /\ pump # "none"
       /\ pump = "done" => hup
       /\ pump \in {"shut", "done"} => Lost
       /\ kind = "usb" => watchdog \in {"wait", "look", "ask", "close"} \/ ~handle

\* The steps of main(), which starts and stops the threads.
LEMMA MainKeepsWatch ==
  ASSUME IInv, WatchInv, UsbOpen \/ BpfOpen \/ read_report \/ write_output \/ close_begins \/ Closing
  PROVE  WatchInv'
<1> USE Places DEF IInv, Threads, WatchInv
<1>1. CASE UsbOpen
  BY <1>1 DEF UsbOpen, hid_id_unbind, find_device, find_fails, detach_kernel_driver, claim_interface,
     claim_settles, NextAttempt, give_up, pipe_opens, pipe_fails, transport_start, Deleted, Forgotten,
     opening, unopened, rigid, device, flags, pumping, pipe, counts, Transfers
<1>2. CASE BpfOpen
  BY <1>2 DEF BpfOpen, bpf_add, bpf_opens, bpf_open_fails, Deleted, Forgotten, rigid, device, flags,
     pumping, pipe, counts, Transfers
<1>3. CASE read_report \/ write_output
  BY <1>3 DEF read_report, write_output, connected, rigid, device, flags, pumping, Lost
<1>4. CASE close_begins \/ Closing
  BY <1>4 DEF close_begins, Closing, close_joins_pump, close_joins_watchdog, close_releases, Deleted,
     Forgotten, rigid, device, flags, pumping, Transfers
<1> QED BY <1>1, <1>2, <1>3, <1>4

\* The watchdog closes the handle of a lost controller only.
LEMMA ClosedHandleIsLost ==
  ASSUME IInv, main = "running", kind = "usb", ~handle
  PROVE  Lost
  BY Places DEF IInv, TypeOK, Threads, Ownership, Holding, WatchdogPlaces, Lost

\* The pump ends by itself only when it finds the controller lost.
LEMMA PumpKeepsWatch == IInv /\ WatchInv /\ Pump => WatchInv'
<1> SUFFICES ASSUME IInv, WatchInv, Pump PROVE WatchInv'
  OBVIOUS
<1>1. CASE dies
  BY <1>1, Places DEF dies, Forgotten, WatchInv, Transfers
<1>2. CASE ~dies
  <2>1. UNCHANGED <<kind, stop_flag, main, handle, watchdog, alive, driver>>
    BY <1>2 DEF Pump, pump_top, only_pump, bpf_sends, transfer_begins, transfer_on_closed_handle, usb_sends,
       pump_receives, pump_times_out, pump_loses_device, pump_delivers, bpf_checks, pump_shuts_down,
       connected, rigid, device, flags
  <2>2. main = "running" => ~stop_flag /\ (hup => pump = "done")
    BY Places DEF IInv, Contents, WatchInv
  <2>3. main = "running" /\ kind = "usb" /\ ~handle => Lost
    BY ClosedHandleIsLost
  <2>4. pump' \in Transfers => kind = "usb"
    BY <1>2, <2>1 DEF WatchInv, Pump, pump_top, only_pump, bpf_sends, transfer_begins,
       transfer_on_closed_handle, usb_sends, pump_receives, pump_times_out, AfterReceive, pump_loses_device,
       pump_delivers, bpf_checks, pump_shuts_down, Transfers
  <2>5. pump # "none" /\ pump' # "none" /\ (pump' = "done" => hup')
    BY <1>2 DEF Pump, pump_top, only_pump, bpf_sends, transfer_begins, transfer_on_closed_handle, usb_sends,
       pump_receives, Listening, pump_times_out, AfterReceive, pump_loses_device, pump_delivers, bpf_checks,
       pump_shuts_down
  <2>6. ASSUME main = "running", pump' \in {"shut", "done"} PROVE Lost
    <3>1. CASE pump_top \/ pump_delivers
      BY <2>2, <2>6, <3>1 DEF pump_top, only_pump, pump_delivers, AfterReceive
    <3>2. CASE transfer_on_closed_handle
      BY <1>2, <2>3, <2>6, <3>2 DEF transfer_on_closed_handle
    <3>3. CASE pump_loses_device
      <4>1. kind = "usb"
        BY <3>3 DEF pump_loses_device, WatchInv, Transfers
      <4> QED BY <2>3, <2>6, <3>3, <4>1 DEF pump_loses_device, Fails, Lost
    <3>4. CASE bpf_checks
      BY <2>6, <3>4 DEF bpf_checks, Lost
    <3>5. CASE pump_shuts_down
      BY <2>6, <3>5 DEF pump_shuts_down, WatchInv
    <3> QED BY <2>6, <3>1, <3>2, <3>3, <3>4, <3>5 DEF Pump, bpf_sends, transfer_begins, only_pump, usb_sends,
               pump_receives, pump_times_out, AfterReceive
  <2> QED BY <2>1, <2>2, <2>4, <2>5, <2>6 DEF WatchInv, Lost
<1> QED BY <1>1, <1>2

\* The watchdog leaves only once it has closed the handle; a loss is for good.
LEMMA OthersKeepWatch == IInv /\ WatchInv /\ (Watchdog \/ Environment \/ restart) => WatchInv'
<1> SUFFICES ASSUME IInv, WatchInv, Watchdog \/ Environment \/ restart PROVE WatchInv'
  OBVIOUS
<1> USE Places DEF WatchInv
<1>1. CASE Watchdog
  BY <1>1 DEF Watchdog, watchdog_wakes, watchdog_looks, watchdog_condemns, watchdog_asks, watchdog_closes,
     only_watchdog, rigid, device, flags, pumping, pipe, counts, unopened, Released, Lost
<1>2. CASE plug \/ unplug \/ kernel_reclaims
  BY <1>2 DEF plug, unplug, kernel_reclaims, service, rigid, flags, pumping, pipe, Lost
<1>3. CASE killed \/ restart
  BY <1>3 DEF killed, dies, restart, Deleted, Forgotten, Transfers
<1> QED BY <1>1, <1>2, <1>3 DEF Environment

\* The three of them.
THEOREM LossesAreWatched == Spec => []WatchInv
<1>1. Init => WatchInv
  BY Places DEF Init, WatchInv, Transfers
<1>2. WatchInv /\ UNCHANGED vars => WatchInv'
  BY DEF WatchInv, vars, rigid, device, flags, pumping, pipe, Lost
<1>3. IInv /\ WatchInv /\ [Next]_vars => WatchInv'
  BY <1>2, MainKeepsWatch, PumpKeepsWatch, OthersKeepWatch DEF Next
<1> QED BY <1>1, <1>3, InductiveInvariant, PTL DEF Spec

\* main() sees the descriptor hang up only when the controller is lost, so no
\* healthy controller is disconnected; and until then a pump is there to tell,
\* with a watchdog or a closed handle to end the transfer it may be blocked in.
HangUpsAreLosses ==
  main = "running" =>
    /\ hup => Lost
    /\ ~hup => /\ pump \notin {"none", "done"}
               /\ pump \in Transfers => watchdog \in {"wait", "look", "ask", "close"} \/ ~handle

\* pump_thread_fn() and the watchdog signal every loss and nothing else.
THEOREM HangUpMeansLost == Spec => []HangUpsAreLosses
<1>1. IInv /\ WatchInv => HangUpsAreLosses
  BY Places DEF IInv, Contents, WatchInv, HangUpsAreLosses
<1> QED BY <1>1, InductiveInvariant, LossesAreWatched, PTL

-----------------------------------------------------------------------------
(* The end of the threads *)

\* While close() waits for the threads, and only then, they have been told to
\* stop, and the pair is shut down, so that a pump with a report in its hands
\* is not blocked by a main() that no longer reads.
CloseIsHeard ==
  /\ main \in CloseSteps <=> stop_flag
  /\ stop_flag => hup

\* Opening, reading and writing leave the flag alone, close() sets it, and it
\* goes with the TransportState.
LEMMA MainTells ==
  CloseIsHeard /\ (UsbOpen \/ BpfOpen \/ read_report \/ write_output \/ close_begins \/ Closing)
    => CloseIsHeard'
<1> SUFFICES ASSUME CloseIsHeard,
                    UsbOpen \/ BpfOpen \/ read_report \/ write_output \/ close_begins \/ Closing
             PROVE  CloseIsHeard'
  OBVIOUS
<1> USE Places DEF CloseIsHeard
<1>1. CASE UsbOpen
  <2>1. CASE hid_id_unbind \/ find_device \/ detach_kernel_driver
    BY <2>1 DEF hid_id_unbind, find_device, detach_kernel_driver, opening, flags, pipe
  <2>2. CASE find_fails \/ give_up \/ pipe_fails
    BY <2>2 DEF find_fails, give_up, pipe_fails, Deleted, Forgotten
  <2>3. CASE claim_interface \/ claim_settles
    BY <2>3 DEF claim_interface, claim_settles, NextAttempt, opening, flags, pipe
  <2>4. CASE pipe_opens \/ transport_start
    BY <2>4 DEF pipe_opens, transport_start, opening, flags, pipe
  <2> QED BY <1>1, <2>1, <2>2, <2>3, <2>4 DEF UsbOpen
<1>2. CASE BpfOpen
  BY <1>2 DEF BpfOpen, bpf_add, bpf_opens, bpf_open_fails, Deleted, Forgotten, flags, pipe
<1>3. CASE read_report \/ write_output
  BY <1>3 DEF read_report, write_output, connected, flags
<1>4. CASE close_begins
  BY <1>4 DEF close_begins
<1>5. CASE Closing
  BY <1>5 DEF Closing, close_joins_pump, close_joins_watchdog, close_releases, Deleted, Forgotten,
       flags, pipe
<1> QED BY <1>1, <1>2, <1>3, <1>4, <1>5

\* The threads, the controller and the kernel leave the flag alone; the end of
\* the process takes it away.
LEMMA OthersTell ==
  CloseIsHeard /\ (Pump \/ Watchdog \/ Environment \/ restart) => CloseIsHeard'
<1> SUFFICES ASSUME CloseIsHeard, Pump \/ Watchdog \/ Environment \/ restart PROVE CloseIsHeard'
  OBVIOUS
<1> USE Places DEF CloseIsHeard
<1>1. CASE dies \/ restart
  BY <1>1 DEF dies, restart, Deleted, Forgotten
<1>2. CASE Pump
  <2>1. \/ dies
        \/ main' = main /\ stop_flag' = stop_flag /\ (hup' = hup \/ hup' = TRUE)
    BY <1>2 DEF Pump, pump_top, bpf_sends, transfer_begins, transfer_on_closed_handle, usb_sends,
         pump_receives, pump_times_out, pump_loses_device, pump_delivers, bpf_checks,
         pump_shuts_down, only_pump, connected, flags, pipe
  <2> QED BY <1>1, <2>1
<1>3. CASE Watchdog
  BY <1>3 DEF Watchdog, watchdog_wakes, watchdog_looks, watchdog_asks, watchdog_closes,
       watchdog_condemns, only_watchdog, flags, pipe
<1>4. CASE Environment
  BY <1>1, <1>4 DEF Environment, plug, unplug, kernel_reclaims, killed, service, flags, pipe
<1> QED BY <1>1, <1>2, <1>3, <1>4

\* close() joins only threads that have been told to stop, and nothing else
\* tells them (usb_hid_transport_close and hid_bpf_transport_close).
THEOREM CloseTellsThreads == Spec => []CloseIsHeard
<1>1. Init => CloseIsHeard
  BY Places DEF Init, CloseIsHeard
<1>2. CloseIsHeard /\ UNCHANGED vars => CloseIsHeard'
  BY DEF CloseIsHeard, vars, flags, pipe
<1>3. CloseIsHeard /\ [Next]_vars => CloseIsHeard'
  BY <1>2, MainTells, OthersTell DEF Next
<1> QED BY <1>1, <1>3, PTL DEF Spec

-----------------------------------------------------------------------------
(* Output reports *)

\* The pump has an output report of main() in its hands.
Giving == pump \in {"out", "sending"}

\* Output reports travel in the order main() wrote them.
Forward ==
  /\ main \notin InUse => outbox = <<>> /\ offered = 0 /\ delivered = 0
  /\ delivered <= offered
  /\ Giving => delivered < held /\ held <= offered
  /\ \A i \in 1 .. Len(outbox) :
       /\ delivered < outbox[i] /\ outbox[i] <= offered
       /\ Giving => held < outbox[i]
  /\ \A i, j \in 1 .. Len(outbox) : i < j => outbox[i] < outbox[j]

\* The newest report has arrived, or it is on its way behind all others.
NewestOutputIsKept ==
  main = "running" /\ ~Lost =>
    \/ delivered = offered
    \/ Giving /\ held = offered
    \/ outbox # <<>> /\ outbox[Len(outbox)] = offered

OutInv == Forward /\ NewestOutputIsKept

\* A step that leaves the output reports alone.
LEMMA OutputUntouched ==
  ASSUME TypeOK, OutInv, UNCHANGED <<outbox, offered, delivered>>,
         Giving' => Giving /\ held' = held,
         main \in InUse => main' \in InUse,
         main' = "running" /\ ~Lost' /\ main \in InUse => main = "running" /\ ~Lost /\ (Giving => Giving')
  PROVE  OutInv' /\ delivered' >= delivered
<1>1. Forward'
  BY DEF OutInv, Forward
<1>2. delivered' >= delivered
  BY DEF TypeOK, Numbers
<1>3. CASE main \notin InUse
  BY <1>3, <1>1 DEF OutInv, Forward, NewestOutputIsKept
<1>4. CASE main \in InUse
  BY <1>4, <1>1, <1>2 DEF OutInv, NewestOutputIsKept
<1> QED BY <1>1, <1>2, <1>3, <1>4 DEF OutInv

\* A connection that ends takes its reports along.
LEMMA OutputForgotten ==
  ASSUME Forgotten, main' \in {"idle", "dead"}
  PROVE  OutInv'
  BY Places DEF Forgotten, OutInv, Forward, NewestOutputIsKept, Giving

Onward == delivered' >= delivered \/ main' \in {"idle", "dead"}

\* What main() writes is put behind all others.
LEMMA WriteKeepsOutput ==
  ASSUME TypeOK, OutInv, write_output
  PROVE  OutInv' /\ Onward
<1>1. /\ offered' = offered + 1 /\ outbox' = Append(outbox, offered + 1)
      /\ main = "running" /\ main' = main
      /\ UNCHANGED <<pump, held, delivered>>
  BY DEF write_output, connected, pumping
<1>2. /\ offered \in Nat /\ delivered \in Nat /\ held \in Nat /\ outbox \in Seq(Nat)
  BY TransportAssumption DEF TypeOK, Numbers
<1>3. Forward
  BY DEF OutInv, Forward
<1>4. /\ Len(outbox') = Len(outbox) + 1 /\ outbox'[Len(outbox')] = offered'
      /\ \A i \in 1 .. Len(outbox) : outbox'[i] = outbox[i]
  BY <1>1, <1>2
<1>5. Forward'
  <2>1. main' \in InUse
    BY <1>1 DEF InUse
  <2>2. \A i \in 1 .. Len(outbox') : i \in 1 .. Len(outbox) \/ outbox'[i] = offered + 1
    BY <1>1, <1>2, <1>4
  <2>3. Giving' <=> Giving
    BY <1>1 DEF Giving
  <2>4. \A i \in 1 .. Len(outbox') :
          /\ delivered < outbox'[i] /\ outbox'[i] <= offered + 1
          /\ Giving => held < outbox'[i]
    <3> SUFFICES ASSUME NEW i \in 1 .. Len(outbox')
                 PROVE  /\ delivered < outbox'[i] /\ outbox'[i] <= offered + 1
                        /\ Giving => held < outbox'[i]
      OBVIOUS
    <3>1. CASE i \in 1 .. Len(outbox)
      BY <1>2, <1>3, <1>4, <3>1 DEF Forward
    <3>2. CASE outbox'[i] = offered + 1
      <4>1. delivered <= offered /\ (Giving => held <= offered)
        BY <1>3 DEF Forward
      <4> QED BY <1>2, <3>2, <4>1
    <3> QED BY <2>2, <3>1, <3>2
  <2>5. \A i, j \in 1 .. Len(outbox') : i < j => outbox'[i] < outbox'[j]
    <3> SUFFICES ASSUME NEW i \in 1 .. Len(outbox'), NEW j \in 1 .. Len(outbox'), i < j
                 PROVE  outbox'[i] < outbox'[j]
      OBVIOUS
    <3>1. i \in 1 .. Len(outbox)
      BY <1>2, <1>4
    <3> QED BY <1>2, <1>3, <1>4, <2>2, <3>1 DEF Forward
  <2> QED BY <1>1, <1>2, <1>3, <2>1, <2>3, <2>4, <2>5 DEF Forward
<1>6. NewestOutputIsKept'
  BY <1>1, <1>2, <1>4 DEF NewestOutputIsKept
<1> QED BY <1>1, <1>2, <1>5, <1>6 DEF OutInv, Onward

\* The pump takes the oldest report, or over Bluetooth all of them and keeps the
\* newest.
LEMMA TakeKeepsOutput ==
  ASSUME TypeOK, OutInv, pump_top, main \in InUse
  PROVE  OutInv' /\ Onward
<1>1. /\ pump = "top" /\ ~Giving
      /\ UNCHANGED <<main, kind, alive, driver, offered, delivered>>
  BY DEF pump_top, only_pump, connected, rigid, device, counts, Giving
<1>2. /\ offered \in Nat /\ delivered \in Nat /\ held \in Nat /\ outbox \in Seq(Nat)
  BY TransportAssumption DEF TypeOK, Numbers
<1>3. CASE pump' \in {"shut", "in"}
  <2>1. outbox' = outbox /\ ~Giving'
    BY <1>3 DEF pump_top, only_pump, pipe, Giving
  <2> QED BY <1>1, <2>1, OutputUntouched DEF Onward, Lost
<1>4. CASE pump' \notin {"shut", "in"}
  <2>1. /\ outbox # <<>> /\ pump' = "out" /\ Giving'
        /\ held' = IF kind = "usb" THEN Head(outbox) ELSE outbox[Len(outbox)]
        /\ outbox' = IF kind = "usb" THEN Tail(outbox) ELSE <<>>
    BY <1>4 DEF pump_top, only_pump, Giving
  <2> DEFINE n == Len(outbox)
             k == IF kind = "usb" THEN 1 ELSE n
  <2>2. n \in Nat /\ n > 0 /\ k \in 1 .. n
    BY <1>2, <2>1
  <2>3. held' = outbox[k]
    BY <1>2, <2>1
  <2>4. Len(outbox') = n - k /\ \A i \in 1 .. n - k : outbox'[i] = outbox[i + k]
    BY <1>2, <2>1, <2>2
  <2>5. \A i \in 1 .. n : /\ delivered < outbox[i] /\ outbox[i] <= offered /\ outbox[i] \in Nat
    BY <1>2 DEF OutInv, Forward
  <2>6. \A i, j \in 1 .. n : i < j => outbox[i] < outbox[j]
    BY DEF OutInv, Forward
  <2> HIDE DEF n, k
  <2>7. Forward'
    <3>1. \A i \in 1 .. Len(outbox') : /\ i + k \in 1 .. n /\ k < i + k /\ outbox'[i] = outbox[i + k]
      BY <2>2, <2>4
    <3>2. \A i \in 1 .. Len(outbox') :
            /\ delivered < outbox'[i] /\ outbox'[i] <= offered /\ held' < outbox'[i]
      BY <2>2, <2>3, <2>5, <2>6, <3>1
    <3>3. \A i, j \in 1 .. Len(outbox') : i < j => outbox'[i] < outbox'[j]
      BY <2>2, <2>4, <2>6, <3>1
    <3>4. delivered < held' /\ held' <= offered /\ delivered <= offered
      BY <2>2, <2>3, <2>5 DEF OutInv, Forward
    <3> QED BY <1>1, <2>1, <3>2, <3>3, <3>4 DEF Forward
  <2>8. NewestOutputIsKept'
    <3> SUFFICES ASSUME main = "running", ~Lost
                 PROVE  \/ held' = offered
                        \/ outbox' # <<>> /\ outbox'[Len(outbox')] = offered
      BY <1>1, <2>1 DEF NewestOutputIsKept, Lost
    <3>1. outbox[n] = offered
      <4>1. delivered # offered
        BY <1>2, <2>2, <2>5
      <4> QED BY <1>1, <4>1 DEF OutInv, NewestOutputIsKept, n
    <3>2. CASE k = n
      BY <2>3, <3>1, <3>2
    <3>3. CASE k # n
      <4>1. n - k \in 1 .. n - k /\ outbox'[n - k] = outbox[n]
        BY <2>2, <2>4, <3>3
      <4>2. outbox' # <<>>
        BY <2>4, <4>1
      <4> QED BY <2>4, <3>1, <4>1, <4>2
    <3> QED BY <3>2, <3>3
  <2> QED BY <1>1, <1>2, <2>7, <2>8 DEF OutInv, Onward
<1> QED BY <1>3, <1>4

\* A report is given to the controller, or lost with it.
LEMMA SendKeepsOutput ==
  ASSUME IInv, WatchInv, OutInv, bpf_sends \/ usb_sends
  PROVE  OutInv' /\ Onward
<1>1. /\ Giving /\ ~Giving' /\ main \in InUse
      /\ UNCHANGED <<main, kind, alive, driver, handle, outbox, offered>>
  BY DEF bpf_sends, usb_sends, connected, rigid, device, pipe, Giving, IInv, Threads
<1>2. /\ offered \in Nat /\ delivered \in Nat /\ held \in Nat /\ outbox \in Seq(Nat)
  BY TransportAssumption DEF IInv, TypeOK, Numbers
<1>3. CASE delivered' = held
  <2>1. Forward' /\ delivered' >= delivered
    BY <1>1, <1>2, <1>3 DEF OutInv, Forward
  <2>2. NewestOutputIsKept'
    BY <1>1, <1>2, <1>3 DEF OutInv, Forward, NewestOutputIsKept, Lost
  <2> QED BY <2>1, <2>2 DEF OutInv, Onward
<1>4. CASE delivered' # held
  <2>1. delivered' = delivered /\ (main = "running" => Lost)
    <3>1. CASE bpf_sends
      BY <1>4, <3>1 DEF bpf_sends, Lost
    <3>2. CASE usb_sends
      <4>1. kind = "usb"
        BY <3>2 DEF usb_sends, WatchInv, Transfers
      <4> QED BY <1>4, <3>2, <4>1, ClosedHandleIsLost DEF usb_sends, Fails, Lost
    <3> QED BY <3>1, <3>2
  <2> QED BY <1>1, <2>1, OutputUntouched DEF Onward, IInv, Lost
<1> QED BY <1>3, <1>4

\* The rest of the pump's steps are about input.
LEMMA PumpKeepsOutput ==
  ASSUME IInv, WatchInv, OutInv, Pump
  PROVE  OutInv' /\ Onward
<1>1. main \in InUse
  BY DEF Pump, pump_top, bpf_sends, transfer_begins, transfer_on_closed_handle, usb_sends, pump_receives,
     Listening, pump_times_out, pump_loses_device, pump_delivers, bpf_checks, pump_shuts_down, IInv, Threads
<1>2. CASE pump_top
  BY <1>1, <1>2, TakeKeepsOutput DEF IInv
<1>3. CASE bpf_sends \/ usb_sends
  BY <1>3, SendKeepsOutput
<1>4. CASE dies
  BY <1>4, OutputForgotten DEF dies, Onward
<1>5. CASE transfer_on_closed_handle /\ ~dies
  <2>1. /\ ~Giving' /\ UNCHANGED <<main, kind, alive, driver, outbox, offered, delivered>>
        /\ main = "running" => Lost
    BY <1>5, ClosedHandleIsLost DEF transfer_on_closed_handle, connected, rigid, device, pipe, counts, Giving
  <2> QED BY <1>1, <2>1, OutputUntouched DEF Onward, IInv, Lost
<1>6. CASE transfer_begins("out", "sending") \/ transfer_begins("in", "receiving") \/ pump_receives
           \/ pump_times_out \/ pump_loses_device \/ pump_delivers \/ bpf_checks \/ pump_shuts_down
  <2>1. /\ Giving <=> Giving'
        /\ Giving => held' = held
        /\ UNCHANGED <<main, kind, alive, driver, outbox, offered, delivered>>
    BY <1>6 DEF transfer_begins, only_pump, pump_receives, Listening, pump_times_out, AfterReceive,
       pump_loses_device, pump_delivers, bpf_checks, pump_shuts_down, connected, rigid, device, pipe, counts,
       Giving
  <2> QED BY <1>1, <2>1, OutputUntouched DEF Onward, IInv, Lost
<1> QED BY <1>2, <1>3, <1>4, <1>5, <1>6 DEF Pump

\* What the others do to a running transport is to lose or to close it.
LEMMA OthersKeepOutput ==
  ASSUME IInv, OutInv,
         UsbOpen \/ BpfOpen \/ read_report \/ close_begins \/ Closing \/ Watchdog \/ Environment \/ restart
           \/ UNCHANGED vars
  PROVE  OutInv' /\ Onward
<1>1. CASE Deleted \/ dies
  BY <1>1, OutputForgotten DEF Deleted, dies, Onward
<1>2. CASE ~(Deleted \/ dies) /\ (UsbOpen \/ BpfOpen)
  <2>1. /\ main \notin InUse /\ ~Giving' /\ UNCHANGED <<outbox, offered, delivered>>
    BY <1>2, Places DEF UsbOpen, BpfOpen, hid_id_unbind, find_device, find_fails, detach_kernel_driver,
       claim_interface, claim_settles, give_up, pipe_opens, pipe_fails, transport_start, bpf_add, bpf_opens,
       bpf_open_fails, opening, unopened, pumping, pipe, counts, Giving, IInv, Threads
  <2> QED BY <2>1, OutputUntouched DEF Onward, IInv
<1>3. CASE ~(Deleted \/ dies) /\ (read_report \/ close_begins \/ Closing)
  <2>1. /\ main \in InUse \/ ~Giving
        /\ UNCHANGED <<kind, alive, driver, pump, held, outbox, offered, delivered>>
        /\ main \in InUse => main' \in InUse
        /\ main' = "running" => main = "running"
    BY <1>3, Places DEF read_report, close_begins, Closing, close_joins_pump, close_joins_watchdog,
       close_releases, connected, rigid, device, pumping, pipe, counts, Giving, IInv, Threads
  <2> QED BY <2>1, OutputUntouched DEF Onward, IInv, Lost, Giving
<1>4. CASE ~(Deleted \/ dies) /\ (Watchdog \/ Environment \/ restart \/ UNCHANGED vars)
  <2>1. /\ UNCHANGED <<main, kind, pump, held, outbox, offered, delivered>>
        /\ Lost => Lost'
    BY <1>4 DEF Watchdog, watchdog_wakes, watchdog_looks, watchdog_condemns, watchdog_asks, watchdog_closes,
       only_watchdog, Environment, plug, unplug, kernel_reclaims, killed, restart, service, vars, unopened,
       rigid, device, pumping, pipe, counts, Released, Lost
  <2> QED BY <2>1, OutputUntouched DEF Onward, IInv, Giving
<1> QED BY <1>1, <1>2, <1>3, <1>4

\* The inductive invariant of the output direction.
THEOREM OutputInvariant == Spec => [](IInv /\ OutInv)
<1>1. Init => OutInv
  BY Places DEF Init, OutInv, Forward, NewestOutputIsKept, Giving
<1>2. IInv /\ WatchInv /\ OutInv /\ [Next]_vars => OutInv'
  BY WriteKeepsOutput, PumpKeepsOutput, OthersKeepOutput DEF Next, IInv
<1> QED BY <1>1, <1>2, InductiveInvariant, LossesAreWatched, PTL DEF Spec

\* A rumble or LED state never overtakes a newer one on its way to the controller.
OutputInOrder == [][Onward]_vars

\* The controller gets the output reports in the order main() wrote them.
THEOREM OutputArrivesInOrder == Spec => OutputInOrder
<1>1. IInv /\ WatchInv /\ OutInv /\ [Next]_vars => [Onward]_vars
  BY WriteKeepsOutput, PumpKeepsOutput, OthersKeepOutput DEF Next, IInv
<1> QED BY <1>1, OutputInvariant, LossesAreWatched, PTL DEF Spec, OutputInOrder

\* The newest of them is never dropped while the controller is there: neither by
\* a drain that keeps the wrong one nor by a transfer that failed.
THEOREM NewestOutputIsNotLost == Spec => []NewestOutputIsKept
<1>1. OutInv => NewestOutputIsKept
  BY DEF OutInv
<1> QED BY <1>1, OutputInvariant, PTL
=============================================================================
