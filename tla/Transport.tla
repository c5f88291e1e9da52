------------------------------ MODULE Transport ------------------------------
(***************************************************************************)
(* The transports that replace a hidraw node under the unbind hide method: *)
(* src/usb-hid-transport.cpp (libusb on a claimed interface) and           *)
(* src/hid-bpf-transport.cpp (a BPF ring buffer on a bound device), with   *)
(* the parts of main() that open and close them.                           *)
(*                                                                         *)
(* A pump thread moves reports between the controller and one end of a     *)
(* socket pair; main() polls the other end.  USB adds a watchdog thread.   *)
(* `kind` (which transport) and `stalls` (whether a transfer on a gone     *)
(* device blocks until its handle is closed, as seen on 2026-08-11) never  *)
(* change.                                                                 *)
(***************************************************************************)
EXTENDS Integers, Sequences

CONSTANTS
  MaxClaimAttempts,  \* kMaxClaimAttempts
  CheckEvery,        \* pump passes between two liveness checks (HID-BPF)
  Capacity,          \* reports one direction of the socket pair holds
  MaxReports,        \* reports of one connection, each way (bound)
  Faults             \* what may go wrong: "open", "reclaim", "claim", "pipe",
                     \* "attach", "kill"

ASSUME TransportAssumption ==
  /\ MaxClaimAttempts \in Nat \ {0}
  /\ CheckEvery \in Nat \ {0}
  /\ Capacity \in Nat \ {0}
  /\ MaxReports \in Nat

VARIABLES
  kind, stalls,
  present,       \* a controller is plugged in (USB) or connected (Bluetooth)
  driver,        \* who owns its interface: "kernel" (usbhid and playstation),
                 \* "usbhid" alone, "none", "claimed" by this process
  program,       \* the BPF program that swallows its reports is attached
  alive,         \* it is still the device instance the transport was opened on
  mishap,        \* history: a failure the code cannot undo met this controller
  main, attempt, \* where main() is in open and close
  handle,        \* the libusb handle (HID-BPF: the hidraw descriptor) is open
  pump, watchdog,
  stop_flag, force_closed,
  hup,           \* the socket pair was shut down
  inbox, outbox, \* reports in the socket pair, towards main() and the pump
  held,          \* the report in the pump's hands, 0 for none
  checks,        \* liveness_check_counter
  received,      \* reports the pump got from the controller
  offered,       \* the last output report main() wrote
  delivered      \* the last one the controller got

rigid == <<kind, stalls>>
device == <<present, driver, program, alive, mishap>>
flags == <<stop_flag, force_closed>>
pipe == <<hup, inbox, outbox>>
counts == <<received, offered, delivered>>
pumping == <<pump, held, checks>>
vars == <<rigid, device, main, attempt, handle, pumping, watchdog, flags, pipe, counts>>

UsbOpenSteps == {"find", "detach", "claim", "settle", "give_up", "pipe"}
CloseSteps == {"join_pump", "join_watchdog", "release"}
MainPlaces == {"idle", "bpf_setup", "open", "running", "dead"} \cup UsbOpenSteps \cup CloseSteps
Transfers == {"sending", "receiving"}
PumpPlaces == {"none", "top", "out", "in", "deliver", "check", "shut", "done"} \cup Transfers
WatchdogPlaces == {"none", "wait", "look", "ask", "close", "done"}

Init ==
  /\ kind \in {"usb", "bpf"}
  /\ stalls \in (IF kind = "usb" THEN BOOLEAN ELSE {FALSE})
  /\ present = FALSE /\ driver = "kernel" /\ program = FALSE /\ alive = FALSE
  /\ mishap = FALSE
  /\ main = "idle" /\ attempt = 1 /\ handle = FALSE
  /\ pump = "none" /\ held = 0 /\ checks = 0 /\ watchdog = "none"
  /\ stop_flag = FALSE /\ force_closed = FALSE
  /\ hup = FALSE /\ inbox = <<>> /\ outbox = <<>>
  /\ received = 0 /\ offered = 0 /\ delivered = 0

\* The TransportState is gone, deleted or with its process.
Forgotten ==
  /\ attempt' = 1 /\ handle' = FALSE
  /\ pump' = "none" /\ held' = 0 /\ checks' = 0 /\ watchdog' = "none"
  /\ stop_flag' = FALSE /\ force_closed' = FALSE
  /\ hup' = FALSE /\ inbox' = <<>> /\ outbox' = <<>>
  /\ received' = 0 /\ offered' = 0 /\ delivered' = 0

Deleted == main' = "idle" /\ Forgotten

-----------------------------------------------------------------------------
(* Opening over USB: open_and_hide_physical_unbind, usb_hid_transport_open. *)

unopened == <<rigid, present, program>>
opening == <<unopened, mishap, pumping, watchdog, flags, pipe, counts>>

\* hid_id_unbind: playstation lets go of the hid_device, usbhid keeps it.
hid_id_unbind ==
  /\ kind = "usb" /\ main = "idle"
  /\ present /\ driver = "kernel"
  /\ driver' = "usbhid"
  /\ alive' = TRUE
  /\ main' = "find"
  /\ UNCHANGED <<attempt, handle, opening>>

find_device ==
  /\ main = "find" /\ alive
  /\ handle' = TRUE
  /\ main' = "detach"
  /\ UNCHANGED <<alive, driver, attempt, opening>>

\* write_hid_driver_sysfs("bind"): works on a hid_device without a driver, and
\* there is none once usbhid let go of the interface.
Bound == IF alive /\ driver = "usbhid" THEN "kernel" ELSE driver

find_fails ==
  /\ main = "find"
  /\ alive => "open" \in Faults
  /\ driver' = Bound
  /\ alive' = FALSE
  /\ Deleted
  /\ UNCHANGED <<unopened, mishap>>

detach_kernel_driver ==
  /\ main = "detach"
  /\ driver' = IF alive THEN "none" ELSE driver
  /\ main' = "claim"
  /\ UNCHANGED <<alive, attempt, handle, opening>>

NextAttempt ==
  /\ attempt' = attempt + 1
  /\ main' = IF attempt < MaxClaimAttempts THEN "detach" ELSE "give_up"

claim_interface ==
  /\ main = "claim"
  /\ \/ /\ alive /\ driver = "none"
        /\ driver' = "claimed"
        /\ main' = "settle"
        /\ UNCHANGED <<attempt, mishap>>
     \/ /\ ~alive \/ driver # "none" \/ "claim" \in Faults
        /\ mishap' = (mishap \/ (alive /\ driver = "none"))
        /\ NextAttempt
        /\ UNCHANGED driver
  /\ UNCHANGED <<unopened, alive, handle, pumping, watchdog, flags, pipe, counts>>

Released == IF alive /\ driver = "claimed" THEN "none" ELSE driver

\* After the settling delay: is a kernel driver active again?
claim_settles ==
  /\ main = "settle"
  /\ IF alive /\ driver = "claimed"
     THEN /\ main' = "pipe"
          /\ UNCHANGED <<driver, attempt>>
     ELSE /\ driver' = Released
          /\ NextAttempt
  /\ UNCHANGED <<alive, handle, opening>>

\* Out of attempts: close the handle and bind the hid_device again.
give_up ==
  /\ main = "give_up"
  /\ driver' = Bound
  /\ alive' = FALSE
  /\ Deleted
  /\ UNCHANGED <<unopened, mishap>>

pipe_opens ==
  /\ main = "pipe"
  /\ main' = "open"
  /\ UNCHANGED <<alive, driver, attempt, handle, opening>>

\* The bind on this path finds no hid_device either.
pipe_fails ==
  /\ main = "pipe" /\ "pipe" \in Faults
  /\ driver' = Released
  /\ mishap' = (mishap \/ alive)
  /\ alive' = FALSE
  /\ Deleted
  /\ UNCHANGED unopened

\* usb_hid_transport_start, once the virtual device is up.
transport_start ==
  /\ main = "open"
  /\ main' = "running"
  /\ pump' = "top"
  /\ watchdog' = "wait"
  /\ UNCHANGED <<rigid, device, attempt, handle, held, checks, flags, pipe, counts>>

UsbOpen ==
  \/ hid_id_unbind \/ find_device \/ find_fails \/ detach_kernel_driver \/ claim_interface
  \/ claim_settles \/ give_up \/ pipe_opens \/ pipe_fails \/ transport_start

-----------------------------------------------------------------------------
(* Opening over Bluetooth: hid_bpf_transport_open. *)

\* udev-hid-bpf add.
bpf_add ==
  /\ kind = "bpf" /\ main = "idle"
  /\ present
  /\ program' = TRUE
  /\ alive' = TRUE
  /\ main' = "bpf_setup"
  /\ UNCHANGED <<rigid, present, driver, mishap, attempt, handle, pumping, watchdog, flags, pipe, counts>>

bpf_opens ==
  /\ main = "bpf_setup" /\ alive
  /\ handle' = TRUE
  /\ pump' = "top"
  /\ main' = "running"
  /\ UNCHANGED <<rigid, device, attempt, held, checks, watchdog, flags, pipe, counts>>

\* No pinned map, no hidraw node, no socket pair, no ring buffer: every path
\* removes the program again.
bpf_open_fails ==
  /\ main = "bpf_setup"
  /\ alive => "open" \in Faults
  /\ program' = (program /\ ~alive)
  /\ alive' = FALSE
  /\ Deleted
  /\ UNCHANGED <<rigid, present, driver, mishap>>

BpfOpen == bpf_add \/ bpf_opens \/ bpf_open_fails

-----------------------------------------------------------------------------
(* main() while the transport runs. *)

connected == <<rigid, device, main, attempt, handle, watchdog, flags>>

read_report ==
  /\ main = "running"
  /\ inbox # <<>>
  /\ inbox' = Tail(inbox)
  /\ UNCHANGED <<connected, pumping, hup, outbox, counts>>

\* A full or shut down socket refuses the report; main() drops it.
write_output ==
  /\ main = "running" /\ ~hup
  /\ offered < MaxReports
  /\ Len(outbox) < Capacity
  /\ offered' = offered + 1
  /\ outbox' = Append(outbox, offered')
  /\ UNCHANGED <<connected, pumping, hup, inbox, received, delivered>>

Mut_close_begins ==
  /\ main \in {"open", "running"}
  /\ main' = "join_pump"
  /\ stop_flag' = TRUE
  /\ UNCHANGED <<rigid, device, attempt, handle, pumping, watchdog, force_closed, pipe, counts>>

\* usb/hid_bpf_transport_close, from POLLHUP, a hot-swap, a command or the end
\* of the daemon; from "open" when the virtual device could not be created.
close_begins ==
  /\ main \in {"open", "running"}
  /\ main' = "join_pump"
  /\ stop_flag' = TRUE
  /\ hup' = TRUE
  /\ UNCHANGED <<rigid, device, attempt, handle, pumping, watchdog, force_closed,
                 inbox, outbox, counts>>

Ended(thread) == thread \in {"none", "done"}

Mut_close_joins_pump ==
  /\ main = "join_pump"
  /\ main' = "join_watchdog"
  /\ UNCHANGED <<rigid, device, attempt, handle, pumping, watchdog, flags, pipe, counts>>

close_joins_pump ==
  /\ main = "join_pump" /\ Ended(pump)
  /\ main' = "join_watchdog"
  /\ UNCHANGED <<rigid, device, attempt, handle, pumping, watchdog, flags, pipe, counts>>

Mut_close_joins_watchdog ==
  /\ main = "join_watchdog"
  /\ main' = "release"
  /\ UNCHANGED <<rigid, device, attempt, handle, pumping, watchdog, flags, pipe, counts>>

close_joins_watchdog ==
  /\ main = "join_watchdog" /\ Ended(watchdog)
  /\ main' = "release"
  /\ UNCHANGED <<rigid, device, attempt, handle, pumping, watchdog, flags, pipe, counts>>

\* libusb_release_interface and libusb_attach_kernel_driver; the bind that
\* follows a failed attach finds no hid_device to bind.
reattach ==
  IF alive /\ driver = "claimed"
  THEN \/ driver' = "kernel" /\ UNCHANGED mishap
       \/ "attach" \in Faults /\ driver' = "none" /\ mishap' = TRUE
  ELSE UNCHANGED <<driver, mishap>>

Mut_close_releases ==
  /\ main = "release"
  /\ driver' = IF kind = "usb" /\ alive /\ driver = "claimed" THEN "none" ELSE driver
  /\ program' = IF kind = "bpf" /\ alive THEN FALSE ELSE program
  /\ alive' = FALSE
  /\ Deleted
  /\ UNCHANGED <<rigid, present, mishap>>

\* A handle the watchdog closed is left alone.
close_releases ==
  /\ main = "release"
  /\ IF kind = "usb" /\ ~force_closed THEN reattach ELSE UNCHANGED <<driver, mishap>>
  /\ program' = IF kind = "bpf" /\ alive THEN FALSE ELSE program
  /\ alive' = FALSE
  /\ Deleted
  /\ UNCHANGED <<rigid, present>>

Closing == close_joins_pump \/ close_joins_watchdog \/ close_releases

-----------------------------------------------------------------------------
(* pump_thread_fn *)

only_pump(to) ==
  /\ pump' = to
  /\ UNCHANGED <<connected, held, checks, pipe, counts>>

Mut_pump_top ==
  /\ pump = "top"
  /\ IF stop_flag THEN only_pump("shut")
     ELSE IF outbox = <<>> \/ hup THEN only_pump("in")
     ELSE /\ held' = Head(outbox)
          /\ outbox' = IF kind = "usb" THEN Tail(outbox) ELSE <<>>
          /\ pump' = "out"
          /\ UNCHANGED <<connected, checks, hup, inbox, counts>>

\* Outbound: USB forwards the oldest waiting report, HID-BPF drains the socket
\* and forwards the newest.
pump_top ==
  /\ pump = "top"
  /\ IF stop_flag THEN only_pump("shut")
     ELSE IF outbox = <<>> \/ hup THEN only_pump("in")
     ELSE /\ held' = IF kind = "usb" THEN Head(outbox) ELSE outbox[Len(outbox)]
          /\ outbox' = IF kind = "usb" THEN Tail(outbox) ELSE <<>>
          /\ pump' = "out"
          /\ UNCHANGED <<connected, checks, hup, inbox, counts>>

\* The write to hidraw; its error is only logged.
bpf_sends ==
  /\ kind = "bpf" /\ pump = "out"
  /\ delivered' = IF alive THEN held ELSE delivered
  /\ held' = 0
  /\ pump' = "in"
  /\ UNCHANGED <<connected, checks, pipe, received, offered>>

\* libusb_interrupt_transfer begins, from then on libusb_close() wakes it.
transfer_begins(from, to) ==
  /\ kind = "usb" /\ pump = from
  /\ handle
  /\ only_pump(to)

\* The kernel closes the process's descriptors and nothing else: a claimed
\* interface stays without a driver, a pinned program attached.
dies ==
  /\ main' = "dead"
  /\ driver' = Released
  /\ mishap' = (mishap \/ alive)
  /\ alive' = FALSE
  /\ Forgotten
  /\ UNCHANGED unopened

\* On a handle that was closed the call's behaviour is undefined: an error, as
\* for a device that is gone, or the end of the process.
transfer_on_closed_handle ==
  /\ kind = "usb" /\ pump \in {"out", "in"}
  /\ ~handle
  /\ \/ /\ pump' = IF pump = "out" THEN "in" ELSE "shut"
        /\ held' = 0
        /\ UNCHANGED <<connected, checks, pipe, counts>>
     \/ dies

\* A transfer comes back with an error: the device is gone or another driver
\* owns the interface, unless the call stalls until the handle is closed.
Fails == ~handle \/ (~alive /\ ~stalls) \/ (alive /\ driver # "claimed")

\* The result of an output transfer is ignored.
usb_sends ==
  /\ pump = "sending"
  /\ \/ alive /\ driver = "claimed" /\ handle /\ delivered' = held
     \/ Fails /\ UNCHANGED delivered
  /\ held' = 0
  /\ pump' = "in"
  /\ UNCHANGED <<connected, checks, pipe, received, offered>>

Listening == pump = "receiving" \/ (kind = "bpf" /\ pump = "in")

\* The controller only talks to the pump while it is not the kernel's.
pump_receives ==
  /\ Listening
  /\ alive /\ IF kind = "usb" THEN driver = "claimed" /\ handle ELSE program
  /\ received < MaxReports
  /\ received' = received + 1
  /\ held' = received'
  /\ pump' = "deliver"
  /\ UNCHANGED <<connected, checks, pipe, offered, delivered>>

\* Nothing within 8 ms; HID-BPF hears no more of a device that is gone.
AfterReceive == IF kind = "usb" THEN "top" ELSE "check"

pump_times_out ==
  /\ Listening
  /\ kind = "usb" => alive
  /\ only_pump(AfterReceive)

pump_loses_device ==
  /\ pump = "receiving"
  /\ Fails
  /\ only_pump("shut")

Mut_pump_delivers ==
  /\ pump = "deliver"
  /\ inbox' = IF hup THEN inbox
              ELSE IF Len(inbox) < Capacity THEN Append(inbox, held)
              ELSE [inbox EXCEPT ![Capacity] = held]
  /\ pump' = IF hup /\ kind = "usb" THEN "shut" ELSE AfterReceive
  /\ held' = 0
  /\ UNCHANGED <<connected, checks, hup, outbox, counts>>

\* write(sv[0]) blocks while main() lags behind; once the pair was shut down it
\* fails, which ends the USB pump and is ignored by on_ringbuf_report().
pump_delivers ==
  /\ pump = "deliver"
  /\ \/ ~hup /\ Len(inbox) < Capacity
     \/ hup
  /\ inbox' = IF hup THEN inbox ELSE Append(inbox, held)
  /\ pump' = IF hup /\ kind = "usb" THEN "shut" ELSE AfterReceive
  /\ held' = 0
  /\ UNCHANGED <<connected, checks, hup, outbox, counts>>

\* Every CheckEvery passes: is the hid_device still in sysfs?
bpf_checks ==
  /\ pump = "check"
  /\ IF checks + 1 < CheckEvery
     THEN /\ checks' = checks + 1
          /\ pump' = "top"
     ELSE /\ checks' = 0
          /\ pump' = IF alive THEN "top" ELSE "shut"
  /\ UNCHANGED <<connected, held, pipe, counts>>

pump_shuts_down ==
  /\ pump = "shut"
  /\ hup' = TRUE
  /\ pump' = "done"
  /\ UNCHANGED <<connected, held, checks, inbox, outbox, counts>>

Pump ==
  \/ pump_top \/ bpf_sends \/ transfer_begins("out", "sending")
  \/ transfer_begins("in", "receiving") \/ transfer_on_closed_handle \/ usb_sends
  \/ pump_receives \/ pump_times_out \/ pump_loses_device \/ pump_delivers
  \/ bpf_checks \/ pump_shuts_down

-----------------------------------------------------------------------------
(* watchdog_thread_fn (USB) *)

only_watchdog(to) ==
  /\ watchdog' = to
  /\ UNCHANGED <<rigid, device, main, attempt, handle, pumping, flags, pipe, counts>>

\* 700 ms pass, or close() notifies.
watchdog_wakes ==
  /\ watchdog = "wait"
  /\ only_watchdog(IF stop_flag THEN "done" ELSE "look")

watchdog_condemns ==
  /\ force_closed' = TRUE
  /\ watchdog' = "close"
  /\ UNCHANGED <<rigid, device, main, attempt, handle, pumping, stop_flag, pipe, counts>>

\* device_still_present
watchdog_looks ==
  /\ watchdog = "look"
  /\ IF alive THEN only_watchdog("ask") ELSE watchdog_condemns

Mut_watchdog_asks ==
  /\ watchdog = "ask"
  /\ only_watchdog("wait")

\* libusb_kernel_driver_active
watchdog_asks ==
  /\ watchdog = "ask"
  /\ IF alive /\ driver = "kernel" THEN watchdog_condemns ELSE only_watchdog("wait")

\* libusb_close() on the handle the pump uses.
watchdog_closes ==
  /\ watchdog = "close"
  /\ handle' = FALSE
  /\ driver' = Released
  /\ watchdog' = "done"
  /\ UNCHANGED <<unopened, alive, mishap, main, attempt, pumping, flags, pipe, counts>>

Watchdog == watchdog_wakes \/ watchdog_looks \/ watchdog_asks \/ watchdog_closes

-----------------------------------------------------------------------------
(* The controller and the kernel. *)

service == <<rigid, main, attempt, handle, pumping, watchdog, flags, pipe, counts>>

plug ==
  /\ ~present
  /\ present' = TRUE
  /\ driver' = "kernel"
  /\ program' = FALSE
  /\ mishap' = FALSE
  /\ UNCHANGED <<alive, service>>

unplug ==
  /\ present
  /\ present' = FALSE
  /\ alive' = FALSE
  /\ driver' = "kernel"
  /\ program' = FALSE
  /\ mishap' = FALSE
  /\ UNCHANGED service

\* hid-playstation's delayed probe takes the interface back (USB hot-swap).
kernel_reclaims ==
  /\ "reclaim" \in Faults
  /\ driver \in {"none", "claimed"}
  /\ main \in {"claim", "settle", "pipe", "open", "running"}
  /\ driver' = "kernel"
  /\ UNCHANGED <<present, program, alive, mishap, service>>

\* SIGKILL
killed ==
  /\ "kill" \in Faults
  /\ main \notin {"idle", "dead"}
  /\ dies

\* rebind-unbound-controllers.sh, then a new daemon.
restart ==
  /\ main = "dead"
  /\ driver' = IF driver = "usbhid" THEN "kernel" ELSE driver
  /\ Deleted
  /\ UNCHANGED <<unopened, alive, mishap>>

Environment == plug \/ unplug \/ kernel_reclaims \/ killed

Next ==
  \/ UsbOpen \/ BpfOpen
  \/ read_report \/ write_output \/ close_begins \/ Closing
  \/ Pump \/ Watchdog
  \/ Environment \/ restart

Spec == Init /\ [][Next]_vars

\* main() finishes open and close and reads what poll() announces; the threads
\* run.  Nothing obliges the controller, the user or the kernel.
FairSpec ==
  /\ Spec
  /\ WF_vars(UsbOpen) /\ WF_vars(BpfOpen)
  /\ WF_vars(read_report) /\ WF_vars(Closing)
  /\ WF_vars(Pump) /\ WF_vars(Watchdog)

-----------------------------------------------------------------------------
(* Properties *)

Numbers == 0 .. MaxReports

\* Every variable has its type.
TypeOK ==
  /\ kind \in {"usb", "bpf"} /\ stalls \in BOOLEAN
  /\ present \in BOOLEAN /\ alive \in BOOLEAN /\ program \in BOOLEAN
  /\ mishap \in BOOLEAN
  /\ driver \in {"kernel", "usbhid", "none", "claimed"}
  /\ main \in MainPlaces
  /\ attempt \in 1 .. MaxClaimAttempts + 1
  /\ handle \in BOOLEAN /\ stop_flag \in BOOLEAN /\ force_closed \in BOOLEAN
  /\ hup \in BOOLEAN
  /\ pump \in PumpPlaces /\ watchdog \in WatchdogPlaces
  /\ inbox \in Seq(Numbers) /\ outbox \in Seq(Numbers)
  /\ held \in Numbers /\ checks \in 0 .. CheckEvery - 1
  /\ received \in Numbers /\ offered \in Numbers /\ delivered \in Numbers

\* The libusb handle is closed exactly once: when close() gets to it, either
\* it is still open or the watchdog closed it and said so.
HandleClosedOnce ==
  main = "release" /\ kind = "usb" => (force_closed <=> ~handle)

\* No thread is left when close() frees what it works on, whatever the thread
\* was blocked in (usb_hid_transport_close and hid_bpf_transport_close).
ThreadsAreJoined ==
  main \notin {"running", "join_pump", "join_watchdog"} =>
    /\ Ended(pump)
    /\ main # "open" => Ended(watchdog)

\* Whenever no transport holds the controller it has its kernel driver and its
\* reports reach the system: after an open that failed, a close or a forced
\* close.  Except for four failures, which leave a claimed interface without a
\* hid_device that could be bound again: a claim libusb refuses, no socket
\* pair, a failed attach, and the end of the process.
NobodyStranded ==
  main = "idle" /\ present /\ ~mishap => driver = "kernel" /\ ~program

\* The same without exception ("so the controller isn't left stranded", the
\* comment on usb_hid_transport_open).
NobodyEverStranded ==
  main = "idle" /\ present => driver = "kernel" /\ ~program

\* The forced close is there to wake a pump that is blocked in a transfer (the
\* comment above watchdog_thread_fn): no transfer starts on the handle that is gone.
NoTransferOnClosedHandle ==
  ~(kind = "usb" /\ pump \in {"out", "in"} /\ ~handle)

Lost == ~alive \/ (kind = "usb" /\ driver # "claimed")

\* When the controller is gone, or the kernel took it back, main() sees the
\* pair hang up, even if a transfer never returns and even if the controller is
\* plugged in again.
LossIsSignalled ==
  (main = "running" /\ Lost) ~> (hup \/ main # "running")

\* close() returns, unless a transfer on a gone device stalls.
CloseReturns ==
  (main = "join_pump" /\ ~stalls) ~> (main \in {"idle", "dead"})

\* The same without the exception.
CloseAlwaysReturns ==
  (main = "join_pump") ~> (main \in {"idle", "dead"})

\* The last rumble or LED state main() wrote reaches the controller.
NewestOutputForwarded ==
  (main = "running" /\ offered # delivered) ~>
    (offered = delivered \/ Lost \/ main # "running")

\* The descriptor behaves like a hidraw node (see ReportPipe).
link ==
  IF main \notin {"open", "running"} THEN "closed" ELSE IF hup THEN "hung_up" ELSE "open"
Pipe == INSTANCE ReportPipe WITH
  link <- link,
  waiting <- IF link = "closed" THEN <<>> ELSE inbox,
  newest <- IF link = "closed" THEN 0
            ELSE IF pump = "deliver" THEN received - 1 ELSE received
ImplementsPipe == Pipe!Spec
=============================================================================
