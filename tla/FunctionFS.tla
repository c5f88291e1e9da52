----------------------------- MODULE FunctionFS -----------------------------
(***************************************************************************)
(* The FunctionFS backend, src/functionfs-backend.c: one emulated USB      *)
(* device served by three threads, opened and closed by the main loop.     *)
(*                                                                         *)
(*   ep0  reads control events and sets `configured`                       *)
(*   out  reads rumble and LED reports (their effect: PhysicalOutput)      *)
(*   in   takes the latest input report from a one-place mailbox and       *)
(*        writes it, blocking until the host reads it                      *)
(*                                                                         *)
(* A blocking system call has an "enter" state, after the thread looked at *)
(* device_open and before it sleeps in the kernel, because the SIGUSR1 of  *)
(* functionfs_close() only interrupts a call that already sleeps.          *)
(***************************************************************************)
EXTENDS Integers, Sequences

CONSTANT MaxReports   \* input reports sent while the device is open (bound)

ASSUME FunctionFSAssumption == MaxReports \in Nat

Threads == {"ep0", "out", "in"}

VARIABLES
  device_open, configured,
  spawned,         \* ep0/out/in_thread_spawned
  pc,              \* where each thread is
  report_pending,
  pending_report,
  local_buf,       \* in_loop()'s copy of the report it writes
  main,            \* where main() is in functionfs_init/close
  ep_open,         \* ep0_fd, ep_in_fd and ep_out_fd are open
  sent,            \* reports handed to functionfs_send_input_report
  lost,            \* history: the last report dropped by a reset or unconfiguring
  received         \* history: reports the host read, in order

mailbox == <<report_pending, pending_report>>
history == <<sent, lost, received>>
vars == <<device_open, configured, spawned, pc, report_pending, pending_report,
          local_buf, main, ep_open, sent, lost, received>>

\* "enter" and "blocked" are the two halves of a blocking call; a thread that
\* could not be started stays at "none".
Places == {"none", "check", "enter", "blocked", "enable", "disable", "handle",
           "cond", "taken", "done"}

\* main: "closed" no device, "open" serving it, else a place in close().
CloseSteps == {"clear", "kill_ep0", "join_ep0", "kill_out", "join_out",
               "kill_in", "signal_in", "join_in", "release"}

Init ==
  /\ device_open = FALSE
  /\ configured = FALSE
  /\ spawned = {}
  /\ pc = [t \in Threads |-> "none"]
  /\ report_pending = FALSE
  /\ pending_report = 0
  /\ local_buf = 0
  /\ main = "closed"
  /\ ep_open = FALSE
  /\ sent = 0
  /\ lost = 0
  /\ received = <<>>

Goto(t, place) == pc' = [pc EXCEPT ![t] = place]

-----------------------------------------------------------------------------
(* functionfs_init and functionfs_send_input_report, on the main loop. *)

\* Everything worked; each pthread_create may still fail, and init carries on.
functionfs_init ==
  /\ main = "closed"
  /\ main' = "open"
  /\ device_open' = TRUE
  /\ configured' = FALSE
  /\ report_pending' = FALSE
  /\ pending_report' = 0
  /\ \E S \in SUBSET Threads :
       /\ spawned' = S
       /\ pc' = [t \in Threads |-> IF t \in S THEN "check" ELSE "none"]
  /\ local_buf' = 0
  /\ ep_open' = TRUE
  /\ sent' = 0
  /\ lost' = 0
  /\ received' = <<>>

\* A failure resets the flags and starts no thread.  (One after ep0 was opened
\* also forgets open descriptors; what the kernel makes of the busy mount at the
\* next attempt is left out.)
init_fails ==
  /\ main = "closed"
  /\ configured' = FALSE
  /\ report_pending' = FALSE
  /\ UNCHANGED <<device_open, spawned, pc, pending_report, local_buf, main,
                 ep_open, history>>

\* cond_signal(report_cond): in_loop() goes back to its condition.
Signalled == IF pc["in"] = "cond" THEN [pc EXCEPT !["in"] = "check"] ELSE pc

Mut_send_input_report ==
  /\ main = "open"
  /\ configured
  /\ sent < MaxReports
  /\ sent' = sent + 1
  /\ pending_report' = sent'
  /\ report_pending' = TRUE
  /\ UNCHANGED pc
  /\ UNCHANGED <<device_open, configured, spawned, local_buf, main, ep_open, lost, received>>

functionfs_send_input_report ==
  /\ main = "open"
  /\ configured
  /\ sent < MaxReports
  /\ sent' = sent + 1
  /\ pending_report' = sent'
  /\ report_pending' = TRUE
  /\ pc' = Signalled
  /\ UNCHANGED <<device_open, configured, spawned, local_buf, main, ep_open, lost, received>>

-----------------------------------------------------------------------------
(* functionfs_close, one action per statement other threads can tell apart. *)

close_begins ==
  /\ main = "open"
  /\ configured' = FALSE
  /\ main' = "clear"
  /\ UNCHANGED <<device_open, spawned, pc, local_buf, mailbox, ep_open,
                 history>>

close_clears_open ==
  /\ main = "clear"
  /\ device_open' = FALSE
  /\ main' = "kill_ep0"
  /\ UNCHANGED <<configured, spawned, pc, local_buf, mailbox, ep_open,
                 history>>

\* SIGUSR1: the handler does nothing, a sleeping call returns EINTR and its
\* loop looks at device_open again.
Interrupted(t) == IF pc[t] = "blocked" THEN [pc EXCEPT ![t] = "check"] ELSE pc

close_kills(t, from, to) ==
  /\ main = from
  /\ pc' = IF t \in spawned THEN Interrupted(t) ELSE pc
  /\ main' = to
  /\ UNCHANGED <<device_open, configured, spawned, local_buf, mailbox, ep_open, history>>

Mut_close_joins(t, from, to) ==
  /\ main = from
  /\ main' = to
  /\ spawned' = spawned \ {t}
  /\ UNCHANGED <<device_open, configured, pc, local_buf, mailbox, ep_open, history>>

close_joins(t, from, to) ==
  /\ main = from
  /\ t \in spawned => pc[t] = "done"
  /\ main' = to
  /\ spawned' = spawned \ {t}
  /\ Goto(t, "none")
  /\ UNCHANGED <<device_open, configured, local_buf, mailbox, ep_open,
                 history>>

close_signals_in ==
  /\ main = "signal_in"
  /\ pc' = Signalled
  /\ main' = "join_in"
  /\ UNCHANGED <<device_open, configured, spawned, local_buf, mailbox, ep_open, history>>

close_releases ==
  /\ main = "release"
  /\ ep_open' = FALSE
  /\ main' = "closed"
  /\ UNCHANGED <<device_open, configured, spawned, pc, local_buf, mailbox, history>>

functionfs_close ==
  \/ close_clears_open
  \/ close_kills("ep0", "kill_ep0", "join_ep0")
  \/ close_joins("ep0", "join_ep0", "kill_out")
  \/ close_kills("out", "kill_out", "join_out")
  \/ close_joins("out", "join_out", "kill_in")
  \/ close_kills("in", "kill_in", "signal_in")
  \/ close_signals_in
  \/ close_joins("in", "join_in", "release")
  \/ close_releases

-----------------------------------------------------------------------------
(* The three threads. *)

only_pc == <<device_open, configured, spawned, local_buf, mailbox, main,
             ep_open, history>>

ThreadEnds(t) ==
  /\ pc[t] = "check"
  /\ ~device_open
  /\ Goto(t, "done")
  /\ UNCHANGED only_pc

\* The call falls asleep in the kernel.
Sleeps(t) ==
  /\ pc[t] = "enter"
  /\ Goto(t, "blocked")
  /\ UNCHANGED only_pc

ep0_reads ==
  /\ pc["ep0"] = "check"
  /\ device_open
  /\ Goto("ep0", "enter")
  /\ UNCHANGED only_pc

\* FUNCTIONFS_ENABLE and FUNCTIONFS_DISABLE, stored after the read returned.
ep0_stores(place, value) ==
  /\ pc["ep0"] = place
  /\ configured' = value
  /\ Goto("ep0", "check")
  /\ UNCHANGED <<device_open, spawned, local_buf, mailbox, main, ep_open, history>>

ep0_loop ==
  \/ ep0_reads
  \/ ep0_stores("enable", TRUE)
  \/ ep0_stores("disable", FALSE)

\* While unconfigured out_loop() naps and looks again.
out_reads ==
  /\ pc["out"] = "check"
  /\ device_open
  /\ configured
  /\ Goto("out", "enter")
  /\ UNCHANGED only_pc

\* The report was handled; device_open is looked at again.
out_handled ==
  /\ pc["out"] = "handle"
  /\ Goto("out", "check")
  /\ UNCHANGED only_pc

out_loop == out_reads \/ out_handled

\* The critical section of in_loop(): wait, or take the report.
in_waits ==
  /\ pc["in"] = "check"
  /\ device_open
  /\ ~report_pending
  /\ Goto("in", "cond")
  /\ UNCHANGED only_pc

in_spurious_wake ==
  /\ pc["in"] = "cond"
  /\ Goto("in", "check")
  /\ UNCHANGED only_pc

Mut_in_takes ==
  /\ pc["in"] = "check"
  /\ device_open
  /\ report_pending
  /\ local_buf' = pending_report
  /\ Goto("in", "taken")
  /\ UNCHANGED <<device_open, configured, spawned, mailbox, main, ep_open, history>>

in_takes ==
  /\ pc["in"] = "check"
  /\ device_open
  /\ report_pending
  /\ local_buf' = pending_report
  /\ report_pending' = FALSE
  /\ Goto("in", "taken")
  /\ UNCHANGED <<device_open, configured, spawned, pending_report, main,
                 ep_open, history>>

\* A report taken while the device is not configured is dropped.
in_writes ==
  /\ pc["in"] = "taken"
  /\ Goto("in", IF configured THEN "enter" ELSE "check")
  /\ lost' = IF configured THEN lost ELSE local_buf
  /\ UNCHANGED <<device_open, configured, spawned, local_buf, mailbox, main,
                 ep_open, sent, received>>

in_loop == in_waits \/ in_takes \/ in_writes

-----------------------------------------------------------------------------
(* The host and the gadget core. *)

host_event(kind) ==
  /\ pc["ep0"] = "blocked"
  /\ Goto("ep0", kind)
  /\ UNCHANGED only_pc

host_output ==
  /\ pc["out"] = "blocked"
  /\ Goto("out", "handle")
  /\ UNCHANGED only_pc

\* The host reads the IN endpoint.
host_polls ==
  /\ pc["in"] = "blocked"
  /\ Goto("in", "check")
  /\ received' = Append(received, local_buf)
  /\ UNCHANGED <<device_open, configured, spawned, local_buf, mailbox, main,
                 ep_open, sent, lost>>

\* A reset or disconnect completes the transfers of both endpoints with an error.
host_resets ==
  /\ \E t \in {"out", "in"} : pc[t] = "blocked"
  /\ pc' = [t \in Threads |->
              IF t # "ep0" /\ pc[t] = "blocked" THEN "check" ELSE pc[t]]
  /\ lost' = IF pc["in"] = "blocked" THEN local_buf ELSE lost
  /\ UNCHANGED <<device_open, configured, spawned, local_buf, mailbox, main,
                 ep_open, sent, received>>

Host ==
  \/ \E kind \in {"enable", "disable", "check"} : host_event(kind)
  \/ host_output
  \/ host_polls
  \/ host_resets

Service ==
  \/ ep0_loop
  \/ out_loop
  \/ in_loop
  \/ \E t \in Threads : Sleeps(t) \/ ThreadEnds(t)

Next ==
  \/ functionfs_init
  \/ init_fails
  \/ functionfs_send_input_report
  \/ close_begins
  \/ functionfs_close
  \/ Service
  \/ in_spurious_wake
  \/ Host

Spec == Init /\ [][Next]_vars

ThreadStep(t) ==
  \/ Sleeps(t) \/ ThreadEnds(t)
  \/ t = "ep0" /\ ep0_loop
  \/ t = "out" /\ out_loop
  \/ t = "in" /\ in_loop

\* Threads are scheduled, a call of close() carries on, and a host that
\* configured the device polls its interrupt IN endpoint.  Nothing obliges the
\* host to send events or output reports.
FairSpec ==
  /\ Spec
  /\ \A t \in Threads : WF_vars(ThreadStep(t))
  /\ WF_vars(functionfs_close)
  /\ WF_vars(host_polls)

-----------------------------------------------------------------------------
TypeOK ==
  /\ device_open \in BOOLEAN
  /\ configured \in BOOLEAN
  /\ spawned \in SUBSET Threads
  /\ pc \in [Threads -> Places]
  /\ report_pending \in BOOLEAN
  /\ pending_report \in 0..MaxReports
  /\ local_buf \in 0..MaxReports
  /\ main \in {"closed", "open"} \cup CloseSteps
  /\ ep_open \in BOOLEAN
  /\ sent \in 0..MaxReports
  /\ lost \in 0..MaxReports
  /\ received \in Seq(1..MaxReports)

\* A thread that is in or before a system call on an endpoint has the device
\* under it: the files are closed only after every thread was joined, also
\* when some threads could not be started (functionfs_close()).
ThreadsHaveDevice ==
  \A t \in Threads : pc[t] \notin {"none", "done"} => ep_open

\* The mailbox keeps the order: the host never sees an input report twice or
\* after a later one, although main() overwrites the slot at any time
\* (functionfs_send_input_report(), in_loop()).
InputInOrder ==
  \A i, j \in DOMAIN received : i < j => received[i] < received[j]

\* The last input report of a burst reaches the host while the device stays
\* open and configured: the mailbox may skip reports but never the newest
\* (functionfs_send_input_report(), in_loop()).
NewestInputDelivered ==
  \A n \in 1..MaxReports :
    (sent = n /\ main = "open" /\ configured /\ "in" \in spawned)
      ~> \/ received # <<>> /\ received[Len(received)] = n
         \/ sent # n \/ main # "open" \/ ~configured \/ lost = n

\* "the SIGUSR1 used to break these threads out of their blocking
\* read()/write()": functionfs_close() returns.
CloseReturns == (main = "clear") ~> (main = "closed")
=============================================================================
