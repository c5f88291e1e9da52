--------------------------- MODULE PhysicalOutput ---------------------------
(***************************************************************************)
(* Who sends rumble and LED reports to a Bluetooth controller, and through *)
(* which descriptor: the daemon's main loop (src/main.cpp), the detached   *)
(* threads it starts with a dup() of the descriptor, and the OUT thread of *)
(* the FunctionFS backend (src/functionfs-backend.c), all through one      *)
(* BtOutputPacer.  A report is a pair <<descriptor, state>>.               *)
(*                                                                         *)
(* A descriptor stands for one open file, not for its number: a write to   *)
(* a closed one is a write to whatever has its number by then.             *)
(***************************************************************************)
EXTENDS BtOutputPacer, Sequences

CONSTANTS
  PhyFds,      \* descriptors of the controller's own connections
  DupFds,      \* descriptors the detached threads dup()
  Motors, Leds, MotorsOff, DefaultLed,
  Kept,        \* the part an output report leaves as it is
  NoFd,        \* -1
  Restore,     \* a detached thread's step that reads cur_* when it runs
  OutThread,   \* FunctionFS, whose OUT thread lives as long as the device, or UHID?
  MaxTests     \* how many `led` and `identify` commands arrive (bound)

Fds == PhyFds \cup DupFds
States == [motor : Motors, led : Leds]

\* Output reports of the emulated device: a motor part, an LED part or both.
Outputs == [motor : Motors \cup {Kept}, led : Leds \cup {Kept}]

ASSUME OutputAssumption ==
  /\ Reports = (Fds \cup {NoFd}) \X States
  /\ PhyFds \cap DupFds = {}
  /\ NoFd \notin Fds
  /\ MotorsOff \in Motors
  /\ DefaultLed \in Leds
  /\ Kept \notin Motors \cup Leds
  /\ Restore \notin States
  /\ OutThread \in BOOLEAN
  /\ MaxTests \in Nat

VARIABLES
  phy_fd,        \* phy_fd of main()
  open,          \* the descriptors that are open
  vdev,          \* the emulated device: Devices, below
  cur,           \* cur_motor_*, cur_r/g/b
  suppress_led,  \* g_suppress_next_led_update
  main,          \* the main loop: pc, its report, is that the device's own?
  push,          \* per dup() descriptor, the detached thread that owns it
  out,           \* the FunctionFS OUT thread
  tests          \* `led` and `identify` commands served so far

\* History, not program state.
VARIABLES
  last_word,     \* whose report was submitted last on this connection (below)
  asked          \* the colour the emulated device was given last

pacer == vars
history == <<last_word, asked>>
output == <<phy_fd, open, vdev, cur, suppress_led, main, push, out, tests, history>>
all_vars == <<vars, output>>

\* "none": nobody's.  "device": one the emulated device asked for.  "led": that
\* of a `led` command.  "repeated": since a `led` command the device asked, in
\* full, for what cur_* holds.  "push": a detached thread's, or one the OUT
\* thread sent elsewhere.
Words == {"none", "device", "led", "repeated", "push"}

\* "kept": of a controller, also of one that has just left.
Devices == {"none", "kept", "standalone"}

Idle == [pc |-> "idle", todo |-> <<>>]
MainAt(pc) == [pc |-> pc, report |-> NoReport, own |-> FALSE]
OutAt(pc) == [pc |-> pc, report |-> NoReport]
Polling == MainAt("poll")
OutIdle == OutAt("read")

OutputInit ==
  /\ Init
  /\ phy_fd = NoFd
  /\ open = {}
  /\ vdev = "none"
  /\ cur = [motor |-> MotorsOff, led |-> DefaultLed]
  /\ suppress_led = TRUE
  /\ main = Polling
  /\ push = [d \in DupFds |-> Idle]
  /\ out = OutIdle
  /\ tests = 0
  /\ last_word = "none"
  /\ asked = DefaultLed

-----------------------------------------------------------------------------
(* An output report of the emulated device, with either backend. *)

\* A new device's first LED part is the default hid-playstation pushes out.
LedCounts(o) == o.led # Kept /\ ~suppress_led

\* motor_left, ... b after the report was read.
Asked(o) ==
  [motor |-> IF o.motor = Kept THEN cur.motor ELSE o.motor,
   led   |-> IF LedCounts(o) THEN o.led ELSE cur.led]

output_read(o) ==
  /\ suppress_led' = (suppress_led /\ o.led = Kept)
  /\ asked' = IF LedCounts(o) THEN o.led ELSE asked

\* The change filter: nothing is recorded, nothing is sent.
filtered(o) ==
  /\ last_word' = IF last_word = "led" /\ phy_fd # NoFd /\ LedCounts(o) /\ o.motor # Kept
                  THEN "repeated" ELSE last_word
  /\ UNCHANGED cur

-----------------------------------------------------------------------------
(* The main loop. *)

\* A scan opens the controller: phy_fd is set before the device exists.
connect ==
  /\ main.pc = "poll"
  /\ phy_fd = NoFd
  /\ vdev # "standalone"
  /\ \E f \in PhyFds \ open :
       /\ phy_fd' = f
       /\ open' = open \cup {f}
  /\ main' = MainAt("opened")
  /\ last_word' = "none"
  /\ UNCHANGED <<pacer, vdev, cur, suppress_led, push, out, tests, asked>>

\* g_suppress_next_led_update is set once create_virtual_device() has succeeded.
created ==
  /\ suppress_led' = TRUE
  /\ asked' = cur.led

\* The device is created, or reused within its grace window; or the daemon
\* emulates nothing; or the creation fails and the controller is released.
connect_device ==
  /\ main.pc = "opened"
  /\ \/ created /\ vdev' = "kept" /\ main' = MainAt("push")
     \/ /\ \/ vdev = "kept" /\ main' = MainAt("push")
           \/ vdev = "none" /\ main' = Polling
           \/ main' = MainAt("discard")
        /\ UNCHANGED <<vdev, suppress_led, asked>>
  /\ UNCHANGED <<pacer, phy_fd, open, cur, push, out, tests, last_word>>

\* std::thread(...).detach() with a fresh dup of the controller's descriptor;
\* nothing happens when dup() fails.
detach(todo) ==
  \/ \E d \in DupFds \ open :
       /\ push' = [push EXCEPT ![d] = [pc |-> "submit", todo |-> todo]]
       /\ open' = open \cup {d}
  \/ UNCHANGED <<push, open>>

\* The last known LED colour goes to the controller from a detached thread,
\* which gets its values when it is created.
connect_push ==
  /\ main.pc = "push"
  /\ detach(<<[motor |-> MotorsOff, led |-> cur.led]>>)
  /\ main' = Polling
  /\ UNCHANGED <<pacer, phy_fd, vdev, cur, suppress_led, out, tests, history>>

\* `create-virtual`
create_device ==
  /\ main.pc = "poll"
  /\ phy_fd = NoFd
  /\ vdev = "none"
  /\ created
  /\ vdev' = "standalone"
  /\ UNCHANGED <<pacer, phy_fd, open, cur, main, push, out, tests, last_word>>

\* A new name: destroyed and created in place.
recreate_device ==
  /\ main.pc = "poll"
  /\ vdev # "none"
  /\ out.pc = "read"
  /\ created
  /\ UNCHANGED <<pacer, phy_fd, open, vdev, cur, main, push, out, tests, last_word>>

\* The grace window ends, or a command destroys the device; functionfs_close()
\* joins the OUT thread.
destroy_device ==
  /\ main.pc = "poll"
  /\ vdev # "none"
  /\ out.pc = "read"
  /\ vdev' = "none"
  /\ UNCHANGED <<pacer, phy_fd, open, cur, suppress_led, main, push, out, tests, history>>

Mut_uhid_output(o) ==
  /\ ~OutThread
  /\ vdev # "none"
  /\ main.pc = "poll"
  /\ output_read(o)
  /\ IF Asked(o) = cur
     THEN filtered(o) /\ UNCHANGED main
     ELSE /\ cur' = Asked(o)
          /\ main' = IF phy_fd = NoFd \/ o.motor = MotorsOff THEN main
                     ELSE [pc |-> "submit", report |-> <<phy_fd, Asked(o)>>, own |-> TRUE]
          /\ UNCHANGED last_word
  /\ UNCHANGED <<pacer, phy_fd, open, vdev, push, out, tests>>

\* UHID_OUTPUT: only a change is recorded, and sent if a controller is there.
uhid_output(o) ==
  /\ ~OutThread
  /\ vdev # "none"
  /\ main.pc = "poll"
  /\ output_read(o)
  /\ IF Asked(o) = cur
     THEN filtered(o) /\ UNCHANGED main
     ELSE /\ cur' = Asked(o)
          /\ main' = IF phy_fd = NoFd THEN main
                     ELSE [pc |-> "submit", report |-> <<phy_fd, Asked(o)>>, own |-> TRUE]
          /\ UNCHANGED last_word
  /\ UNCHANGED <<pacer, phy_fd, open, vdev, push, out, tests>>

\* `led r g b left right`: cur_* is left alone.
led_test(s) ==
  /\ main.pc = "poll"
  /\ phy_fd # NoFd
  /\ tests < MaxTests
  /\ tests' = tests + 1
  /\ main' = [pc |-> "submit", report |-> <<phy_fd, s>>, own |-> FALSE]
  /\ UNCHANGED <<pacer, phy_fd, open, vdev, cur, suppress_led, push, out, history>>

\* `led --reset`: the device's state again, unless the OUT thread changes it
\* before it is submitted.
led_reset ==
  /\ main.pc = "poll"
  /\ phy_fd # NoFd
  /\ main' = [pc |-> "submit", report |-> <<phy_fd, cur>>, own |-> ~OutThread]
  /\ UNCHANGED <<pacer, phy_fd, open, vdev, cur, suppress_led, push, out, tests, history>>

\* `identify`: blinks from a detached thread, then hands the pad back.
identify ==
  /\ main.pc = "poll"
  /\ phy_fd # NoFd
  /\ tests < MaxTests
  /\ tests' = tests + 1
  /\ \E on, off \in States : detach(<<on, off, Restore>>)
  /\ UNCHANGED <<pacer, phy_fd, vdev, cur, suppress_led, main, out, history>>

main_submits ==
  /\ main.pc = "submit"
  /\ submit(main.report)
  /\ last_word' = IF main.own THEN "device" ELSE "led"
  /\ main' = MainAt(IF submitting' THEN "writing" ELSE "poll")
  /\ UNCHANGED <<phy_fd, open, vdev, cur, suppress_led, push, out, tests, asked>>

main_write_returns ==
  /\ main.pc = "writing"
  /\ submit_returns
  /\ main' = Polling
  /\ UNCHANGED <<phy_fd, open, vdev, cur, suppress_led, push, out, tests, history>>

Mut_main_drops ==
  /\ main.pc = "poll"
  /\ phy_fd # NoFd
  /\ main' = MainAt("close")
  /\ UNCHANGED <<pacer, phy_fd, open, vdev, cur, suppress_led, push, out, tests, history>>

\* POLLHUP, `release-physical`, a type change...: release_physical_connection.
main_drops ==
  /\ main.pc = "poll"
  /\ phy_fd # NoFd
  /\ main' = MainAt("discard")
  /\ UNCHANGED <<pacer, phy_fd, open, vdev, cur, suppress_led, push, out, tests, history>>

main_discards ==
  /\ main.pc = "discard"
  /\ discard_pending
  /\ main' = MainAt("close")
  /\ last_word' = "none"
  /\ UNCHANGED <<phy_fd, open, vdev, cur, suppress_led, push, out, tests, asked>>

main_closes ==
  /\ main.pc = "close"
  /\ open' = open \ {phy_fd}
  /\ phy_fd' = NoFd
  /\ main' = Polling
  /\ UNCHANGED <<pacer, vdev, cur, suppress_led, push, out, tests, history>>

\* SIGTERM: stop_bt_output_pacer() comes first, with phy_fd still valid.
main_stops ==
  /\ main.pc = "poll"
  /\ stop
  /\ main' = MainAt("join")
  /\ last_word' = "none"
  /\ UNCHANGED <<phy_fd, open, vdev, cur, suppress_led, push, out, tests, asked>>

\* What is left of main() releases the controller and returns.
main_exits ==
  /\ main.pc = "join"
  /\ stop_returns
  /\ open' = open \ {phy_fd}
  /\ phy_fd' = NoFd
  /\ main' = MainAt("down")
  /\ UNCHANGED <<vdev, cur, suppress_led, push, out, tests, history>>

MainLoop ==
  \/ connect
  \/ connect_device
  \/ connect_push
  \/ create_device
  \/ recreate_device
  \/ destroy_device
  \/ \E o \in Outputs : uhid_output(o)
  \/ \E s \in States : led_test(s)
  \/ led_reset
  \/ identify
  \/ main_submits
  \/ main_write_returns
  \/ main_drops
  \/ main_discards
  \/ main_closes
  \/ main_stops
  \/ main_exits

-----------------------------------------------------------------------------
(* The detached threads and the OUT thread; they end with the process. *)

process_up == main.pc # "down"

\* The end of `identify`: cur_* are arguments, read before the pacer's mutex.
push_reads(d) ==
  /\ process_up
  /\ push[d].pc = "submit"
  /\ push[d].todo # <<>>
  /\ Head(push[d].todo) = Restore
  /\ push' = [push EXCEPT ![d] =
                [pc |-> "submit", todo |-> <<cur>> \o Tail(push[d].todo)]]
  /\ UNCHANGED <<pacer, phy_fd, open, vdev, cur, suppress_led, main, out, tests, history>>

push_submits(d) ==
  /\ process_up
  /\ push[d].pc = "submit"
  /\ push[d].todo # <<>>
  /\ Head(push[d].todo) # Restore
  /\ submit(<<d, Head(push[d].todo)>>)
  /\ push' = [push EXCEPT ![d] =
                [pc |-> IF submitting' THEN "writing" ELSE "submit",
                 todo |-> Tail(push[d].todo)]]
  /\ last_word' = "push"
  /\ UNCHANGED <<phy_fd, open, vdev, cur, suppress_led, main, out, tests, asked>>

push_write_returns(d) ==
  /\ process_up
  /\ push[d].pc = "writing"
  /\ submit_returns
  /\ push' = [push EXCEPT ![d].pc = "submit"]
  /\ UNCHANGED <<phy_fd, open, vdev, cur, suppress_led, main, out, tests, history>>

Mut_push_closes(d) ==
  /\ process_up
  /\ push[d].pc = "submit"
  /\ push[d].todo = <<>>
  /\ push' = [push EXCEPT ![d] = Idle]
  /\ UNCHANGED <<pacer, phy_fd, open, vdev, cur, suppress_led, main, out, tests, history>>

push_closes(d) ==
  /\ process_up
  /\ push[d].pc = "submit"
  /\ push[d].todo = <<>>
  /\ open' = open \ {d}
  /\ push' = [push EXCEPT ![d] = Idle]
  /\ UNCHANGED <<pacer, phy_fd, vdev, cur, suppress_led, main, out, tests, history>>

Pusher(d) == push_reads(d) \/ push_submits(d) \/ push_write_returns(d) \/ push_closes(d)

Mut_out_reads(o) ==
  /\ OutThread
  /\ vdev # "none"
  /\ process_up
  /\ out.pc = "read"
  /\ output_read(o)
  /\ IF phy_fd = NoFd \/ Asked(o) = cur
     THEN /\ cur' = IF o.led = Kept THEN cur ELSE [cur EXCEPT !.led = o.led]
          /\ UNCHANGED <<out, last_word>>
     ELSE /\ cur' = Asked(o)
          /\ out' = OutAt("changed")
          /\ UNCHANGED last_word
  /\ UNCHANGED <<pacer, phy_fd, open, vdev, main, push, tests>>

\* out_loop(): a change is recorded if a controller is there.
out_reads(o) ==
  /\ OutThread
  /\ vdev # "none"
  /\ process_up
  /\ out.pc = "read"
  /\ output_read(o)
  /\ IF phy_fd = NoFd \/ Asked(o) = cur
     THEN filtered(o) /\ UNCHANGED out
     ELSE /\ cur' = Asked(o)
          /\ out' = OutAt("changed")
          /\ UNCHANGED last_word
  /\ UNCHANGED <<pacer, phy_fd, open, vdev, main, push, tests>>

\* phy_fd is read again for the call, and may be another one, or -1, by now.
out_picks ==
  /\ process_up
  /\ out.pc = "changed"
  /\ out' = [pc |-> "submit", report |-> <<phy_fd, cur>>]
  /\ UNCHANGED <<pacer, phy_fd, open, vdev, cur, suppress_led, main, push, tests, history>>

out_submits ==
  /\ process_up
  /\ out.pc = "submit"
  /\ submit(out.report)
  /\ last_word' = IF out.report[1] = phy_fd THEN "device" ELSE "push"
  /\ out' = OutAt(IF submitting' THEN "writing" ELSE "read")
  /\ UNCHANGED <<phy_fd, open, vdev, cur, suppress_led, main, push, tests, asked>>

out_write_returns ==
  /\ process_up
  /\ out.pc = "writing"
  /\ submit_returns
  /\ out' = OutIdle
  /\ UNCHANGED <<phy_fd, open, vdev, cur, suppress_led, main, push, tests, history>>

OutLoop ==
  \/ \E o \in Outputs : out_reads(o)
  \/ out_picks
  \/ out_submits
  \/ out_write_returns

PacerSteps ==
  /\ process_up
  /\ FlushThread \/ flush_spurious_wake \/ Tick
  /\ UNCHANGED output

OutputNext ==
  \/ MainLoop
  \/ \E d \in DupFds : Pusher(d)
  \/ OutLoop
  \/ PacerSteps

OutputSpec == OutputInit /\ [][OutputNext]_all_vars

\* Threads are scheduled and writes return; strong where mutex_ is contended.
OutputFairSpec ==
  /\ OutputSpec
  /\ \A d \in DupFds :
       /\ WF_all_vars(push_reads(d))
       /\ SF_all_vars(push_submits(d))
       /\ WF_all_vars(push_write_returns(d))
       /\ WF_all_vars(push_closes(d))
  /\ SF_all_vars(main_submits \/ main_discards)
  /\ WF_all_vars(main_write_returns \/ main_closes)
  /\ WF_all_vars(out_write_returns)
  /\ SF_all_vars(PacerSteps /\ (flush_loop \/ flush_exits))
  /\ WF_all_vars(PacerSteps /\ (FlushThread \/ Tick))

-----------------------------------------------------------------------------
MainSteps == {"poll", "opened", "push", "submit", "writing", "discard", "close", "join", "down"}

OutputTypeOK ==
  /\ TypeOK
  /\ phy_fd \in PhyFds \cup {NoFd}
  /\ open \in SUBSET Fds
  /\ vdev \in Devices
  /\ cur \in States
  /\ suppress_led \in BOOLEAN
  /\ main \in [pc : MainSteps, report : Reports \cup {NoReport}, own : BOOLEAN]
  /\ push \in [DupFds -> [pc : {"idle", "submit", "writing"},
                          todo : Seq(States \cup {Restore})]]
  /\ out \in [pc : {"read", "changed", "submit", "writing"}, report : Reports \cup {NoReport}]
  /\ tests \in Nat
  /\ last_word \in Words
  /\ asked \in Leds
  /\ main.pc = "submit" => main.report \in Reports
  /\ out.pc = "submit" => out.report \in Reports

Writing == submitting \/ flush = "writing"

\* "so the flush thread can never write to an fd that has since been closed
\* (and possibly reused)": a write in progress is on an open descriptor.
WriteOnOpenFd == Writing => wire[1] \in open

\* The same for the descriptors of the connection itself, which is what
\* discard_pending_bt_output() in release_physical_connection() protects.
OwnDescriptorIsOpen == Writing /\ wire[1] \in PhyFds => wire[1] \in open

\* Nothing queued for a connection outlives it: what the pacer holds for a
\* connection is for the present one (release_physical_connection()).
HeldForThisConnection ==
  pending # NoReport /\ pending[1] \in PhyFds => pending[1] = phy_fd

\* A detached thread never keeps its descriptor for good, even when the pacer
\* is contended or stopped: each dup() is closed again (the LED push of the
\* scan, identify).
DupsAreClosed == \A d \in DupFds : (d \in open) ~> (d \notin open \/ ~process_up)

\* Nothing is on its way through the pacer.
Settled == main.pc = "poll" /\ out.pc = "read" /\ pending = NoReport /\ ~Writing

\* From the moment the emulated device's report is the last one submitted, the
\* controller follows the device until somebody else writes: whatever the
\* filter swallows, the pacer delays and the drops, pushes and tests before it
\* left behind, at rest it shows cur_* (uhid_output, out_loop(), flush_loop()).
PadFollowsDevice ==
  Settled /\ phy_fd # NoFd /\ last_word = "device" => wire = <<phy_fd, cur>>

\* "the next output report from the emulated device takes the controller
\* straight back" after a `led` test (2608).
TakesControllerBack ==
  Settled /\ phy_fd # NoFd /\ last_word = "repeated" => wire = <<phy_fd, cur>>

\* "cur_r/cur_g/cur_b ... still hold whatever LED color was last set" (2063):
\* the colour that is pushed when the controller comes back.
LastColourIsHeld == main.pc = "push" => cur.led = asked
=============================================================================
