# TLA+ models of ds4-translator

ds4-translator is a root daemon that reads a physical DualShock 4, hides it from
applications and offers an emulated DualShock 4 or DualSense in its place, through UHID or
through a USB gadget (FunctionFS).  A command line (`ds4-ctl`) and a desktop window talk to it
over a Unix socket.  These modules describe its threads, its device life cycle, what it takes
from the controller and gives back, its settings and its reports.  TLC checks them on small
instances; TLAPS proves most of the safety properties for every value of the constants.

Line numbers below are those of `src/src/main.cpp` unless another file is named.

## 1. Inventory

| Component | State it keeps | Operations | Interacts with | What makes it correct |
|---|---|---|---|---|
| **Bluetooth output pacer** (`BtOutputPacer`, 894-1010) | one pending report, time of the last write, flush thread, `stopping_` | `submit`, `discard_pending`, `stop`, `flush_loop` | main loop, detached threads, FunctionFS OUT thread; writes to the controller | newest report wins, last one is not lost, rate cap, stop returns |
| **Physical output** (2096-2112, 2546-2614, 3117-3213; `functionfs-backend.c` 417-498) | `phy_fd`, `cur_motor_*`, `cur_r/g/b`, dup()'d descriptors | output report, `led`, `led --reset`, `identify`, LED push at connect, release | pacer; three kinds of threads share `phy_fd` and `cur_*` without a lock | writes only to open descriptors; controller follows the emulated device |
| **FunctionFS backend** (`functionfs-backend.c`) | `device_open`, `configured`, thread flags, one-place mailbox, endpoint files | `functionfs_init`, `_close`, `_send_input_report`; ep0, out, in threads | main loop; USB host through the kernel | threads end before files close; newest input arrives, in order |
| **Daemon main loop** (`main`, 1588-3263) | `target_type`, `backend_type`, names, `phy_fd`, requests, grace window, standalone and ignore modes | scan, poll, commands, type/backend/name change, disconnect, grace, forwarding, UHID events | everything | one source per device, device has the emulated type, nothing stuck, controller ends up driving a device |
| **UHID device** (1281-1331, 2973-3219) | `uhid_fd`, kernel queue | create, destroy, OPEN/CLOSE, GET/SET_REPORT replies | kernel, host applications | open state follows the events |
| **USB transport** (`usb-hid-transport.cpp`) | libusb handle, socket pair, stop and force-closed flags | open with retries, start, pump, watchdog, close | main loop through the socket pair; kernel's delayed probe | handle closed once, threads joined, loss signalled, nobody stranded |
| **HID-BPF transport** (`hid-bpf-transport.cpp`) | ring buffer, attached program, hidraw descriptor, socket pair | open, pump with liveness check, close | kernel, main loop | the same, and the newest output gets through |
| **Hot-swap and hiding** (258-745, 1649-1707, 1994-2191; `hid-unbind-detect.cpp`) | `suppressed_bt_hid_id`, `g_pending_unbind_hid_id`, `is_bluetooth`, hidden nodes, `ignore_physical` | scan by either hide method, swap to the cable, uevents, drop, release, resume, shutdown | sysfs, udev, transports; `rebind-unbound-controllers.sh` | everything taken is given back; Bluetooth handed back |
| **Configuration** (1135-1262) | `/etc/ds4-translator.conf` | read at start, rewritten by commands | main loop, clients | what was set survives a restart |
| **Report translation** (95-243, 1363-1586, 2863-2968) | none | CRC, buttons, battery, touch batches, both output formats, STATE line | main loop, clients | game and view are told what the controller reports |
| **Client library, ds4-ctl** (`ipc-client.cpp`, `ctl.cpp`) | one socket | commands, status and STATE parsers | daemon | parsers accept what the daemon prints |
| **Desktop UI** (`src/ui`) | command queue, settings view, live stream | `IpcClient`, `DaemonController`, `InputMonitor`; window, tray, single instance | daemon by socket | every command answered once, view converges, stream comes back |

Hard behaviours: a mutex held across a write that may block; descriptors shared between threads
without a lock; a signal that only interrupts a call that already sleeps; a watchdog that closes a
handle under a thread that uses it; a kernel that probes an interface again after it was claimed; a
grace window that races reconnects and commands; uevents that name a device which is gone when
they are used; a file rewritten in place; clients that give up while their command still waits.
`PROJECT.json` lists them one by one under `hazards`, each at its line, with the properties that
cover it.

## 2. What is modelled

`BtOutputPacer` is extended by `PhysicalOutput`; `Reports` by `LiveInput`.  `PacedOutput` and
`ReportPipe` are abstract specifications that `BtOutputPacer` and `Transport` implement.  The other
modules meet at abstractions that each states at its head: what one module does in several steps
another does in one.  `MC*` modules give the constants their values, `*Proofs` hold the theorems.

### BtOutputPacer and PacedOutput

One action per critical section of `mutex_`; a write to the controller is split into its beginning and
its end because the mutex is held all along.  `pending` stands for `pending_`, `pending_fd_` and
`pending_state_` together.  Time is counted in ticks, and `since_write` saturates at `kMinInterval`
as the code compares it with nothing else.  A spurious wake-up of the condition variable is a step of its
own.  `wire`, `wire_age` and `newest` are history.  `PacedOutput` says the same without threads, locks
and timers: a register that holds the newest report and a wire that takes at most one report per interval.

### PhysicalOutput

Those who use the pacer: the main loop (a connection in three steps, `uhid_output`, `led_test`,
`led_reset`, `identify`, the steps of `release_physical_connection()`, shutdown), the detached threads and
the OUT thread of FunctionFS.  A descriptor stands for one open file; a write to a closed one is a write to
whatever has taken its number.  `phy_fd` is set first (`connect`), then the device is created, kept from
before or not there (`connect_device`), then a thread with a `dup()` pushes the recorded colour
(`connect_push`); the OUT thread may run between any two.  `vdev` is the emulated device as far as this
matters: it comes and goes with controllers, `create-virtual`, the grace window and a new name
(`Daemon` has the details).  `suppress_led` is `g_suppress_next_led_update`: the first report with an LED part
after a creation has that part skipped, on both backends.

A detached thread's `todo` is the list of reports it will send; `identify` sends two and then `Restore`,
which becomes a report when its arguments are read (`push_reads`), before the mutex (the code blinks
three times).  `out_loop()` looks at `phy_fd` twice, for the check and for the call: `out_reads` and
`out_picks`, and the pacer is a third step (`out_submits`), so a report may go to -1, or to a
connection that is gone.  The shared `cur_*` bytes are read and written as one value.  Only Bluetooth is
modelled: USB reports go straight to `write()`.  `last_word` and `asked` are history: whose report was
submitted last on this connection, and the colour the device was given last.

### FunctionFS

Each thread has a place: `check` (head of its loop), `enter` (about to make a blocking call),
`blocked` (asleep in the kernel), and one place per step after it.  The gap between `enter` and
`blocked` is what `pthread_kill()` cannot reach.  `functionfs_close()` is one action per statement
that another thread can tell apart.  The host may send events, output reports and resets at any time or
never.  Each `pthread_create()` may fail.  `lost` is history: the last report that a reset or an
unconfigured device threw away.

### Daemon

One action per step of an iteration of the main loop, in the order of the code; `got` keeps what
`poll()` returned, because later steps act on it although earlier steps of the same iteration may have
closed the descriptor or made a new device.  Between any two steps the controller is plugged or
unplugged, the host opens or closes the device, or the grace window elapses.  `dev.uhid` and `dev.ffs`
are the devices behind `uhid_fd` and `virtual_functionfs`, with the name and type they were created
with and, for UHID, the unread OPEN/CLOSE events; `dev.held` says that its last report holds a button
down; `dev.orphan` that a device exists which no variable refers to any more.  `dev.configured` is
`virtual_functionfs.configured` and belongs to no device: the ep0 thread reads an ENABLE
(`dev.ffs.enabling`) and stores the flag later (`ep0_stores`), which may be after the gadget was closed
(`without_ffs`); `vdev_configured` reads the flag and nothing else, as the code does.  `Faults` selects which
system calls may fail (a failing `read()` of the UHID descriptor counts under `uhid_drop`) and
whether hosts close the device.

### Transport and ReportPipe

`main()` (`main`, the open with its claim retries, the close with its two joins), the pump and the
watchdog, for both transports: `kind` says which one a behaviour is about, and the steps of the HID-BPF
one take no watchdog and no claim.  `stalls` says whether a transfer on a gone device blocks until its
handle is closed, as a comment of the code saw it.  The kernel takes a detached interface back at any
time (`kernel_reclaims`), the controller comes and goes, the process may be killed.  The socket pair is
two sequences of at most `Capacity` reports; the pump blocks where the code blocks.  `alive` says that
it is still the device instance the transport was opened on; `mishap` is history: a failure the code
cannot undo met this controller.  `ReportPipe` is what a hidraw node promises: the reports of one
connection in order, each once, then a hang-up.

### HotSwap

One controller with two links (`dev`), the driver of each as the kernel decides it (hid-playstation
refuses the second link of a MAC address it drives), and `main()` at three places of its loop: scan
or hot-swap, uevents, commands or a drop.  `phy` and `via` say which link `phy_fd` is of and whether it is
a hidraw node, libusb or HID-BPF; `is_bluetooth`, `suppressed` and `pending` are variables of their own
because the code keeps them apart from `phy_fd`.  `"stale"` is an id of a Bluetooth connection that ended.
A transport opens in one step or fails.  The rebind script runs around every stop and start.

### Settings

The window (`IpcClient`'s queue and connection, `DaemonController`'s counters and view), the kernel's queue
of connections, the daemon that serves one at a time, its settings in memory and in the file, and
other clients.  `conn` is where the window's one connection is.  A client that gave up leaves its
connection in `backlog`, and its command still takes effect.  A client that sends nothing stops
the daemon in `read()` (`Stuck`).  `write_config` truncates and rewrites: it may fail unnoticed or be cut
off.  `asked` (what the clients were told) and `excused` (the settings a failure made unsure) are
history: a write that cannot open the file excuses the setting it was for until a later command writes
them all, a crash after the truncation excuses everything.  A client that leaves costs the daemon
nothing: the code writes its answers with `write()`, and SIGPIPE is ignored because systemd starts the
service that way, not by the daemon itself.

### Reports and LiveInput

`Reports` has the translations as operators: sets of pressed buttons and their bits by the three lists of
the code, touch points packed into bytes, charges rounded twice, the batches of touch reports with
the slots each format has, both emulated reports, the STATE line and its parser, and how a game reads the
emulated reports (`HostInput`, `HostBattery`, `HostTouch`).  Sticks, triggers and sensors are opaque:
they are copied.

`LiveInput` runs them: the controller sends, the daemon forwards or sends synthetic
reports (standalone device, heartbeat, neutral report at a drop), and pushes to a subscriber what
it last saw.  The window subscribes, reads lines, loses the stream, reconnects, falls back to the
single-source command of an older daemon, and measures rates over a number of timing windows.  An older
daemon (`~all_known`) refuses `test all`, leaves the sensors and the touch pad out of its STATE line
(`older_state`) and sends neither OUTPUT nor TIMING lines; the view then has to show what it is told
(`AsTold`), and a measurement waits for a daemon that measures.

## 3. Runs

| Run | Question | Result | Distinct states |
|---|---|---|---|
| `pacer` | the pacer's safety, liveness and refinement | holds | 753 |
| `output` | descriptors, detached threads, the controller follows the device; UHID backend | holds | 133 488 |
| `output_out` | the controller follows the device, with the OUT thread, LED pushes and tests | holds | 1 053 282 |
| `functionfs` | threads and mailbox over open, close, reset, failed starts | holds | 35 231 |
| `daemon` | one source, right type, no button stuck; commands and failures | holds | 747 408 |
| `daemon_live` | a plugged controller drives a device; the grace window ends | holds | 88 704 |
| `transport` | both transports, all faults; threads, handle, loss, refinement | holds | 270 053 |
| `hotswap` | nothing stays hidden or claimed; the swap to the cable and back | holds | 58 455 |
| `settings` | one answer per command, the view converges, settings survive | holds | 529 661 |
| `live` | the game and the view see the controller; the stream comes back | holds | 199 643 |
| `functionfs_close` | `functionfs_close()` returns | violated | |
| `ui_frozen` | the window does not wait in `connect()` for a stuck daemon | violated | |

The two violated properties state what a comment says and the code does not do:

- `functionfs_close`: a thread that looked at `device_open` before it was cleared and is about to enter
  `read()` or `write()` gets SIGUSR1 too early, sleeps, and `pthread_join()` waits for it
  (`functionfs-backend.c` 704, against its comment at 675).
- `ui_frozen`: a client that connects and sends nothing stops the daemon in `read()` (2279); every status
  poll the window gives up leaves a connection in the kernel's queue; when it is full, `connect()`
  blocks the window (`ui/src/ipcclient.cpp` 39, against 37 and `ipcclient.h` 17).

### Disagreements

The models have further behaviours that a comment or a document rules out.  Those with a name
are definitions of the modules which no run checks, because they do not hold:

- `WriteOnOpenFd` (`PhysicalOutput`): a detached LED push whose report the pacer holds closes its `dup()`
  (2110), and the flush thread writes to the closed descriptor, against 951.
- `TakesControllerBack` (`PhysicalOutput`): `led` leaves `cur_*` alone, so a report of the device that equals
  `cur_*` is swallowed (3191) and the test stays on the controller, against 2608.
- `LastColourIsHeld` (`PhysicalOutput`): `out_loop()` records a colour only while a controller is there
  (`functionfs-backend.c` 486), so a controller that comes back is pushed the colour before it,
  against 2063.
- `OwnDescriptorIsOpen` and `HeldForThisConnection` (`PhysicalOutput`) hold with UHID only: the OUT thread
  may submit a descriptor that was closed meanwhile (`functionfs-backend.c` 486, 493).
- `ReuseHasDevice` (`Daemon`): after a type change, a drop seen in the same iteration starts a grace
  window without a device (2690, against 2061).
- `SetBackendKeepsType` (`Daemon`): `create-virtual` leaves the pending type behind, and `set-backend`
  switches to it (2682, against `README.md` 109).
- `NoDeviceLeftBehind` (`Daemon`): a device that the host had not opened at the drop is created a second
  time (2841, against 1763).
- `NobodyEverStranded` (`Transport`): a claim libusb refuses, a failed socket pair or attach, and a
  kill leave the controller without its driver ("so the controller isn't left stranded").
- `NoTransferOnClosedHandle` and `CloseAlwaysReturns` (`Transport`): the pump may start a transfer on the
  handle the watchdog has just closed; a transfer on a gone device that stalls keeps `close()` waiting
  if the watchdog was told to stop first.
- `ConfiguredMethodUsed` (`HotSwap`): a stale uevent makes the scan fall back to the legacy method although
  nothing failed.
- `HandBackSucceeds` (`HotSwap`): a command that releases the cable while it is still plugged forgets
  that Bluetooth was unbound although the kernel refuses the bind; the cable then has the driver.
- `SelectionStays` (`Settings`): a status answer that was on its way when the user opened a list moves the
  selection.
- `NoStaleSnapshot`, `BothAfterUpdate`, `WindowsAreSeconds` (`LiveInput`): `last_phy` outlives its
  controller; a window that fell back to the single-source command never tries the other again; a timing
  window left open while nobody watched is counted as a second.

Without a definition of their own:

- `create-virtual` is accepted while a kept device waits that the host has closed, and leaves the grace
  window running (2325): its end destroys the standalone device (2857), which `status` goes on
  reporting as active.
- The LED push is detached so as not to stall the main loop (2096), but the pacer writes with its mutex
  held, so the main loop waits for the push in its next `submit()` or `discard_pending()`.
- A push that runs after the device set another colour puts the old one back, and the change filter (3191)
  keeps the device from repeating the new one.  `PadFollowsDevice` says nothing while a push has the last
  word.  A report the OUT thread submits to -1, or to a connection that has ended, is lost in the same
  way: `cur_*` has it, so it is never sent again.
- `led --reset` sends `cur_*` as they were when it read them; a report the OUT thread submits in between is
  then overwritten by an older one.
- `ep0_loop()` may store an ENABLE after `functionfs_close()` cleared `configured`
  (`functionfs-backend.c` 397, 701); nothing clears it until the next close or `functionfs_init()`.  Until
  then `create-virtual` is refused as if a controller were active (2323), and a drop seen in the iteration
  that has just released the controller starts a grace window (2842) without a device: the next scan
  "reuses" it (2061), and the controller drives nothing.  TLC finds this behaviour if
  `ControllerDrivesDevice` (`Daemon`) is checked without the exemption `StaleConfigured`.
- `create-virtual` leaves `backend_type` and the `none` sentinel as they were (2327), against 1189 and
  `docs/how-it-works.md` 132.  `set-name` has no effect on a live device that the host has not
  opened (2807), against `README.md` 129.
- An emulated DualShock 4 gets the first three touch reports of a Bluetooth batch of four, not the newest.
  The count of a USB report is not limited, so `LiveInput` assumes that the controller sends at most three.

### Bounds

- `pacer`: three reports are enough for one on the wire, one held and a newer one; an interval of
  three ticks leaves time before, at and after the deadline.
- `output`, `output_out`: one connection descriptor, which is closed and opened again, and one dup()
  descriptor.  A thread that finds none behaves as after a failed `dup()`.  `output` has two motor states
  and one colour, `output_out` one motor state and two colours, which the LED pushes and the skipped LED
  part are about.  `MaxTests = 1` bounds `led` and `identify`.
- `functionfs`: `MaxReports = 3`: an overwritten mailbox needs two, and a third arrives while one is
  being written.  The counter starts again with each opening, and openings are unbounded.
- `daemon`: at most two unread UHID events (an OPEN and the CLOSE after it), names reduced to two,
  all backends, the types `ds4`, `none` and, through `create-virtual`, `dualsense`.  `daemon_live` has the
  commands that take a controller away and give it back.
- `transport`: two claim attempts (a retry and giving up), a liveness check every second pass, a socket pair
  of two and three reports each way, so that it overruns.  Connections are unbounded.
- `hotswap`: eight events (connections, disconnections, commands, failures, starts) allow a swap, a
  command in the middle of it, the loss of the cable and another connection.  Steps of the daemon are
  unbounded.
- `settings`: four events, a queue of one connection, a setting of each kind changed from two sides and a
  silent client.  `ui_frozen` has the daemon's own queue of five.
- `live`: four events; a socket that takes one push, which loses streams at once; three reports that differ
  in buttons, charge and touch batch, and a damaged one; both kinds of daemon.

Deadlock is checked where the system never stops (`pacer`, `functionfs`); elsewhere a shutdown or a spent
bound ends the behaviour.

### Fairness

Weak fairness says that a thread that can run is scheduled, a call in progress goes on, and the clock
advances.  Nothing is assumed of those who call: submits, commands, plugs and events may never come.

- `BtOutputPacer`, `PhysicalOutput`: strong fairness where threads compete for the pacer's mutex: one
  that keeps asking for it gets it in the end.
- `FunctionFS`: a host that configured the device polls its interrupt endpoint, as USB requires; it never
  has to send anything.
- `Daemon`: the loop runs (`poll()` has a timeout), the host opens a device it is offered (hid-playstation
  does when it binds), the ep0 thread is scheduled, the grace window elapses.  `daemon_live` has no failing system calls: a
  controller whose device cannot be created drives nothing.  Hosts may close devices there.
- `Transport`: `main()` finishes what it began and reads what `poll()` announces, both threads run.
  Weak fairness of `Pump` does not make a stalled transfer return.
- `HotSwap`: the main loop turns.  `hot_swap` is strongly fair: the code looks for a cable every two
  seconds, while the model may take the step that skips the look, so the look must come sometimes when it
  would find one again and again.
- `Settings`: the window's event loop and timers run; the daemon serves unless a client stops it.  Nothing
  makes that client leave.
- `LiveInput`: the main loop serves its descriptors and its clock, the window its own; a connected
  controller keeps sending, as a DualShock 4 does.

## 4. Proofs

| Module | Theorems |
|---|---|
| `BtOutputPacerProofs` | `TypeCorrect`, `NewestReportAlwaysWins`, `NoLostWakeup`, `StopIsFinal`, `RateIsCapped`, `PacerImplementsPacedOutput` |
| `PhysicalOutputProofs` | `OutputTypeCorrect`, `ThreadsUsePacer`, `ConnectionInvariant`, `NothingHeldForTheGone`, `WritesFindTheConnection`, `ThreadsArePaced`, `PadIsNeverLeftBehind`, `OneThreadWrites`, `NoDirectWriteToTheGone` |
| `FunctionFSProofs` | `TypeCorrect`, `ThreadsKeepDevice`, `InputArrivesInOrder`, `NewestInputIsKept`, `CloseWakesInput` |
| `DaemonProofs` | `TypeCorrect`, `SourcesExclude`, `KeptDeviceWaits`, `TypeIsRight`, `ButtonsAreReleased` |
| `TransportProofs` | `TypeCorrect`, `HandleIsClosedOnce`, `NoThreadOutlives`, `ControllerIsGivenBack`, `HangUpMeansLost`, `OutputArrivesInOrder`, `NewestOutputIsNotLost`, `CloseTellsThreads`, `TransportImplementsPipe` |
| `HotSwapProofs` | `TypeCorrect`, `NodesAreGivenBack`, `FormatIsRight`, `HandsStayOff`, `RememberedIsTaken`, `HandBackLeavesADriver`, `CableIsNotMissed` |
| `SettingsProofs` | `TypeCorrect`, `SettingsSurviveRestarts`, `BusyIndicatorIsRight`, `AnswersAreNeverMixedUp` |
| `LiveInputProofs` | `GamesSeeThePad`, `NothingIsShownOffline`, `ViewIsNotForgotten`, `ViewShowsOnlyReports`, `TouchPointsRoundTrip`, `StatesSurviveTheLine` |

Each module proves that an invariant is inductive, one case per action, and derives its theorems.  Why the
properties are not inductive alone:

- **Pacer**: the invariant adds that `wire_age` and `since_write` agree, which carries the rate cap from
  the code's clock to the observer's; that the flush thread is writing only with nothing pending (so it
  reaches its wait before it lets go of the mutex); and what `stopping_` implies for a joined thread.
  For the refinement each step is `Pass`, `Hold`, `Deliver`, `Drop`, `Tick` or a stutter.  `RateCapped` alone
  would not see a second write in the tick of the first; the refinement does.
- **Physical output**: every step of the composition is a step of the pacer or leaves it alone
  (`ThreadsUsePacer`), hence the pacer's theorems hold in it (`ThreadsArePaced`).  For the descriptors: a
  report of the connection exists only in the main loop's hands, with the pacer or on the wire, is always of
  the present `phy_fd`, and there is none between the discard and the close.  The two theorems about it
  assume `~OutThread`; with the OUT thread they do not hold (section 3).  `PadIsNeverLeftBehind` assumes
  nothing: with either backend, and whatever LED pushes, `led` tests, `identify` and drops came before, a
  controller at rest shows `cur_*` once the device's own report is the last one submitted
  (`last_word = "device"`), and goes on doing so whatever the filter swallows.  `FollowInv` says why: only one
  thread hears the device, what it is about to submit is what it has recorded, and nothing changes `cur_*`
  afterwards without being on its way to the pacer; at rest the pacer's newest report is on the wire
  (`NewestReportWins`).  Which report has the last word after a push is the subject of section 3.  `WriterInv` counts the holders of the pacer's mutex: one
  thread is inside `write(2)`, with the descriptor it brought, and a `dup()` is open from the start to the
  end of its thread.  With `~OutThread` it follows that only the flush thread can meet a closed `dup()`.
- **FunctionFS**: a thread runs only if it was spawned and is not joined, and at each step of
  `functionfs_close()` the threads before it are joined; the files close in the last step.  For the order, what
  the host received is not newer than what the in thread copied, and that not newer than what is in the
  mailbox, strictly while the thread is about to write or a report waits.  `NewestIsKept` says where the last
  report is: in the mailbox of a thread that is awake, in its hands, read, or dropped with the
  configuration; this is `NewestInputDelivered` without the scheduling.  `CloseInv` orders the flag that
  `close()` clears, its signal and the wait of the in thread.
- **Daemon**: `OneSource` and `GraceHasNoController` need that a device is kept only while the daemon
  emulates.  For the type: which requests are pending at each step of an iteration, and that one handle at
  most refers to a device, of the type in use.  `ButtonsAreReleased` assumes
  `"host_closes" \notin Faults`: the code sends no neutral report to a device that is not open.
- **Transport**: which threads run at each place of `main()` (`Threads`), who owns the controller there
  (`Ownership`: the watchdog closes the handle only of an interface that is lost already), and what the
  socket pair and the pump hold (`Contents`).  `WatchInv` adds that a pump ends by itself only when it finds
  the controller lost, that a loss is for good, and that the watchdog leaves only after it has closed the
  handle: so a healthy controller is never disconnected, and a blocked transfer always has somebody to end
  it (`LossIsSignalled` without the scheduling).  `Forward` orders the output reports: what the controller
  got is older than what the pump holds, that older than all that wait, and these ascend; with it the newest
  report is delivered, held or last (`NewestOutputForwarded` without the scheduling).  `CloseIsHeard` needs
  nothing else: the flag and the hang-up come with `close()` and go with the `TransportState`.  For the
  refinement, `newest` is what was received but for the report in the pump's hands.
- **Hot-swap**: a lost connection is still one, and a stopped daemon holds none.  `TakenIsRemembered` adds
  that Bluetooth is without a driver while `suppressed_bt_hid_id` names it, which only a running daemon
  does, and that an ignored controller is not in use.  It follows that forgetting the link leaves one of
  the two with a driver (what remains true of `HandBackSucceeds`; after the cable was pulled it is
  Bluetooth, as in `BluetoothHandedBack`), and that a cable next to a Bluetooth
  connection finds every condition of the hot-swap true (`UsbTakesOver` without the scheduling).
- **Settings**: the file, and a running daemon's memory, hold what the clients were told, between restarts
  too; writing and reading back are inverse (`WrittenIsRead`).  `Counted` relates the window's counter to the
  settings in its queue and to the current command; the queue is counted as the cardinality of its
  positions, so that adding and removing one is a fact about finite sets.  `AnswersFit` says that a waiting
  window has one connection in the daemon's queue, for its current command, and one that gave up has none.
- **Live input**: a standalone device and a controller exclude each other.  `StreamInv` says that there is one
  stream and how it ends; `ViewInv` follows a state from the report through the recorded copy, the line and
  the socket into the view.  The rest is about the operators: charges through two roundings, touch points
  through their bytes, buttons through the lists.

The assumptions are those of the modules (`PacerAssumption`, `OutputAssumption`, `FunctionFSAssumption`,
`DaemonAssumption`, `TransportAssumption`, `HotSwapAssumption`, `SettingsAssumption`,
`LiveInputAssumption`), which TLC evaluates in the runs, and those named above: `~OutThread` and
`"host_closes" \notin Faults`.  Each of them is a setting of some run.

Only model-checked: all liveness (`LastReportIsWritten`, `StopReturns`, `DupsAreClosed`,
`NewestInputDelivered`, `ControllerDrivesDevice`, `GraceEnds`, `LossIsSignalled`, `CloseReturns`,
`NewestOutputForwarded`, `UsbTakesOver`, `BluetoothHandedBack`, `CommandsAnswered`, `ViewConverges`,
`ViewFollowsPad`, `MeasurementEnds`), which rests on fairness and is beyond the prover.  Every safety and
action property of a passing run is also a theorem.  Among what is proved and in no run is what `LiveInputProofs` says of
the view (`NothingIsShownOffline`, `ViewIsNotForgotten`, `ViewShowsOnlyReports`).

## 5. Not modelled

- The window's presentation, tray icon and single instance (`appcontroller.cpp`, `trayicon.cpp`,
  `singleinstance.cpp`): they follow Qt, whose behaviour every property would have to assume.
- `udev-spoof.c` (a stateless shim), `tools/` (debugging aids), the vendored BPF headers, build and packaging.
- `ctl.cpp`: each run sends one command and prints; `Settings.send_command` stands for it.
- Constant data: descriptors, calibration and firmware replies, help texts, the layout of reports beyond
  what section 2 names, and the answers of `handle_setup()`.
- `functionfs_init()`'s configfs steps beyond success, failure and thread starts.  A failure late in it
  also forgets open endpoint files; what the kernel answers on the busy mount is not the code's.
- The ring buffer between the BPF program and the pump, which is one step of the pump; the walk over sysfs
  and the parsing of uevents, which yield ids; modes, ACLs and udev triggers, which are one step.
- One model of everything: the product of the modules is out of reach of TLC, and the prover would have to
  repeat what each module's invariant says.
