------------------------------- MODULE Daemon -------------------------------
(***************************************************************************)
(* The main loop of the daemon, main() of src/main.cpp: who creates and    *)
(* destroys the emulated controller, and when.  One iteration goes through *)
(* the steps                                                               *)
(*                                                                         *)
(*   scan    look for a physical controller if there is none               *)
(*   poll    build the poll set and keep the answer in `got`               *)
(*   ipc     serve one client command                                      *)
(*   change  apply a requested type or backend change                      *)
(*   rename  apply a requested name change                                 *)
(*   hup     the physical controller dropped                               *)
(*   grace   the grace window is over                                      *)
(*   read    forward one input report                                      *)
(*   uhid    handle one event of the UHID device                           *)
(*                                                                         *)
(* while the user plugs the controller, the host opens the emulated device *)
(* and clients send commands between any two of them.  Opening and hiding  *)
(* the controller, the Bluetooth/USB hot-swap, standalone input, test      *)
(* subscribers and the report contents are left out.                       *)
(***************************************************************************)
EXTENDS Integers, Sequences

CONSTANTS
  NoDevice,
  Commands,       \* the client commands that arrive
  InitialTypes,   \* types the daemon may be started with
  Faults          \* "hide", "functionfs", "uhid", "uhid_write", "uhid_drop",
                  \* and "host_closes": the host may close the device again

Types == {"ds4", "dualsense", "none", "hidden"}
Emulated == {"ds4", "dualsense"}     \* controller_type_emulates()
Backends == {"uhid", "functionfs"}
Names == {"default", "custom"}

UhidDevice == [type : Emulated, name : Names, host_open : BOOLEAN, events : Seq({"open", "close"})]

FfsDevice == [type : Emulated, name : Names, enabling : BOOLEAN]

ASSUME DaemonAssumption ==
  /\ NoDevice \notin UhidDevice \cup FfsDevice
  /\ InitialTypes \subseteq Types
  /\ InitialTypes # {}

VARIABLES
  target_type, backend_for, name,
  dev,            \* the virtual device and what the daemon knows of it
  type_change,    \* [requested, to]: type_change_requested, pending_type_change
  backend_change, \* [requested, to]: the same for the backend
  name_change_requested,
  phy,            \* phy_fd: "none", "up", or "lost" when its hardware is gone
  pad,            \* is there a controller a scan would find?
  pending_destroy,     \* phy_disconnect_pending_destroy
  grace_over,          \* PHYSICAL_DISCONNECT_GRACE has elapsed since then
  standalone_virtual, ignore_physical,
  sentinel,       \* /run/ds4-translator.none exists
  step,
  got             \* what the last poll() returned for phy_fd and uhid_fd

config == <<backend_for, name>>
requests == <<type_change, backend_change, name_change_requested>>
link == <<phy, pending_destroy>>
modes == <<standalone_virtual, ignore_physical>>
vars == <<target_type, backend_for, name, dev, type_change, backend_change,
          name_change_requested, phy, pad, pending_destroy, grace_over,
          standalone_virtual, ignore_physical, sentinel, step, got>>

-----------------------------------------------------------------------------
(* The virtual device.  dev.uhid and dev.ffs are the devices behind uhid_fd *)
(* and virtual_functionfs, dev.configured is virtual_functionfs.configured, *)
(* which outlives them; dev.held: the last report they sent has a button    *)
(* down; dev.orphan: a device is still there that nobody has a handle of.   *)

NewUhid(type) ==
  [type |-> type, name |-> name[type], host_open |-> FALSE, events |-> <<>>]

NewFfs(type) == [type |-> type, name |-> name[type], enabling |-> FALSE]

\* The gadget is closed or forgotten and `configured` cleared, but an ENABLE that
\* its ep0 thread has read is still stored.
without_ffs(d) ==
  [d EXCEPT !.ffs = NoDevice, !.held = FALSE,
            !.configured = d.ffs # NoDevice /\ d.ffs.enabling]

vdev_configured(d) ==
  IF d.backend = "functionfs" THEN d.configured ELSE d.device_open

vdev_ready_for_io(d) ==
  /\ vdev_configured(d)
  /\ d.backend = "uhid" => d.uhid # NoDevice

\* emit_input_report() with a neutral state, or with any other.
emit_report(d, held) ==
  IF (d.backend = "functionfs" /\ d.ffs # NoDevice /\ d.configured)
     \/ (d.backend = "uhid" /\ d.uhid # NoDevice)
  THEN [d EXCEPT !.held = held]
  ELSE d

neutral_if_configured(d) ==
  IF vdev_configured(d) THEN emit_report(d, FALSE) ELSE d

\* The outcomes <<created, d>> of opening /dev/uhid and writing UHID_CREATE2.
\* uhid_fd is overwritten without a look at what it was.
create_uhid(d, type) ==
  LET over == [d EXCEPT !.uhid = NoDevice,
                        !.orphan = d.orphan \/ d.uhid # NoDevice,
                        !.held = FALSE]
  IN  {<<TRUE, [over EXCEPT !.uhid = NewUhid(type)]>>}
        \cup (IF "uhid" \in Faults THEN {<<FALSE, d>>} ELSE {})
        \cup (IF "uhid_write" \in Faults THEN {<<FALSE, over>>} ELSE {})

\* functionfs_init() forgets a device that is still up; otherwise it succeeds,
\* or fails and create_virtual_device() falls back to UHID.
create_virtual_device(d, type) ==
  IF d.backend = "uhid" THEN create_uhid(d, type)
  ELSE LET over == [without_ffs(d) EXCEPT !.orphan = d.orphan \/ d.ffs # NoDevice]
       IN  {<<TRUE, [over EXCEPT !.ffs = NewFfs(type)]>>}
             \cup (IF "functionfs" \in Faults \/ d.ffs # NoDevice
                   THEN create_uhid([over EXCEPT !.backend = "uhid"], type)
                   ELSE {})

\* Only the device of the current backend goes.
destroy_virtual_device(d) ==
  IF d.backend = "functionfs" THEN without_ffs(d)
  ELSE [d EXCEPT !.uhid = NoDevice, !.held = FALSE]

closed(d) == [d EXCEPT !.device_open = FALSE]

Nothing == [phy |-> "none", uhid |-> "none"]

\* read_config(), read_backend_config(), read_name_config() and the rest of
\* main() before the loop.
Init ==
  /\ target_type \in InitialTypes
  /\ backend_for \in [Emulated -> Backends]
  /\ name = [t \in Emulated |-> "default"]
  /\ dev = [backend |-> backend_for[IF target_type = "ds4" THEN "ds4"
                                    ELSE "dualsense"],
            uhid |-> NoDevice, ffs |-> NoDevice, configured |-> FALSE,
            device_open |-> FALSE, held |-> FALSE, orphan |-> FALSE]
  /\ type_change = [requested |-> FALSE, to |-> target_type]
  /\ backend_change = [requested |-> FALSE, to |-> dev.backend]
  /\ name_change_requested = FALSE
  /\ phy = "none"
  /\ pad \in BOOLEAN
  /\ pending_destroy = FALSE
  /\ grace_over = FALSE
  /\ standalone_virtual = FALSE
  /\ ignore_physical = FALSE
  /\ sentinel = (target_type = "none")
  /\ step = "scan"
  /\ got = Nothing

-----------------------------------------------------------------------------
(* scan *)

Scanning ==
  /\ phy = "none"
  /\ ~standalone_virtual
  /\ ~ignore_physical
  /\ pad

Mut_reuse_device ==
  /\ target_type \in Emulated
  /\ pending_destroy
  /\ phy' = "up"
  /\ UNCHANGED <<dev, pending_destroy>>

\* Reconnected within the grace window.
reuse_device ==
  /\ target_type \in Emulated
  /\ pending_destroy
  /\ phy' = "up"
  /\ pending_destroy' = FALSE
  /\ UNCHANGED dev

new_device ==
  /\ target_type \in Emulated
  /\ ~pending_destroy
  /\ \E out \in create_virtual_device(dev, target_type) :
       /\ phy' = IF out[1] THEN "up" ELSE "none"
       /\ dev' = IF out[1] THEN closed(out[2]) ELSE out[2]
  /\ UNCHANGED pending_destroy

no_emulation ==
  /\ target_type \notin Emulated
  /\ phy' = "up"
  /\ dev' = closed(dev)
  /\ UNCHANGED pending_destroy

\* The controller was opened; now there must be a device for it.
scan_connects ==
  /\ step = "scan"
  /\ Scanning
  /\ step' = "poll"
  /\ reuse_device \/ new_device \/ no_emulation
  /\ UNCHANGED <<target_type, config, requests, pad, grace_over, modes, sentinel, got>>

\* There is nothing to look for, or it was not found or could not be opened.
scan_finds_nothing ==
  /\ step = "scan"
  /\ ~Scanning \/ "hide" \in Faults
  /\ step' = "poll"
  /\ UNCHANGED <<target_type, config, dev, requests, link, pad, grace_over,
                 modes, sentinel, got>>

scan == scan_connects \/ scan_finds_nothing

-----------------------------------------------------------------------------
(* poll *)

uhid_readiness ==
  IF dev.backend = "functionfs" \/ dev.uhid = NoDevice THEN {"none"}
  ELSE {IF dev.uhid.events = <<>> THEN "none" ELSE "in"}
         \cup (IF "uhid_drop" \in Faults THEN {"drop"} ELSE {})

poll ==
  /\ step = "poll"
  /\ step' = "ipc"
  /\ \E p \in {"none", "in", "hup"}, u \in {"none", "in", "drop"} :
       /\ p = "hup" <=> phy = "lost"
       /\ p = "in" => phy = "up"
       /\ u \in uhid_readiness
       /\ got' = [phy |-> p, uhid |-> u]
  /\ UNCHANGED <<target_type, config, dev, requests, link, pad, grace_over,
                 modes, sentinel>>

-----------------------------------------------------------------------------
(* ipc: each command that is not refused; a refused one changes nothing. *)

create_virtual ==
  /\ phy = "none"
  /\ ~standalone_virtual
  /\ ~vdev_configured(dev)
  /\ \E want \in Emulated :
       /\ <<"create-virtual", want>> \in Commands
       /\ \E out \in create_virtual_device(dev, want) :
            IF out[1] THEN /\ standalone_virtual' = TRUE
                           /\ target_type' = want
                           /\ dev' = closed(out[2])
            ELSE dev' = out[2] /\ UNCHANGED <<standalone_virtual, target_type>>
  /\ UNCHANGED <<config, requests, link, grace_over, ignore_physical>>

destroy_virtual ==
  /\ <<"destroy-virtual">> \in Commands
  /\ standalone_virtual
  /\ dev' = closed(destroy_virtual_device(neutral_if_configured(dev)))
  /\ pending_destroy' = FALSE
  /\ standalone_virtual' = FALSE
  /\ UNCHANGED <<target_type, config, requests, phy, grace_over, ignore_physical>>

Mut_release_physical ==
  /\ <<"release-physical">> \in Commands
  /\ ignore_physical' = TRUE
  /\ UNCHANGED <<target_type, config, dev, requests, link, grace_over, standalone_virtual>>

Mut_release_physical_open ==
  /\ <<"release-physical">> \in Commands
  /\ ignore_physical' = TRUE
  /\ IF phy = "none" THEN UNCHANGED <<dev, link>>
     ELSE /\ dev' = destroy_virtual_device(neutral_if_configured(dev))
          /\ phy' = "none"
          /\ pending_destroy' = FALSE
  /\ UNCHANGED <<target_type, config, requests, grace_over, standalone_virtual>>

release_physical ==
  /\ <<"release-physical">> \in Commands
  /\ ignore_physical' = TRUE
  /\ IF phy = "none" THEN UNCHANGED <<dev, link>>
     ELSE /\ dev' = closed(destroy_virtual_device(neutral_if_configured(dev)))
          /\ phy' = "none"
          /\ pending_destroy' = FALSE
  /\ UNCHANGED <<target_type, config, requests, grace_over, standalone_virtual>>

resume_physical ==
  /\ <<"resume-physical">> \in Commands
  /\ ignore_physical' = FALSE
  /\ UNCHANGED <<target_type, config, dev, requests, link, grace_over,
                 standalone_virtual>>

\* A type that emulates brings its own configured backend with it.
set_type ==
  \E t \in Types \ {target_type} :
    /\ <<"set-type", t>> \in Commands
    /\ type_change' = [requested |-> TRUE, to |-> t]
    /\ IF t \in Emulated
       THEN backend_change' = [requested |-> TRUE, to |-> backend_for[t]]
       ELSE UNCHANGED backend_change
    /\ UNCHANGED <<target_type, config, dev, name_change_requested, link,
                   grace_over, modes>>

set_backend ==
  \E t \in Emulated, b \in Backends :
    /\ <<"set-backend", t, b>> \in Commands
    /\ backend_for[t] # b
    /\ backend_for' = [backend_for EXCEPT ![t] = b]
    /\ IF target_type = t
       THEN backend_change' = [requested |-> TRUE, to |-> b]
       ELSE UNCHANGED backend_change
    /\ UNCHANGED <<target_type, name, dev, type_change, name_change_requested,
                   link, grace_over, modes>>

set_name ==
  \E t \in Emulated, arg \in {"custom", "--reset"} :
    LET new == IF arg = "--reset" THEN "default" ELSE arg
    IN  /\ <<"set-name", t, arg>> \in Commands
        /\ name[t] # new
        /\ name' = [name EXCEPT ![t] = new]
        /\ name_change_requested' = (name_change_requested \/ target_type = t)
        /\ UNCHANGED <<target_type, backend_for, dev, type_change, backend_change,
                       link, grace_over, modes>>

no_command ==
  UNCHANGED <<target_type, config, dev, requests, link, grace_over, modes>>

ipc ==
  /\ step = "ipc"
  /\ step' = "change"
  /\ \/ create_virtual
     \/ destroy_virtual
     \/ release_physical
     \/ resume_physical
     \/ set_type
     \/ set_backend
     \/ set_name
     \/ no_command
  /\ UNCHANGED <<pad, sentinel, got>>

-----------------------------------------------------------------------------
(* change: the old device goes, and the physical controller is given back   *)
(* for the next scan to find.  The new type is the pending one even when    *)
(* only a backend change was requested.                                     *)

become(gone) ==
  /\ target_type' = type_change.to
  /\ sentinel' = (target_type' = "none")
  /\ phy' = "none"
  /\ pending_destroy' = FALSE
  /\ standalone_virtual' = (standalone_virtual /\ target_type' \in Emulated)
  /\ IF phy = "none" /\ standalone_virtual'
     THEN \E out \in create_virtual_device(gone, target_type') :
            dev' = IF out[1] THEN closed(out[2]) ELSE out[2]
     ELSE dev' = gone
  /\ type_change' = [type_change EXCEPT !.requested = FALSE]
  /\ backend_change' = [backend_change EXCEPT !.requested = FALSE]

Mut_apply_change ==
  become(destroy_virtual_device([neutral_if_configured(dev) EXCEPT
                                   !.backend = backend_change.to]))

\* The device goes while dev.backend is still the one it lives on.
apply_change ==
  become([destroy_virtual_device(neutral_if_configured(dev)) EXCEPT
            !.backend = backend_change.to])

change ==
  /\ step = "change"
  /\ step' = "rename"
  /\ IF type_change.requested \/ backend_change.requested
     THEN apply_change
     ELSE UNCHANGED <<target_type, sentinel, link, dev, standalone_virtual,
                      type_change, backend_change>>
  /\ UNCHANGED <<config, name_change_requested, pad, grace_over, ignore_physical, got>>

-----------------------------------------------------------------------------
(* rename: recreate what is active, if the host has it open. *)

rename ==
  /\ step = "rename"
  /\ step' = IF got.phy = "hup" THEN "hup" ELSE "grace"
  /\ name_change_requested' = FALSE
  /\ IF name_change_requested /\ vdev_configured(dev)
     THEN \E out \in create_virtual_device(
                       destroy_virtual_device(emit_report(dev, FALSE)), target_type) :
            dev' = IF out[1] THEN closed(out[2]) ELSE out[2]
     ELSE UNCHANGED dev
  /\ UNCHANGED <<target_type, config, type_change, backend_change, link, pad,
                 grace_over, modes, sentinel, got>>

-----------------------------------------------------------------------------
(* hup and grace *)

Mut_hup ==
  /\ step = "hup"
  /\ step' = "scan"
  /\ phy' = "none"
  /\ IF target_type \in Emulated /\ vdev_configured(dev)
     THEN pending_destroy' = TRUE /\ grace_over' = FALSE
     ELSE UNCHANGED <<pending_destroy, grace_over>>
  /\ UNCHANGED <<target_type, config, dev, requests, pad, modes, sentinel, got>>

\* release_physical_connection(), then keep the device for the grace window --
\* only if the host has it open.
hup ==
  /\ step = "hup"
  /\ step' = "scan"
  /\ phy' = "none"
  /\ IF target_type \in Emulated /\ vdev_configured(dev)
     THEN /\ dev' = emit_report(dev, FALSE)
          /\ pending_destroy' = TRUE
          /\ grace_over' = FALSE
     ELSE UNCHANGED <<dev, pending_destroy, grace_over>>
  /\ UNCHANGED <<target_type, config, requests, pad, modes, sentinel, got>>

Mut_grace ==
  /\ step = "grace"
  /\ step' = "read"
  /\ IF pending_destroy /\ grace_over /\ ~vdev_configured(dev)
     THEN /\ dev' = closed(destroy_virtual_device(dev))
          /\ pending_destroy' = FALSE
     ELSE UNCHANGED <<dev, pending_destroy>>
  /\ UNCHANGED <<target_type, config, requests, phy, pad, grace_over, modes,
                 sentinel, got>>

grace ==
  /\ step = "grace"
  /\ step' = "read"
  /\ IF pending_destroy /\ grace_over
     THEN /\ dev' = closed(destroy_virtual_device(dev))
          /\ pending_destroy' = FALSE
     ELSE UNCHANGED <<dev, pending_destroy>>
  /\ UNCHANGED <<target_type, config, requests, phy, pad, grace_over, modes,
                 sentinel, got>>

-----------------------------------------------------------------------------
(* read and uhid *)

read ==
  /\ step = "read"
  /\ step' = "uhid"
  /\ IF got.phy = "in" /\ phy # "none" /\ vdev_ready_for_io(dev)
     THEN \E held \in BOOLEAN : dev' = emit_report(dev, held)
     ELSE UNCHANGED dev
  /\ UNCHANGED <<target_type, config, requests, link, pad, grace_over, modes,
                 sentinel, got>>

uhid_dropped ==
  /\ got.uhid = "drop"
  /\ dev' = [dev EXCEPT !.uhid = NoDevice, !.held = FALSE]
  /\ standalone_virtual' = FALSE

\* read() fails: the device goes, a standalone controller stays "active".
uhid_read_fails ==
  /\ "uhid_drop" \in Faults
  /\ got.uhid = "in"
  /\ dev.uhid # NoDevice
  /\ dev' = [dev EXCEPT !.uhid = NoDevice, !.held = FALSE]
  /\ UNCHANGED standalone_virtual

\* UHID_OPEN and UHID_CLOSE.
uhid_event ==
  /\ got.uhid = "in"
  /\ dev.uhid # NoDevice
  /\ dev.uhid.events # <<>>
  /\ dev' = [dev EXCEPT !.device_open = Head(dev.uhid.events) = "open",
                        !.uhid.events = Tail(@)]
  /\ UNCHANGED standalone_virtual

\* No event, or the device it was for is gone.
uhid_nothing ==
  /\ got.uhid # "drop"
  /\ ~(got.uhid = "in" /\ dev.uhid # NoDevice /\ dev.uhid.events # <<>>)
  /\ UNCHANGED <<dev, standalone_virtual>>

uhid ==
  /\ step = "uhid"
  /\ step' = "scan"
  /\ uhid_dropped \/ uhid_read_fails \/ uhid_event \/ uhid_nothing
  /\ got' = Nothing
  /\ UNCHANGED <<target_type, config, requests, link, pad, grace_over,
                 ignore_physical, sentinel>>

Loop == scan \/ poll \/ ipc \/ change \/ rename \/ hup \/ grace \/ read \/ uhid

\* SIGTERM: `while (running)` ends and main() takes everything down.
main_ends ==
  /\ step = "scan"
  /\ step' = "stopped"
  /\ dev' = destroy_virtual_device(neutral_if_configured(dev))
  /\ phy' = "none"
  /\ UNCHANGED <<target_type, config, requests, pad, pending_destroy, grace_over,
                 modes, sentinel, got>>

-----------------------------------------------------------------------------
(* The user, the host and the clock. *)

only_dev == <<target_type, config, requests, link, pad, grace_over, modes,
              sentinel, step, got>>

plug ==
  /\ ~pad
  /\ pad' = TRUE
  /\ UNCHANGED <<target_type, config, dev, requests, link, grace_over, modes,
                 sentinel, step, got>>

unplug ==
  /\ pad
  /\ pad' = FALSE
  /\ phy' = IF phy = "up" THEN "lost" ELSE phy
  /\ UNCHANGED <<target_type, config, dev, requests, pending_destroy, grace_over,
                 modes, sentinel, step, got>>

MaxEvents == 2    \* unread UHID events (bound)

host_toggles_uhid(open) ==
  /\ dev.uhid # NoDevice
  /\ dev.uhid.host_open # open
  /\ Len(dev.uhid.events) < MaxEvents
  /\ dev' = [dev EXCEPT !.uhid.host_open = open,
                        !.uhid.events = Append(@, IF open THEN "open" ELSE "close")]

host_toggles_ffs(open) ==
  /\ dev.ffs # NoDevice
  /\ ~dev.ffs.enabling
  /\ dev.configured # open
  /\ dev' = IF open THEN [dev EXCEPT !.ffs.enabling = TRUE] ELSE [dev EXCEPT !.configured = FALSE]

\* The ep0 thread stores the ENABLE it has read.
ep0_stores ==
  /\ dev.ffs # NoDevice
  /\ dev.ffs.enabling
  /\ dev' = [dev EXCEPT !.configured = TRUE, !.ffs.enabling = FALSE]
  /\ UNCHANGED only_dev

\* SET_CONFIGURATION reaches `configured` through the ep0 thread (FunctionFS).
host_opens ==
  /\ host_toggles_uhid(TRUE) \/ host_toggles_ffs(TRUE)
  /\ UNCHANGED only_dev

host_closes ==
  /\ "host_closes" \in Faults
  /\ host_toggles_uhid(FALSE) \/ host_toggles_ffs(FALSE)
  /\ UNCHANGED only_dev

grace_elapses ==
  /\ pending_destroy
  /\ ~grace_over
  /\ grace_over' = TRUE
  /\ UNCHANGED <<target_type, config, dev, requests, link, pad, modes, sentinel,
                 step, got>>

Environment == plug \/ unplug \/ host_opens \/ host_closes \/ ep0_stores \/ grace_elapses

Next == Loop \/ main_ends \/ (step # "stopped" /\ Environment)

Spec == Init /\ [][Next]_vars

\* The loop runs (poll() has a timeout and a client that sent nothing is not
\* served), the host opens a device it is offered, the ep0 thread is scheduled,
\* and the window elapses.
FairSpec ==
  /\ Spec
  /\ WF_vars(Loop)
  /\ WF_vars(host_opens)
  /\ WF_vars(ep0_stores)
  /\ WF_vars(grace_elapses)

-----------------------------------------------------------------------------
TypeOK ==
  /\ target_type \in Types
  /\ backend_for \in [Emulated -> Backends]
  /\ name \in [Emulated -> Names]
  /\ dev.backend \in Backends
  /\ dev.uhid \in {NoDevice} \cup UhidDevice
  /\ dev.ffs \in {NoDevice} \cup FfsDevice
  /\ dev.configured \in BOOLEAN /\ dev.device_open \in BOOLEAN
  /\ dev.held \in BOOLEAN /\ dev.orphan \in BOOLEAN
  /\ type_change \in [requested : BOOLEAN, to : Types]
  /\ backend_change \in [requested : BOOLEAN, to : Backends]
  /\ phy \in {"none", "up", "lost"}
  /\ step \in {"scan", "poll", "ipc", "change", "rename", "hup", "grace", "read",
               "uhid", "stopped"}
  /\ \A b \in {name_change_requested, pad, pending_destroy, grace_over,
               standalone_virtual, ignore_physical, sentinel} : b \in BOOLEAN

Live == dev.uhid # NoDevice \/ dev.ffs # NoDevice

\* A standalone virtual controller and an ignored physical one never share the
\* loop with a connected controller, whatever clients and cables do in between
\* ("so plugging in real hardware later doesn't fight over the same virtual
\* device", the scan of main()).
OneSource == standalone_virtual \/ ignore_physical => phy = "none"

\* A device kept for the grace window waits for a controller: there is none.
GraceHasNoController == pending_destroy => phy = "none"

\* Between two iterations, a device the daemon has a handle of has the type
\* that is being emulated: none under "none" and "hidden", and never one of an
\* earlier type or backend (the order of the change block, create-virtual).
DeviceHasTargetType ==
  step = "scan" =>
    /\ dev.uhid # NoDevice => dev.uhid.type = target_type
    /\ dev.ffs # NoDevice => dev.ffs.type = target_type
    /\ dev.uhid = NoDevice \/ dev.ffs = NoDevice

\* "clear its input state so nothing looks stuck held during the grace window":
\* no button stays down on a device whose controller is gone.
NothingStuck == step = "scan" /\ phy = "none" /\ ~standalone_virtual => ~dev.held

\* `configured` says of a gadget that is closed that the host has it open.
StaleConfigured == dev.ffs = NoDevice /\ dev.configured

\* A plugged controller that should be emulated ends up driving a device the
\* host has open, whatever was dropped, released or kept before -- unless it is
\* unplugged, released or replaced by a standalone one again, or an ENABLE is
\* stored on the closed gadget: a drop then keeps a device that is not there.
ControllerDrivesDevice ==
  (pad /\ target_type \in Emulated /\ ~standalone_virtual /\ ~ignore_physical) ~>
    \/ phy = "up" /\ Live /\ vdev_ready_for_io(dev)
    \/ ~pad \/ target_type \notin Emulated \/ standalone_virtual \/ ignore_physical
    \/ StaleConfigured
    \/ step = "stopped"

\* The grace window ends: with a controller, or without the device.
GraceEnds == pending_destroy ~> (~pending_destroy \/ step = "stopped")

-----------------------------------------------------------------------------
(* What comments and documents say. *)

\* "Reconnected within the grace window: the virtual device was never
\* destroyed, so reuse it as-is".
ReuseHasDevice == step = "scan" /\ pending_destroy => Live

\* set-backend "takes effect immediately if that controller type is the one
\* currently active (recreating the virtual device)": it changes no type.
SetBackendKeepsType ==
  [][type_change.requested \/ target_type' = target_type
       \/ (step = "ipc" /\ standalone_virtual')]_vars

\* "If the controller reconnects within the window, the existing virtual device
\* is reused as-is": no device is left behind when another one is created.
NoDeviceLeftBehind == ~dev.orphan
=============================================================================
