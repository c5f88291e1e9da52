------------------------------- MODULE HotSwap -------------------------------
(***************************************************************************)
(* How main() finds the physical controller, hides it and moves between    *)
(* its Bluetooth and USB connections (src/main.cpp, with                   *)
(* src/hid-unbind-detect.cpp).                                             *)
(*                                                                         *)
(* There is one controller with two links.  hid-playstation refuses a      *)
(* second link of a MAC address it already drives ("Duplicate device       *)
(* found"), so main() takes the driver from Bluetooth when a cable shows   *)
(* up and has to give it back later.  How a transport opens and closes is  *)
(* Transport's matter: here it does so in one step or fails.               *)
(***************************************************************************)
EXTENDS Integers, Sequences

CONSTANTS
  MaxEvents,  \* connections, disconnections, commands and failures to create
              \* the virtual device of a behaviour (bound)
  Commands,   \* the control commands clients send
  Faults      \* what may fail: "open" (a transport), "create" (the virtual device)

ASSUME HotSwapAssumption == MaxEvents \in Nat

Buses == {"usb", "bt"}
Other(bus) == IF bus = "usb" THEN "bt" ELSE "usb"

VARIABLES
  method,        \* g_hide_method: "unbind" or "legacy"
  hides,         \* controller_type_hides_physical(target_type)
  dev,           \* per bus: "absent", "bound" (to playstation), "refused" (a
                 \* duplicate), "unbound" (by main()), "claimed" (by libusb)
  hidden,        \* buses whose nodes main() made private
  phy,           \* bus of phy_fd, "none" for -1
  via,           \* "hidraw", "libusb" or "bpf": which descriptor phy_fd is
  lost,          \* phy_fd would report POLLHUP
  is_bluetooth,
  suppressed,    \* suppressed_bt_hid_id: "none", "this", or "stale" (of a
                 \* Bluetooth connection that ended)
  uevents,       \* "add" events in the netlink socket
  pending,       \* g_pending_unbind_hid_id
  ignore_physical,
  running,
  at,            \* where the main loop is: "top" (scan, hot-swap), "poll"
                 \* (uevents), "rest" (commands, a drop)
  budget         \* events left

environment == <<dev, uevents>>
connection == <<phy, via, lost, is_bluetooth>>
settings == <<method, hides, ignore_physical, running>>
vars == <<settings, at, environment, hidden, connection, suppressed, pending, budget>>

Init ==
  /\ method \in {"unbind", "legacy"}
  /\ hides \in BOOLEAN
  /\ dev = [b \in Buses |-> "absent"]
  /\ hidden = {}
  /\ phy = "none" /\ via = "hidraw" /\ lost = FALSE /\ is_bluetooth = FALSE
  /\ suppressed = "none"
  /\ uevents = <<>> /\ pending = "none"
  /\ ignore_physical = FALSE /\ running = TRUE /\ at = "top"
  /\ budget = MaxEvents

-----------------------------------------------------------------------------
(* The kernel's side, as main() relies on it. *)

\* The state of a link that asks for the driver, given the state of the other.
Probed(other) == IF other = "bound" THEN "refused" ELSE "bound"

\* write_hid_driver_sysfs("bind"): a refused bind changes nothing.
Bind(d, bus) ==
  IF d[bus] \in {"refused", "unbound"} /\ d[Other(bus)] # "bound"
  THEN [d EXCEPT ![bus] = "bound"]
  ELSE d

Monitored == running /\ method = "unbind"

Added(bus) == IF Monitored THEN Append(uevents, bus) ELSE uevents

-----------------------------------------------------------------------------
(* release_physical_connection and restore_suppressed_bluetooth *)

\* libusb hands a claimed interface back and playstation probes it anew.
Released(d) ==
  IF via = "libusb" /\ phy = "usb" /\ ~lost
  THEN [d EXCEPT !["usb"] = Probed(d["bt"])]
  ELSE d

ReleaseEvents == IF Released(dev) # dev THEN Added("usb") ELSE uevents

Mut_release_physical_connection ==
  /\ phy' = "none" /\ via' = "hidraw" /\ lost' = FALSE
  /\ hidden' = IF via = "bpf" THEN hidden ELSE hidden \ {phy}

release_physical_connection ==
  /\ phy' = "none" /\ via' = "hidraw" /\ lost' = FALSE
  /\ hidden' = hidden \ {phy}

Restored(d) == IF suppressed = "this" THEN Bind(d, "bt") ELSE d

-----------------------------------------------------------------------------
(* Scan: main() has no controller and looks for one. *)

Bound(bus) == dev[bus] = "bound"

\* hid_bus_scan_existing: a controller with a driver, in directory order.
hid_bus_scan_existing == {b \in Buses : Bound(b)}

\* find_physical_ds4: a hidraw node, USB before Bluetooth.
find_physical_ds4 ==
  IF Bound("usb") THEN "usb" ELSE IF Bound("bt") THEN "bt" ELSE "none"

Mut_open_legacy(bus) ==
  LET b == find_physical_ds4 IN
  /\ phy' = b
  /\ via' = "hidraw"
  /\ is_bluetooth' = (bus = "bt")
  /\ hidden' = IF hides /\ b # "none" THEN {b} ELSE hidden
  /\ UNCHANGED <<dev, lost>>

\* open_and_hide_physical on whatever find_physical_ds4() yields.
open_legacy(bus) ==
  LET b == find_physical_ds4 IN
  /\ phy' = b
  /\ via' = "hidraw"
  /\ is_bluetooth' = IF b = "none" THEN bus \in {"bt", "stale"} ELSE b = "bt"
  /\ hidden' = IF hides /\ b # "none" THEN {b} ELSE hidden
  /\ UNCHANGED <<dev, lost>>

\* open_and_hide_physical_unbind: libusb finds the controller by its product id
\* whatever driver it has; HID-BPF needs the bound device of this very hid_id.
CanOpen(id) == IF id = "usb" THEN dev["usb"] # "absent" ELSE id = "bt" /\ Bound("bt")

open_unbind(id) ==
  /\ phy' = id
  /\ via' = IF id = "usb" THEN "libusb" ELSE "bpf"
  /\ is_bluetooth' = (id = "bt")
  /\ dev' = IF id = "usb" THEN [dev EXCEPT !["usb"] = "claimed"] ELSE dev
  /\ hidden' = IF id = "bt" THEN {"bt"} ELSE hidden
  /\ UNCHANGED lost

scans_bus == method = "unbind" /\ hides

\* The hid_ids the scan may pick: a uevent's, else one it finds itself.
Candidates ==
  IF ~scans_bus THEN {}
  ELSE IF pending # "none" THEN {pending} ELSE hid_bus_scan_existing

Spend == budget > 0 /\ budget' = budget - 1

Pass(from, to) == running /\ at = from /\ at' = to

\* At the top of the loop, without a controller but with one to be found.
Scanning ==
  /\ phy = "none" /\ ~ignore_physical
  /\ Candidates # {} \/ find_physical_ds4 # "none"

\* A candidate that cannot be opened: the legacy method takes what it finds.
scan ==
  /\ Pass("top", "poll") /\ Scanning
  /\ \/ \E id \in Candidates : CanOpen(id) /\ open_unbind(id)
     \/ \E id \in Candidates :
          /\ CanOpen(id) => "open" \in Faults
          /\ open_legacy(id)
     \/ Candidates = {} /\ open_legacy("none")
  /\ pending' = IF scans_bus THEN "none" ELSE pending
  /\ UNCHANGED <<settings, uevents, suppressed, budget>>

\* create_virtual_device() failed: the connection just opened is released.
create_fails ==
  /\ Pass("top", "poll") /\ Scanning /\ hides
  /\ "create" \in Faults
  /\ Spend
  /\ \/ \E id \in Candidates :
          /\ CanOpen(id)
          /\ is_bluetooth' = (id = "bt")
          /\ IF id = "usb"
             THEN /\ dev' = [dev EXCEPT !["usb"] = Probed(dev["bt"])]
                  /\ uevents' = Added("usb")
             ELSE UNCHANGED environment
     \/ /\ Candidates = {}
        /\ is_bluetooth' = (find_physical_ds4 = "bt")
        /\ UNCHANGED environment
  /\ pending' = IF scans_bus THEN "none" ELSE pending
  /\ UNCHANGED <<settings, hidden, phy, via, lost, suppressed>>

-----------------------------------------------------------------------------
(* Hot-swap: connected over Bluetooth, a cable shows up. *)

\* find_usb_ds4_hid_id: a USB hid_device, with a driver or not.
find_usb_ds4_hid_id == dev["usb"] \in {"bound", "refused", "unbound"}

Mut_BtId == IF lost \/ via = "bpf" THEN "none" ELSE "this"

\* The HID-BPF connection keeps its own id; hidraw_to_hid_id() finds none once
\* the node is gone.
BtId == IF ~lost THEN "this" ELSE IF via = "bpf" THEN "stale" ELSE "none"

Unbound == IF BtId = "this" THEN [dev EXCEPT !["bt"] = "unbound"] ELSE dev

\* The unbound legacy connection hangs up by itself, a HID-BPF one is released
\* here.
hot_swap ==
  /\ Pass("top", "poll") /\ phy # "none" /\ is_bluetooth /\ ~ignore_physical
  /\ find_usb_ds4_hid_id
  /\ BtId # "none"
  /\ dev' = Bind(Unbound, "usb")
  /\ suppressed' = BtId
  /\ IF via = "bpf"
     THEN release_physical_connection
     ELSE /\ lost' = TRUE
          /\ hidden' = hidden \ {"bt"}
          /\ UNCHANGED <<phy, via>>
  /\ UNCHANGED <<settings, is_bluetooth, uevents, pending, budget>>

-----------------------------------------------------------------------------
(* poll(): uevents, and the connection that dropped. *)

\* Nothing to scan, or not yet time to look for a cable.
top_skips ==
  /\ Pass("top", "poll") /\ ~Scanning
  /\ UNCHANGED <<settings, environment, hidden, connection, suppressed, pending, budget>>

\* One event a pass.
read_uevent ==
  /\ Pass("poll", "rest")
  /\ pending' = IF uevents = <<>> THEN pending ELSE Head(uevents)
  /\ uevents' = IF uevents = <<>> THEN <<>> ELSE Tail(uevents)
  /\ UNCHANGED <<settings, dev, hidden, connection, suppressed, budget>>

Mut_drop ==
  /\ Pass("rest", "top") /\ phy # "none" /\ lost
  /\ dev' = IF is_bluetooth THEN Restored(dev) ELSE dev
  /\ suppressed' = IF is_bluetooth THEN "none" ELSE suppressed
  /\ release_physical_connection
  /\ UNCHANGED <<settings, is_bluetooth, uevents, pending, budget>>

\* Only the end of a USB connection hands Bluetooth back: a Bluetooth drop may
\* be the hot-swap's own.
drop ==
  /\ Pass("rest", "top") /\ phy # "none" /\ lost
  /\ dev' = IF is_bluetooth THEN dev ELSE Restored(dev)
  /\ suppressed' = IF is_bluetooth THEN suppressed ELSE "none"
  /\ release_physical_connection
  /\ UNCHANGED <<settings, is_bluetooth, uevents, pending, budget>>

rest_skips ==
  /\ Pass("rest", "top") /\ ~lost
  /\ UNCHANGED <<settings, environment, hidden, connection, suppressed, pending, budget>>

-----------------------------------------------------------------------------
(* Commands that let go of the controller, and the end of the daemon. *)

\* Released, then Bluetooth bound again.
letting_go ==
  /\ dev' = Restored(Released(dev))
  /\ uevents' = ReleaseEvents
  /\ suppressed' = "none"
  /\ release_physical_connection

\* "set-type", "set-backend": the scan finds the controller again.  The rebind
\* after a change of visibility replaces the nodes of a hidraw connection.
set_type ==
  /\ "set-type" \in Commands /\ Pass("rest", "top")
  /\ Spend
  /\ hides' \in BOOLEAN
  /\ letting_go
  /\ UNCHANGED <<method, ignore_physical, running, is_bluetooth, pending>>

release_physical ==
  /\ "release-physical" \in Commands /\ Pass("rest", "top")
  /\ Spend
  /\ ignore_physical' = TRUE
  /\ IF phy = "none"
     THEN UNCHANGED <<dev, uevents, suppressed, phy, via, lost, hidden>>
     ELSE letting_go
  /\ UNCHANGED <<method, hides, running, is_bluetooth, pending>>

resume_physical ==
  /\ Pass("rest", "top") /\ ignore_physical
  /\ ignore_physical' = FALSE
  /\ UNCHANGED <<method, hides, running, environment, hidden, connection, suppressed, pending, budget>>

\* rebind-unbound-controllers.sh, after every stop and before every start.
Rebound(d) == Bind(Bind(d, "usb"), "bt")

Mut_shutdown ==
  /\ "stop" \in Commands /\ Pass("rest", "top")
  /\ running' = FALSE
  /\ dev' = Rebound(Restored(dev))
  /\ suppressed' = "none"
  /\ release_physical_connection
  /\ uevents' = <<>> /\ pending' = "none"
  /\ UNCHANGED <<method, hides, ignore_physical, is_bluetooth, budget>>

\* SIGTERM.
shutdown ==
  /\ "stop" \in Commands /\ Pass("rest", "top")
  /\ running' = FALSE
  /\ dev' = Rebound(Restored(Released(dev)))
  /\ suppressed' = "none"
  /\ release_physical_connection
  /\ uevents' = <<>> /\ pending' = "none"
  /\ UNCHANGED <<method, hides, ignore_physical, is_bluetooth, budget>>

start ==
  /\ ~running
  /\ Spend
  /\ running' = TRUE
  /\ ignore_physical' = FALSE /\ is_bluetooth' = FALSE
  /\ dev' = Rebound(dev)
  /\ UNCHANGED <<method, at, hides, uevents, hidden, phy, via, lost, suppressed, pending>>

-----------------------------------------------------------------------------
(* The user and the radio. *)

connect(bus) ==
  /\ dev[bus] = "absent"
  /\ Spend
  /\ dev' = [dev EXCEPT ![bus] = Probed(dev[Other(bus)])]
  /\ uevents' = Added(bus)
  /\ UNCHANGED <<settings, at, hidden, connection, suppressed, pending>>

\* The next Bluetooth connection has another hid_id.
Aged(id) == IF id = "bt" THEN "stale" ELSE id

disconnect(bus) ==
  /\ dev[bus] # "absent"
  /\ Spend
  /\ dev' = [dev EXCEPT ![bus] = "absent"]
  /\ hidden' = hidden \ {bus}
  /\ lost' = (lost \/ phy = bus)
  /\ IF bus = "bt"
     THEN /\ suppressed' = IF suppressed = "this" THEN "stale" ELSE suppressed
          /\ pending' = Aged(pending)
          /\ uevents' = [i \in 1 .. Len(uevents) |-> Aged(uevents[i])]
     ELSE UNCHANGED <<suppressed, pending, uevents>>
  /\ UNCHANGED <<settings, at, phy, via, is_bluetooth>>

\* The refused probe is tried again (the comment in usb_hid_transport_open);
\* nothing says when.
kernel_retries ==
  \E bus \in Buses :
    /\ dev[bus] = "refused" /\ dev[Other(bus)] # "bound"
    /\ dev' = [dev EXCEPT ![bus] = "bound"]
    /\ UNCHANGED <<settings, at, hidden, connection, suppressed, uevents, pending, budget>>

User == \E bus \in Buses : connect(bus) \/ disconnect(bus)
Client == set_type \/ release_physical \/ resume_physical
Daemon == scan \/ hot_swap \/ top_skips \/ read_uevent \/ drop \/ rest_skips

Next == Daemon \/ create_fails \/ Client \/ shutdown \/ start \/ User \/ kernel_retries
Spec == Init /\ [][Next]_vars

\* The main loop turns, and looks for a cable every two seconds.
FairSpec == Spec /\ WF_vars(Daemon) /\ SF_vars(hot_swap)

-----------------------------------------------------------------------------
(* Properties *)

\* Every variable has its type.
TypeOK ==
  /\ method \in {"unbind", "legacy"}
  /\ hides \in BOOLEAN /\ ignore_physical \in BOOLEAN /\ running \in BOOLEAN
  /\ dev \in [Buses -> {"absent", "bound", "refused", "unbound", "claimed"}]
  /\ hidden \subseteq Buses
  /\ phy \in Buses \cup {"none"}
  /\ via \in {"hidraw", "libusb", "bpf"}
  /\ lost \in BOOLEAN /\ is_bluetooth \in BOOLEAN
  /\ suppressed \in {"none", "this", "stale"}
  /\ at \in {"top", "poll", "rest"}
  /\ uevents \in Seq({"usb", "bt", "stale"})
  /\ pending \in {"none", "usb", "bt", "stale"}
  /\ budget \in 0 .. MaxEvents

\* Only the controller in use has private nodes: nothing stays hidden from
\* other programs after a drop, a hot-swap, a command or the end of the daemon.
NoNodeLeftHidden == hidden \subseteq {phy}

\* is_bluetooth, which selects how reports are parsed and built and decides
\* whether a drop hands Bluetooth back, agrees with the descriptor in use.
FormatMatchesLink == phy # "none" => (is_bluetooth <=> phy = "bt")

\* The daemon has its hands on the controller only while it uses and hides it:
\* type none hides no node, claims no interface and attaches no BPF program, and
\* no interface stays claimed after a drop, a command or the end of the daemon.
HandsOff ==
  /\ ~hides => hidden = {} /\ via = "hidraw"
  /\ dev["usb"] = "claimed" => hides /\ running /\ phy = "usb" /\ via = "libusb" /\ ~lost

\* A cable takes over from a Bluetooth connection that lasts; if Bluetooth goes
\* away first the cable waits for the kernel to try again.
UsbTakesOver ==
  (phy = "bt" /\ dev["usb"] # "absent" /\ running) ~>
    (phy = "usb" \/ "absent" \in {dev["usb"], dev["bt"]} \/ ignore_physical \/ ~running)

\* When the cable that took over is pulled, Bluetooth gets its driver back.
BluetoothHandedBack ==
  (phy = "usb" /\ lost /\ suppressed = "this" /\ dev["usb"] = "absent" /\ running) ~>
    (dev["bt"] # "unbound" \/ dev["usb"] # "absent")

\* The configured hide method is the one in use when nothing failed (the
\* comment on the scan in main()).
ConfiguredMethodUsed ==
  method = "unbind" /\ hides /\ phy # "none" => via # "hidraw"

\* Whenever main() forgets that it took the driver from Bluetooth, Bluetooth
\* has it again: after a real disconnect or a forced release (the comments on
\* suppressed_bt_hid_id and restore_suppressed_bluetooth).
HandBackSucceeds ==
  [][suppressed = "this" /\ suppressed' = "none" => dev'["bt"] = "bound"]_vars
=============================================================================
