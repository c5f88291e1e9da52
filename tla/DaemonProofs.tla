---------------------------- MODULE DaemonProofs ----------------------------
(***************************************************************************)
(* The main loop for every set of commands, initial types and faults: a    *)
(* standalone virtual controller, an ignored physical one and a device     *)
(* kept for the grace window exclude a connected controller; the device    *)
(* there is has the type that is emulated; and no button stays down.       *)
(***************************************************************************)
EXTENDS Daemon, TLAPS

\* A device is kept only while its type is emulated.  Without this a scan under
\* "none" or "hidden", which leaves pending_destroy alone, would connect a
\* controller beside a kept device.
KeptIsEmulated == pending_destroy => target_type \in Emulated

IInv == OneSource /\ GraceHasNoController /\ KeptIsEmulated

\* The loop starts with no controller and nothing kept.
LEMMA InitEstablishesIInv == Init => IInv
  BY DEF Init, IInv, OneSource, GraceHasNoController, KeptIsEmulated

\* A scan opens a controller only when neither mode is on, and it consumes a
\* kept device.
LEMMA ScanPreserves == IInv /\ scan => IInv'
<1>1. CASE scan_connects
  BY <1>1 DEF IInv, OneSource, GraceHasNoController, KeptIsEmulated, scan_connects,
     reuse_device, new_device, no_emulation, Scanning, modes, config, requests
<1>2. CASE scan_finds_nothing
  BY <1>2 DEF IInv, OneSource, GraceHasNoController, KeptIsEmulated,
     scan_finds_nothing, link, modes
<1> QED BY <1>1, <1>2 DEF scan

\* Every command is refused or keeps the sources apart.
LEMMA IpcPreserves == IInv /\ ipc => IInv'
<1> SUFFICES ASSUME IInv, ipc PROVE IInv'
  OBVIOUS
<1> USE DEF IInv, OneSource, GraceHasNoController, KeptIsEmulated
<1>1. CASE create_virtual
  <2>1. phy' = "none" /\ pending_destroy' = pending_destroy
    BY <1>1 DEF create_virtual, link
  <2>2. target_type' = target_type \/ target_type' \in Emulated
    BY <1>1 DEF create_virtual
  <2> QED BY <2>1, <2>2
<1>2. CASE destroy_virtual
  BY <1>2 DEF destroy_virtual
<1>3. CASE release_physical
  BY <1>3 DEF release_physical, link
<1>4. CASE resume_physical
  BY <1>4 DEF resume_physical, link
<1>5. CASE set_type
  BY <1>5 DEF set_type, link, modes
<1>6. CASE set_backend
  BY <1>6 DEF set_backend, link, modes
<1>7. CASE set_name
  BY <1>7 DEF set_name, link, modes
<1>8. CASE no_command
  BY <1>8 DEF no_command, link, modes
<1> QED BY <1>1, <1>2, <1>3, <1>4, <1>5, <1>6, <1>7, <1>8 DEF ipc

\* A type or backend change gives the controller back and keeps no device.
LEMMA ChangePreserves == IInv /\ change => IInv'
<1> SUFFICES ASSUME IInv, change PROVE IInv'
  OBVIOUS
<1> USE DEF IInv, OneSource, GraceHasNoController, KeptIsEmulated
<1>1. CASE type_change.requested \/ backend_change.requested
  BY <1>1 DEF change, apply_change, become
<1>2. CASE ~(type_change.requested \/ backend_change.requested)
  BY <1>2 DEF change, link
<1> QED BY <1>1, <1>2

\* The other steps of an iteration only ever take a controller or a kept device
\* away; `hup` keeps one when it takes the controller away.
LEMMA RestOfLoopPreserves ==
  IInv /\ (poll \/ rename \/ hup \/ grace \/ read \/ uhid \/ main_ends) => IInv'
<1> SUFFICES ASSUME IInv, poll \/ rename \/ hup \/ grace \/ read \/ uhid \/ main_ends
             PROVE  IInv'
  OBVIOUS
<1> USE DEF IInv, OneSource, GraceHasNoController, KeptIsEmulated
<1>1. CASE poll
  BY <1>1 DEF poll, link, modes
<1>2. CASE rename
  BY <1>2 DEF rename, link, modes
<1>3. CASE hup
  BY <1>3 DEF hup, modes
<1>4. CASE grace
  BY <1>4 DEF grace, modes
<1>5. CASE read
  BY <1>5 DEF read, link, modes
<1>6. CASE uhid
  BY <1>6 DEF uhid, uhid_dropped, uhid_read_fails, uhid_event, uhid_nothing, link
<1>7. CASE main_ends
  BY <1>7 DEF main_ends, modes
<1> QED BY <1>1, <1>2, <1>3, <1>4, <1>5, <1>6, <1>7

\* Cables, the host and the clock connect nothing by themselves.
LEMMA EnvironmentPreserves == IInv /\ Environment => IInv'
<1> SUFFICES ASSUME IInv, Environment PROVE IInv'
  OBVIOUS
<1>1. UNCHANGED <<target_type, pending_destroy, standalone_virtual, ignore_physical>>
  <2>1. CASE plug
    BY <2>1 DEF plug, link, modes
  <2>2. CASE unplug
    BY <2>2 DEF unplug, modes
  <2>3. CASE host_opens \/ host_closes \/ ep0_stores
    BY <2>3 DEF host_opens, host_closes, ep0_stores, only_dev, link, modes
  <2>4. CASE grace_elapses
    BY <2>4 DEF grace_elapses, link, modes
  <2> QED BY <2>1, <2>2, <2>3, <2>4 DEF Environment
<1>2. phy = "none" => phy' = "none"
  BY DEF Environment, plug, unplug, host_opens, host_closes, ep0_stores, grace_elapses, only_dev, link
<1> QED BY <1>1, <1>2 DEF IInv, OneSource, GraceHasNoController, KeptIsEmulated

\* One case per step of the main loop and per event around it.
LEMMA NextPreservesIInv == IInv /\ [Next]_vars => IInv'
<1> SUFFICES ASSUME IInv, [Next]_vars PROVE IInv'
  OBVIOUS
<1>1. CASE Loop
  BY <1>1, ScanPreserves, IpcPreserves, ChangePreserves, RestOfLoopPreserves DEF Loop
<1>2. CASE main_ends
  BY <1>2, RestOfLoopPreserves
<1>3. CASE Environment
  BY <1>3, EnvironmentPreserves
<1>4. CASE UNCHANGED vars
  BY <1>4 DEF IInv, OneSource, GraceHasNoController, KeptIsEmulated, vars
<1> QED BY <1>1, <1>2, <1>3, <1>4 DEF Next

\* The inductive invariant of the loop.
THEOREM InductiveInvariant == Spec => []IInv
  BY InitEstablishesIInv, NextPreservesIInv, PTL DEF Spec

\* main() never serves a controller next to a standalone virtual one, nor one
\* that release-physical told it to leave alone.
THEOREM SourcesExclude == Spec => []OneSource
<1>1. IInv => OneSource
  BY DEF IInv
<1> QED BY <1>1, InductiveInvariant, PTL

\* While a device is kept for the grace window no controller is connected.
THEOREM KeptDeviceWaits == Spec => []GraceHasNoController
<1>1. IInv => GraceHasNoController
  BY DEF IInv
<1> QED BY <1>1, InductiveInvariant, PTL

-----------------------------------------------------------------------------
(* The virtual device *)

Uhids == {NoDevice} \cup UhidDevice
Gadgets == {NoDevice} \cup FfsDevice
Devices ==
  [backend : Backends, uhid : Uhids, ffs : Gadgets, configured : BOOLEAN,
   device_open : BOOLEAN, held : BOOLEAN, orphan : BOOLEAN]

Typed ==
  /\ target_type \in Types
  /\ backend_for \in [Emulated -> Backends]
  /\ name \in [Emulated -> Names]
  /\ dev \in Devices
  /\ type_change \in [requested : BOOLEAN, to : Types]
  /\ backend_change \in [requested : BOOLEAN, to : Backends]
  /\ name_change_requested \in BOOLEAN

\* A request is made by a command and served in the same iteration, and there is
\* never more than one, so a renamed device is still of the type it was
\* requested for.
Requests ==
  /\ type_change.requested \/ backend_change.requested =>
       step = "change" /\ ~name_change_requested
  /\ name_change_requested => step \in {"change", "rename"} /\ target_type \in Emulated

\* There is at most one device, on the current backend, and it has this type.
OnlyDevice(d, type) ==
  /\ d.backend = "uhid" => d.ffs = NoDevice
  /\ d.backend = "functionfs" => d.uhid = NoDevice
  /\ d.uhid # NoDevice => d.uhid.type = type
  /\ d.ffs # NoDevice => d.ffs.type = type

\* The device can be written to: what `read` asks for before it forwards a report.
Opened(d) ==
  IF d.backend = "functionfs" THEN d.ffs # NoDevice /\ d.configured
  ELSE d.uhid # NoDevice /\ d.device_open

NeverCloses(d) == d.uhid # NoDevice => d.uhid.events \in Seq({"open"})

\* While the host keeps the device open, whatever put a button down is still
\* connected and can still be told to let go.
HeldByPad == NeverCloses(dev) /\ (dev.held => phy # "none" /\ Opened(dev))

DeviceInv ==
  /\ Typed
  /\ Requests
  /\ OnlyDevice(dev, target_type)
  /\ "host_closes" \notin Faults => HeldByPad

\* What every way to create a device leaves behind, be it on the configured
\* backend, on UHID after FunctionFS failed, or nothing.
LEMMA CreateUhid ==
  ASSUME name \in [Emulated -> Names], NEW d \in Devices, NEW type \in Emulated,
         NEW out \in create_uhid(d, type), d.backend = "uhid"
  PROVE  /\ out[1] \in BOOLEAN /\ out[2] \in Devices
         /\ out[2].backend = "uhid" /\ out[2].ffs = d.ffs
         /\ out[1] /\ out[2].uhid # NoDevice => out[2].uhid.type = type
         /\ ~out[1] => out[2].uhid \in {d.uhid, NoDevice}
         /\ out[2].held => d.held
         /\ NeverCloses(d) => NeverCloses(out[2])
<1> DEFINE over == [d EXCEPT !.uhid = NoDevice,
                             !.orphan = d.orphan \/ d.uhid # NoDevice,
                             !.held = FALSE]
<1>1. over \in Devices /\ over.backend = "uhid" /\ over.ffs = d.ffs /\ over.uhid = NoDevice
      /\ over.held = FALSE
  BY DEF Devices, Uhids
<1>2. NewUhid(type) \in Uhids /\ NewUhid(type).type = type /\ NewUhid(type).events = <<>>
  BY DEF NewUhid, Uhids, UhidDevice
<1>3. CASE out = <<TRUE, [over EXCEPT !.uhid = NewUhid(type)]>>
  <2>1. out[1] = TRUE /\ out[2] = [over EXCEPT !.uhid = NewUhid(type)]
    BY <1>3
  <2>2. /\ out[2] \in Devices /\ out[2].backend = "uhid" /\ out[2].ffs = d.ffs
        /\ out[2].uhid = NewUhid(type) /\ out[2].held = FALSE
    <3> HIDE DEF over
    <3> QED BY <2>1, <1>1, <1>2 DEF Devices
  <2>3. NeverCloses(out[2])
    BY <2>2, <1>2 DEF NeverCloses
  <2> QED BY <2>1, <2>2, <2>3, <1>2
<1>4. CASE out = <<FALSE, d>>
  BY <1>4
<1>5. CASE out = <<FALSE, over>>
  <2>1. out[1] = FALSE /\ out[2] = over
    BY <1>5
  <2> HIDE DEF over
  <2> QED BY <2>1, <1>1 DEF NeverCloses
<1> QED BY <1>3, <1>4, <1>5 DEF create_uhid

\* A gadget that is closed or forgotten leaves the flag, at most.
LEMMA Forgetting ==
  ASSUME NEW d \in Devices
  PROVE  /\ without_ffs(d) \in Devices
         /\ without_ffs(d).backend = d.backend /\ without_ffs(d).uhid = d.uhid
         /\ without_ffs(d).ffs = NoDevice /\ without_ffs(d).held = FALSE
<1> DEFINE flag == d.ffs # NoDevice /\ d.ffs.enabling
<1>1. flag \in BOOLEAN
  BY DEF Devices, Gadgets, FfsDevice
<1>2. without_ffs(d) = [d EXCEPT !.ffs = NoDevice, !.held = FALSE, !.configured = flag]
  BY DEF without_ffs
<1> HIDE DEF flag
<1> QED BY <1>1, <1>2 DEF Devices, Gadgets

\* A creation, and what a failed one leaves.
LEMMA Creation ==
  ASSUME name \in [Emulated -> Names], NEW d \in Devices, NEW type \in Emulated, NEW old,
         OnlyDevice(d, old), NEW out \in create_virtual_device(d, type)
  PROVE  /\ out[1] \in BOOLEAN /\ out[2] \in Devices
         /\ OnlyDevice(out[2], IF out[1] THEN type ELSE old)
         /\ ~d.held => ~out[2].held
         /\ NeverCloses(d) => NeverCloses(out[2])
<1>1. CASE d.backend = "uhid"
  BY <1>1, CreateUhid DEF create_virtual_device, OnlyDevice
<1>2. CASE d.backend # "uhid"
  <2> DEFINE over == [without_ffs(d) EXCEPT !.orphan = d.orphan \/ d.ffs # NoDevice]
             onUhid == [over EXCEPT !.backend = "uhid"]
  <2>1. d.backend = "functionfs" /\ d.uhid = NoDevice
    BY <1>2 DEF Devices, Backends, OnlyDevice
  <2>2. /\ over \in Devices /\ over.backend = "functionfs" /\ over.uhid = NoDevice
        /\ over.held = FALSE
    BY <2>1, Forgetting DEF Devices
  <2>3. /\ onUhid \in Devices /\ onUhid.backend = "uhid" /\ onUhid.uhid = NoDevice
        /\ onUhid.ffs = NoDevice /\ onUhid.held = FALSE
    BY <2>1, Forgetting DEF Devices, Backends
  <2>4. NewFfs(type) \in Gadgets /\ NewFfs(type).type = type
    BY DEF NewFfs, Gadgets, FfsDevice
  <2>5. CASE out = <<TRUE, [over EXCEPT !.ffs = NewFfs(type)]>>
    <3>1. out[1] = TRUE /\ out[2] = [over EXCEPT !.ffs = NewFfs(type)]
      BY <2>5
    <3> HIDE DEF over
    <3> QED BY <3>1, <2>2, <2>4 DEF Devices, OnlyDevice, NeverCloses
  <2>6. CASE out \in create_uhid(onUhid, type)
    <3> HIDE DEF onUhid
    <3> QED BY <2>3, <2>6, CreateUhid DEF OnlyDevice, NeverCloses
  <2> QED BY <1>2, <2>5, <2>6 DEF create_virtual_device
<1> QED BY <1>1, <1>2

\* Nothing is left of a device that is destroyed, and it holds no button.
LEMMA Destruction ==
  ASSUME NEW d \in Devices, NEW old, OnlyDevice(d, old)
  PROVE  /\ destroy_virtual_device(d) \in Devices
         /\ \A type : OnlyDevice(destroy_virtual_device(d), type)
         /\ destroy_virtual_device(d).uhid = NoDevice
         /\ destroy_virtual_device(d).ffs = NoDevice
         /\ destroy_virtual_device(d).held = FALSE
<1>1. CASE d.backend = "functionfs"
  BY <1>1, Forgetting DEF destroy_virtual_device, OnlyDevice, Devices, Uhids
<1>2. CASE d.backend # "functionfs"
  BY <1>2 DEF destroy_virtual_device, OnlyDevice, Devices, Uhids, Backends
<1> QED BY <1>1, <1>2

\* A report changes nothing but what is held.
LEMMA Emission ==
  ASSUME NEW d \in Devices, NEW held \in BOOLEAN
  PROVE  emit_report(d, held) \in {d, [d EXCEPT !.held = held]}
  BY DEF emit_report

\* So it neither makes nor takes away a device.
LEMMA EmissionKeepsDevices ==
  ASSUME NEW d \in Devices, NEW held \in BOOLEAN
  PROVE  /\ emit_report(d, held) \in Devices
         /\ emit_report(d, held).uhid = d.uhid /\ emit_report(d, held).ffs = d.ffs
         /\ \A type : OnlyDevice(d, type) => OnlyDevice(emit_report(d, held), type)
<1> DEFINE e == emit_report(d, held)
<1>1. e \in {d, [d EXCEPT !.held = held]}
  BY Emission
<1> HIDE DEF e
<1>2. e \in Devices /\ e.uhid = d.uhid /\ e.ffs = d.ffs /\ e.backend = d.backend
  BY <1>1 DEF Devices
<1>3. \A type : OnlyDevice(d, type) => OnlyDevice(e, type)
  BY <1>2 DEF OnlyDevice
<1> QED BY <1>2, <1>3 DEF e

\* Nor does letting go of the buttons of a device that is configured.
LEMMA NeutralKeepsDevices ==
  ASSUME NEW d \in Devices
  PROVE  /\ neutral_if_configured(d) \in Devices
         /\ neutral_if_configured(d).uhid = d.uhid /\ neutral_if_configured(d).ffs = d.ffs
         /\ \A type : OnlyDevice(d, type) => OnlyDevice(neutral_if_configured(d), type)
  BY EmissionKeepsDevices DEF neutral_if_configured

\* Closing a device leaves no other behind.
LEMMA Closing ==
  ASSUME NEW d \in Devices
  PROVE  /\ closed(d) \in Devices
         /\ closed(d).held = d.held
         /\ \A type : OnlyDevice(d, type) => OnlyDevice(closed(d), type)
         /\ NeverCloses(d) => NeverCloses(closed(d))
  BY DEF closed, Devices, OnlyDevice, NeverCloses

\* At the start there is no device.
LEMMA InitEstablishesDeviceInv == Init => DeviceInv
<1> SUFFICES ASSUME Init PROVE DeviceInv
  OBVIOUS
<1>1. dev \in Devices /\ dev.uhid = NoDevice /\ dev.ffs = NoDevice /\ dev.held = FALSE
  BY DEF Init, Devices, Uhids, Gadgets, Emulated
<1>2. Typed
  BY <1>1, DaemonAssumption DEF Init, Typed, Names, Devices, Types
<1> QED BY <1>1, <1>2 DEF Init, DeviceInv, Requests, OnlyDevice, HeldByPad, NeverCloses

\* Whatever the scan and the commands do to the device.
LEMMA ScanKeepsDevice == DeviceInv /\ scan => DeviceInv'
<1> SUFFICES ASSUME DeviceInv, scan PROVE DeviceInv'
  OBVIOUS
<1>1. CASE scan_finds_nothing
  BY <1>1 DEF scan_finds_nothing, DeviceInv, Typed, Requests, HeldByPad, config, requests, link
<1>2. CASE scan_connects
  <2>1. /\ step = "scan" /\ step' = "poll" /\ phy = "none"
        /\ UNCHANGED <<target_type, backend_for, name, type_change, backend_change,
                       name_change_requested>>
    BY <1>2 DEF scan_connects, Scanning, config, requests
  <2>2. /\ dev' \in Devices /\ OnlyDevice(dev', target_type)
        /\ "host_closes" \notin Faults => NeverCloses(dev') /\ ~dev'.held
    <3>1. CASE reuse_device
      BY <2>1, <3>1 DEF reuse_device, DeviceInv, Typed, HeldByPad
    <3>2. CASE no_emulation
      BY <2>1, <3>2, Closing DEF no_emulation, DeviceInv, Typed, HeldByPad
    <3>3. CASE new_device
      <4>1. target_type \in Emulated
        BY <3>3 DEF new_device
      <4>2. PICK out \in create_virtual_device(dev, target_type) :
              dev' = IF out[1] THEN closed(out[2]) ELSE out[2]
        BY <3>3 DEF new_device
      <4>3. /\ out[2] \in Devices /\ OnlyDevice(out[2], target_type)
            /\ ~dev.held => ~out[2].held
            /\ NeverCloses(dev) => NeverCloses(out[2])
        BY <4>1, <4>2, Creation DEF DeviceInv, Typed
      <4> QED BY <2>1, <4>2, <4>3, Closing DEF DeviceInv, HeldByPad
    <3> QED BY <1>2, <3>1, <3>2, <3>3 DEF scan_connects
  <2> QED BY <2>1, <2>2 DEF DeviceInv, Typed, Requests, HeldByPad, NeverCloses, OnlyDevice
<1> QED BY <1>1, <1>2 DEF scan

\* A client command destroys devices or asks for a change.
LEMMA IpcKeepsDevice == DeviceInv /\ ipc => DeviceInv'
<1> SUFFICES ASSUME DeviceInv, ipc PROVE DeviceInv'
  OBVIOUS
<1>1. /\ step = "ipc" /\ step' = "change"
      /\ ~type_change.requested /\ ~backend_change.requested /\ ~name_change_requested
  BY DEF ipc, DeviceInv, Requests
<1>2. CASE create_virtual
  <2>1. /\ phy = "none" /\ phy' = phy
        /\ UNCHANGED <<backend_for, name, type_change, backend_change, name_change_requested>>
    BY <1>2 DEF create_virtual, config, requests, link
  <2>2. PICK want \in Emulated : \E out \in create_virtual_device(dev, want) :
          IF out[1] THEN /\ standalone_virtual' = TRUE
                         /\ target_type' = want
                         /\ dev' = closed(out[2])
          ELSE dev' = out[2] /\ UNCHANGED <<standalone_virtual, target_type>>
    BY <1>2 DEF create_virtual
  <2>3. PICK out \in create_virtual_device(dev, want) :
         /\ target_type' = IF out[1] THEN want ELSE target_type
         /\ dev' = IF out[1] THEN closed(out[2]) ELSE out[2]
    BY <2>2
  <2>4. /\ out[1] \in BOOLEAN /\ out[2] \in Devices
        /\ OnlyDevice(out[2], target_type')
        /\ ~dev.held => ~out[2].held
        /\ NeverCloses(dev) => NeverCloses(out[2])
    BY <2>3, Creation DEF DeviceInv, Typed
  <2>5. /\ dev' \in Devices /\ OnlyDevice(dev', target_type')
        /\ "host_closes" \notin Faults => NeverCloses(dev') /\ ~dev'.held
    BY <2>1, <2>3, <2>4, Closing DEF DeviceInv, HeldByPad
  <2> QED BY <1>1, <2>1, <2>3, <2>5
          DEF DeviceInv, Typed, Requests, HeldByPad, NeverCloses, OnlyDevice, Types, Emulated
<1>3. ASSUME NEW d \in Devices, d.uhid = dev.uhid, d.ffs = dev.ffs, OnlyDevice(d, target_type),
             dev' = closed(destroy_virtual_device(d)),
             UNCHANGED <<target_type, config, requests>>
      PROVE  DeviceInv'
  <2>1. /\ dev' \in Devices /\ OnlyDevice(dev', target_type)
        /\ NeverCloses(dev') /\ ~dev'.held
    BY <1>3, Destruction, Closing DEF NeverCloses, closed
  <2> QED BY <1>1, <1>3, <2>1
          DEF DeviceInv, Typed, Requests, HeldByPad, NeverCloses, OnlyDevice, config, requests
<1>4. LET d == neutral_if_configured(dev)
      IN  d \in Devices /\ d.uhid = dev.uhid /\ d.ffs = dev.ffs /\ OnlyDevice(d, target_type)
  BY NeutralKeepsDevices DEF DeviceInv, Typed
<1>5. CASE destroy_virtual
  BY <1>3, <1>4, <1>5 DEF destroy_virtual
<1>6. CASE release_physical
  <2>1. CASE phy = "none"
    BY <1>1, <1>6, <2>1 DEF release_physical, DeviceInv, Typed, Requests, HeldByPad, config,
       requests, link
  <2>2. CASE phy # "none"
    BY <1>3, <1>4, <1>6, <2>2 DEF release_physical
  <2> QED BY <2>1, <2>2
<1>7. CASE resume_physical \/ no_command
  BY <1>1, <1>7 DEF resume_physical, no_command, DeviceInv, Typed, Requests, HeldByPad, config,
     requests, link
<1>8. CASE set_type
  <2>1. PICK t \in Types :
          /\ type_change' = [requested |-> TRUE, to |-> t]
          /\ IF t \in Emulated
             THEN backend_change' = [requested |-> TRUE, to |-> backend_for[t]]
             ELSE UNCHANGED backend_change
          /\ UNCHANGED <<target_type, backend_for, name, dev, name_change_requested, phy>>
    BY <1>8 DEF set_type, config, link
  <2>2. /\ type_change' \in [requested : BOOLEAN, to : Types]
        /\ backend_change' \in [requested : BOOLEAN, to : Backends]
    <3>1. type_change' \in [requested : BOOLEAN, to : Types]
      BY <2>1
    <3>2. CASE t \in Emulated
      <4>1. backend_for[t] \in Backends
        BY <3>2 DEF DeviceInv, Typed
      <4>2. backend_change' = [requested |-> TRUE, to |-> backend_for[t]]
        BY <2>1, <3>2
      <4> QED BY <3>1, <4>1, <4>2
    <3>3. CASE t \notin Emulated
      BY <2>1, <3>1, <3>3 DEF DeviceInv, Typed
    <3> QED BY <3>2, <3>3
  <2>3. Typed'
    BY <2>1, <2>2, Zenon DEF DeviceInv, Typed
  <2> QED BY <1>1, <2>1, <2>3 DEF DeviceInv, Requests, HeldByPad, OnlyDevice, NeverCloses, Opened
<1>9. CASE set_backend
  <2>1. PICK t \in Emulated, b \in Backends :
          /\ backend_for' = [backend_for EXCEPT ![t] = b]
          /\ IF target_type = t
             THEN backend_change' = [requested |-> TRUE, to |-> b]
             ELSE UNCHANGED backend_change
          /\ UNCHANGED <<target_type, name, dev, type_change, name_change_requested, phy>>
    BY <1>9 DEF set_backend, link
  <2>2. /\ backend_for' \in [Emulated -> Backends]
        /\ backend_change' \in [requested : BOOLEAN, to : Backends]
    <3>1. backend_for' \in [Emulated -> Backends]
      BY <2>1 DEF DeviceInv, Typed
    <3>2. CASE target_type = t
      <4>1. backend_change' = [requested |-> TRUE, to |-> b]
        BY <2>1, <3>2
      <4> QED BY <3>1, <4>1
    <3>3. CASE target_type # t
      BY <2>1, <3>1, <3>3 DEF DeviceInv, Typed
    <3> QED BY <3>2, <3>3
  <2>3. Typed'
    BY <2>1, <2>2, Zenon DEF DeviceInv, Typed
  <2> QED BY <1>1, <2>1, <2>3 DEF DeviceInv, Requests, HeldByPad, OnlyDevice, NeverCloses, Opened
<1>10. CASE set_name
  BY <1>1, <1>10 DEF set_name, DeviceInv, Typed, Requests, HeldByPad, link, Names
<1> QED BY <1>2, <1>5, <1>6, <1>7, <1>8, <1>9, <1>10 DEF ipc

\* The device goes before backend or type change, so the new one is the only one.
LEMMA ChangeKeepsDevice == DeviceInv /\ change => DeviceInv'
<1> SUFFICES ASSUME DeviceInv, change PROVE DeviceInv'
  OBVIOUS
<1>1. step = "change" /\ step' = "rename" /\ UNCHANGED <<backend_for, name, name_change_requested>>
  BY DEF change, config
<1>2. CASE ~(type_change.requested \/ backend_change.requested)
  BY <1>1, <1>2 DEF change, DeviceInv, Typed, Requests, HeldByPad, link
<1>3. CASE type_change.requested \/ backend_change.requested
  <2> DEFINE gone == [destroy_virtual_device(neutral_if_configured(dev)) EXCEPT
                        !.backend = backend_change.to]
  <2>1. become(gone)
    BY <1>3 DEF change, apply_change
  <2>2. /\ gone \in Devices /\ gone.held = FALSE
        /\ NeverCloses(gone) /\ \A type : OnlyDevice(gone, type)
    <3>1. neutral_if_configured(dev) \in Devices /\ OnlyDevice(neutral_if_configured(dev), target_type)
      BY NeutralKeepsDevices DEF DeviceInv, Typed
    <3>2. LET d == destroy_virtual_device(neutral_if_configured(dev))
          IN  d \in Devices /\ d.uhid = NoDevice /\ d.ffs = NoDevice /\ d.held = FALSE
      BY <3>1, Destruction
    <3>3. backend_change.to \in Backends
      BY DEF DeviceInv, Typed
    <3> QED BY <3>2, <3>3 DEF Devices, NeverCloses, OnlyDevice
  <2> HIDE DEF gone
  <2>3. /\ target_type' = type_change.to /\ target_type' \in Types
        /\ type_change' = [type_change EXCEPT !.requested = FALSE]
        /\ backend_change' = [backend_change EXCEPT !.requested = FALSE]
    BY <2>1 DEF become, DeviceInv, Typed
  <2>4. dev' \in Devices /\ OnlyDevice(dev', target_type') /\ ~dev'.held /\ NeverCloses(dev')
    <3>1. CASE phy = "none" /\ standalone_virtual'
      <4>1. target_type' \in Emulated
        BY <2>1, <3>1 DEF become
      <4>2. PICK out \in create_virtual_device(gone, target_type') :
              dev' = IF out[1] THEN closed(out[2]) ELSE out[2]
        BY <2>1, <3>1 DEF become
      <4>3. /\ out[2] \in Devices /\ OnlyDevice(out[2], target_type')
            /\ ~out[2].held /\ NeverCloses(out[2])
        BY <2>2, <4>1, <4>2, Creation DEF DeviceInv, Typed
      <4> QED BY <4>2, <4>3, Closing
    <3>2. CASE ~(phy = "none" /\ standalone_virtual')
      BY <2>1, <2>2, <3>2 DEF become
    <3> QED BY <3>1, <3>2
  <2> QED BY <1>1, <1>3, <2>3, <2>4
          DEF DeviceInv, Typed, Requests, HeldByPad, NeverCloses, OnlyDevice
<1> QED BY <1>2, <1>3

\* A rename recreates the device; a drop and the end of the grace window leave no
\* button down, as an open device can be told to let go.
LEMMA RenameKeepsDevice == DeviceInv /\ rename => DeviceInv'
<1> SUFFICES ASSUME DeviceInv, rename PROVE DeviceInv'
  OBVIOUS
<1>1. /\ step = "rename" /\ step' \in {"hup", "grace"} /\ name_change_requested' = FALSE
      /\ ~type_change.requested /\ ~backend_change.requested
      /\ UNCHANGED <<target_type, backend_for, name, type_change, backend_change, phy>>
  BY DEF rename, config, link, DeviceInv, Requests
<1>2. CASE ~(name_change_requested /\ vdev_configured(dev))
  BY <1>1, <1>2 DEF rename, DeviceInv, Typed, Requests, HeldByPad
<1>3. CASE name_change_requested /\ vdev_configured(dev)
  <2> DEFINE gone == destroy_virtual_device(emit_report(dev, FALSE))
  <2>1. target_type \in Emulated
    BY <1>3 DEF DeviceInv, Requests
  <2>2. /\ gone \in Devices /\ gone.held = FALSE /\ NeverCloses(gone)
        /\ OnlyDevice(gone, target_type)
    <3>1. emit_report(dev, FALSE) \in Devices /\ OnlyDevice(emit_report(dev, FALSE), target_type)
      BY EmissionKeepsDevices DEF DeviceInv, Typed
    <3> QED BY <3>1, Destruction DEF NeverCloses
  <2> HIDE DEF gone
  <2>3. PICK out \in create_virtual_device(gone, target_type) :
          dev' = IF out[1] THEN closed(out[2]) ELSE out[2]
    BY <1>3 DEF rename, gone
  <2>4. /\ out[2] \in Devices /\ OnlyDevice(out[2], target_type)
        /\ ~out[2].held /\ NeverCloses(out[2])
    BY <2>1, <2>2, <2>3, Creation DEF DeviceInv, Typed
  <2>5. dev' \in Devices /\ OnlyDevice(dev', target_type) /\ ~dev'.held /\ NeverCloses(dev')
    BY <2>3, <2>4, Closing
  <2> QED BY <1>1, <2>5 DEF DeviceInv, Typed, Requests, HeldByPad, OnlyDevice, NeverCloses
<1> QED BY <1>2, <1>3

\* A lost controller leaves its buttons released.
LEMMA HupKeepsDevice == DeviceInv /\ hup => DeviceInv'
<1> SUFFICES ASSUME DeviceInv, hup PROVE DeviceInv'
  OBVIOUS
<1>1. /\ step = "hup" /\ step' = "scan" /\ phy' = "none"
      /\ UNCHANGED <<target_type, backend_for, name, type_change, backend_change,
                     name_change_requested>>
  BY DEF hup, config, requests
<1>2. dev' = dev \/ dev' = [dev EXCEPT !.held = FALSE]
  BY Emission DEF hup, DeviceInv, Typed
<1>3. /\ dev' \in Devices /\ OnlyDevice(dev', target_type)
      /\ NeverCloses(dev) => NeverCloses(dev')
  BY <1>2 DEF DeviceInv, Typed, Devices, OnlyDevice, NeverCloses
<1>4. ~dev.held => ~dev'.held
  BY <1>2 DEF DeviceInv, Typed, Devices
<1>5. ASSUME "host_closes" \notin Faults, dev.held PROVE dev'.held = FALSE
  <2>1. Opened(dev)
    BY <1>5 DEF DeviceInv, HeldByPad
  <2>2. target_type \in Emulated
    BY <2>1 DEF DeviceInv, Typed, OnlyDevice, Opened, Devices, Uhids, UhidDevice,
       Gadgets, FfsDevice
  <2>3. vdev_configured(dev) /\ emit_report(dev, FALSE) = [dev EXCEPT !.held = FALSE]
    <3>1. dev.backend \in {"uhid", "functionfs"}
      BY DEF DeviceInv, Typed, Devices, Backends
    <3> QED BY <2>1, <3>1 DEF Opened, vdev_configured, emit_report
  <2> QED BY <2>2, <2>3 DEF hup, DeviceInv, Typed, Devices
<1> QED BY <1>1, <1>3, <1>4, <1>5
        DEF DeviceInv, Typed, Requests, HeldByPad, OnlyDevice, NeverCloses

\* The end of the grace window, and of main(), destroys devices.
LEMMA GraceKeepsDevice == DeviceInv /\ (grace \/ main_ends) => DeviceInv'
<1> SUFFICES ASSUME DeviceInv, grace \/ main_ends PROVE DeviceInv'
  OBVIOUS
<1>1. /\ step \in {"grace", "scan"} /\ step' \in {"read", "stopped"}
      /\ UNCHANGED <<target_type, backend_for, name, type_change, backend_change,
                     name_change_requested>>
  BY DEF grace, main_ends, config, requests
<1>2. CASE dev' = dev /\ phy' = phy
  BY <1>1, <1>2 DEF DeviceInv, Typed, Requests, HeldByPad, OnlyDevice, NeverCloses, Opened
<1>3. CASE dev' # dev \/ phy' # phy
  <2>1. neutral_if_configured(dev) \in Devices /\ OnlyDevice(neutral_if_configured(dev), target_type)
    BY NeutralKeepsDevices DEF DeviceInv, Typed
  <2>2. \/ dev' = closed(destroy_virtual_device(dev))
        \/ dev' = destroy_virtual_device(neutral_if_configured(dev))
    BY <1>3 DEF grace, main_ends
  <2>3. dev' \in Devices /\ OnlyDevice(dev', target_type) /\ ~dev'.held /\ NeverCloses(dev')
    <3>1. PICK d \in {dev, neutral_if_configured(dev)} :
            dev' \in {closed(destroy_virtual_device(d)), destroy_virtual_device(d)}
      BY <2>2
    <3>2. /\ destroy_virtual_device(d) \in Devices /\ destroy_virtual_device(d).held = FALSE
          /\ OnlyDevice(destroy_virtual_device(d), target_type)
          /\ NeverCloses(destroy_virtual_device(d))
      BY <2>1, Destruction DEF NeverCloses, DeviceInv, Typed
    <3> QED BY <3>1, <3>2, Closing
  <2> QED BY <1>1, <2>3 DEF DeviceInv, Typed, Requests, HeldByPad, OnlyDevice, NeverCloses
<1> QED BY <1>2, <1>3

\* A forwarded report may press buttons, on an open device of a controller that
\* is connected; an unread UHID event opens the device.
LEMMA ServiceKeepsDevice == DeviceInv /\ (poll \/ read \/ uhid) => DeviceInv'
<1> SUFFICES ASSUME DeviceInv, poll \/ read \/ uhid PROVE DeviceInv'
  OBVIOUS
<1>1. /\ step \in {"poll", "read", "uhid"} /\ step' \in {"ipc", "uhid", "scan"}
      /\ UNCHANGED <<target_type, backend_for, name, type_change, backend_change,
                     name_change_requested, phy>>
  BY DEF poll, read, uhid, config, requests, link
<1>2. SUFFICES /\ dev' \in Devices /\ OnlyDevice(dev', target_type)
               /\ "host_closes" \notin Faults =>
                    NeverCloses(dev') /\ (dev'.held => phy # "none" /\ Opened(dev'))
  BY <1>1 DEF DeviceInv, Typed, Requests, HeldByPad, OnlyDevice, NeverCloses, Opened
<1>3. CASE dev' = dev
  BY <1>3 DEF DeviceInv, Typed, HeldByPad
<1>4. CASE dev' # dev /\ read
  <2>1. PICK held \in BOOLEAN : dev' = emit_report(dev, held)
    BY <1>4 DEF read
  <2>2. phy # "none" /\ vdev_ready_for_io(dev)
    BY <1>4 DEF read
  <2>3. Opened(dev)
    BY <1>4, <2>1, <2>2 DEF emit_report, vdev_ready_for_io, vdev_configured, Opened, DeviceInv,
                            Typed, Devices, Backends
  <2>4. dev' = [dev EXCEPT !.held = held]
    BY <1>4, <2>1, Emission DEF DeviceInv, Typed
  <2> QED BY <2>2, <2>3, <2>4
          DEF DeviceInv, Typed, Devices, OnlyDevice, HeldByPad, NeverCloses, Opened
<1>5. CASE dev' = [dev EXCEPT !.uhid = NoDevice, !.held = FALSE]
  BY <1>5 DEF DeviceInv, Typed, Devices, Uhids, OnlyDevice, NeverCloses
<1>6. CASE uhid_event
  <2> DEFINE d == dev.uhid
             next == [d EXCEPT !.events = Tail(@)]
  <2>1. /\ d \in UhidDevice
        /\ d # NoDevice /\ d.events # <<>> /\ d.type = target_type
    BY <1>6 DEF uhid_event, DeviceInv, Typed, Devices, Uhids, OnlyDevice
  <2>2. dev' = [dev EXCEPT !.device_open = Head(d.events) = "open", !.uhid = next]
    BY <1>6 DEF uhid_event, DeviceInv, Typed, Devices
  <2>3. next \in UhidDevice /\ next.type = target_type /\ next.events = Tail(d.events)
    <3> DEFINE rest == Tail(d.events)
    <3>1. rest \in Seq({"open", "close"})
      BY <2>1 DEF UhidDevice
    <3>2. next = [d EXCEPT !.events = rest]
      BY <2>1 DEF UhidDevice
    <3> HIDE DEF rest, next
    <3>3. next \in UhidDevice /\ next.type = target_type /\ next.events = rest
      BY <2>1, <3>1, <3>2 DEF UhidDevice
    <3> QED BY <3>3 DEF rest
  <2>4. /\ dev' \in Devices /\ dev'.uhid = next /\ dev'.ffs = dev.ffs
        /\ dev'.backend = dev.backend /\ dev'.held = dev.held
        /\ dev'.device_open = (Head(d.events) = "open")
    <3> HIDE DEF next
    <3> QED BY <2>2, <2>3 DEF DeviceInv, Typed, Devices, Uhids
  <2>5. OnlyDevice(dev', target_type)
    BY <2>1, <2>3, <2>4 DEF DeviceInv, OnlyDevice
  <2>6. ASSUME "host_closes" \notin Faults
        PROVE  NeverCloses(dev') /\ (dev'.held => phy # "none" /\ Opened(dev'))
    <3>1. d.events \in Seq({"open"})
      BY <2>1, <2>6 DEF DeviceInv, HeldByPad, NeverCloses
    <3>2. Head(d.events) = "open" /\ Tail(d.events) \in Seq({"open"})
      BY <2>1, <3>1
    <3>3. dev.held => phy # "none" /\ dev.backend = "uhid"
      BY <2>1, <2>6 DEF DeviceInv, HeldByPad, OnlyDevice, Typed, Devices, Backends
    <3>4. next # NoDevice
      BY <2>3, DaemonAssumption
    <3> HIDE DEF next
    <3> QED BY <2>3, <2>4, <3>2, <3>3, <3>4 DEF NeverCloses, Opened
  <2> QED BY <2>4, <2>5, <2>6
<1> QED BY <1>3, <1>4, <1>5, <1>6
        DEF poll, read, uhid, uhid_dropped, uhid_read_fails, uhid_nothing

\* The host opens and closes devices, and opens only those that are there.
LEMMA EnvironmentKeepsDevice == DeviceInv /\ Environment => DeviceInv'
<1> SUFFICES ASSUME DeviceInv, Environment PROVE DeviceInv'
  OBVIOUS
<1>1. CASE plug \/ unplug \/ grace_elapses
  BY <1>1 DEF plug, unplug, grace_elapses, DeviceInv, Typed, Requests, HeldByPad, config,
     requests, link
<1>2. CASE host_opens \/ host_closes
  <2>1. /\ UNCHANGED <<target_type, backend_for, name, type_change, backend_change,
                       name_change_requested, phy, step>>
        /\ \E open \in BOOLEAN :
             /\ open \/ "host_closes" \in Faults
             /\ host_toggles_uhid(open) \/ host_toggles_ffs(open)
    BY <1>2 DEF host_opens, host_closes, only_dev, config, requests, link
  <2>2. PICK open \in BOOLEAN :
             /\ open \/ "host_closes" \in Faults
             /\ host_toggles_uhid(open) \/ host_toggles_ffs(open)
    BY <2>1
  <2>3. /\ dev' \in Devices /\ OnlyDevice(dev', target_type)
        /\ "host_closes" \notin Faults =>
             NeverCloses(dev') /\ (dev'.held => dev.held /\ (Opened(dev) => Opened(dev')))
    <3>1. CASE host_toggles_uhid(open)
      <4> DEFINE next == [dev.uhid EXCEPT !.host_open = open,
                                          !.events = Append(@, IF open THEN "open" ELSE "close")]
      <4>1. dev.uhid \in UhidDevice /\ dev.uhid # NoDevice /\ dev.uhid.type = target_type
        BY <3>1 DEF host_toggles_uhid, DeviceInv, Typed, Devices, Uhids, OnlyDevice
      <4>2. /\ next \in UhidDevice /\ next.type = target_type
            /\ next.events = Append(dev.uhid.events, IF open THEN "open" ELSE "close")
        <5> DEFINE events == Append(dev.uhid.events, IF open THEN "open" ELSE "close")
        <5>1. next = [dev.uhid EXCEPT !.host_open = open, !.events = events]
          BY <4>1 DEF UhidDevice
        <5>2. events \in Seq({"open", "close"})
          BY <4>1 DEF UhidDevice
        <5> HIDE DEF events, next
        <5>3. /\ next \in UhidDevice /\ next.type = target_type /\ next.events = events
          BY <4>1, <5>1, <5>2 DEF UhidDevice
        <5> QED BY <5>3 DEF events
      <4>3. dev' = [dev EXCEPT !.uhid = next]
        BY <3>1 DEF host_toggles_uhid, DeviceInv, Typed, Devices
      <4> HIDE DEF next
      <4>4. next # NoDevice
        BY <4>2, DaemonAssumption
      <4>5. /\ dev' \in Devices /\ dev'.uhid = next /\ dev'.ffs = dev.ffs
            /\ dev'.backend = dev.backend /\ dev'.held = dev.held
            /\ dev'.device_open = dev.device_open
        BY <4>2, <4>3 DEF DeviceInv, Typed, Devices, Uhids
      <4>6. "host_closes" \notin Faults => next.events \in Seq({"open"})
        <5> SUFFICES ASSUME "host_closes" \notin Faults PROVE next.events \in Seq({"open"})
          OBVIOUS
        <5>1. dev.uhid.events \in Seq({"open"}) /\ open
          BY <2>2, <4>1 DEF DeviceInv, HeldByPad, NeverCloses
        <5> QED BY <4>2, <5>1
      <4> QED BY <4>1, <4>2, <4>4, <4>5, <4>6 DEF DeviceInv, OnlyDevice, NeverCloses, Opened
    <3>2. CASE host_toggles_ffs(open)
      <4>1. CASE open
        <5> DEFINE next == [dev.ffs EXCEPT !.enabling = TRUE]
        <5>1. next \in FfsDevice /\ next.type = target_type
          BY <3>2 DEF host_toggles_ffs, DeviceInv, Typed, Devices, OnlyDevice, Gadgets, FfsDevice
        <5>2. dev' = [dev EXCEPT !.ffs = next]
          BY <3>2, <4>1 DEF host_toggles_ffs, DeviceInv, Typed, Devices
        <5> HIDE DEF next
        <5>3. next # NoDevice
          BY <5>1, DaemonAssumption
        <5>4. /\ dev' \in Devices /\ dev'.uhid = dev.uhid /\ dev'.ffs = next
              /\ dev'.backend = dev.backend /\ dev'.held = dev.held
              /\ dev'.device_open = dev.device_open /\ dev'.configured = dev.configured
          BY <5>1, <5>2 DEF DeviceInv, Typed, Devices, Gadgets
        <5>5. dev.ffs # NoDevice
          BY <3>2 DEF host_toggles_ffs
        <5> QED BY <5>1, <5>3, <5>4, <5>5 DEF DeviceInv, OnlyDevice, NeverCloses, Opened, HeldByPad
      <4>2. CASE ~open
        <5>1. dev' = [dev EXCEPT !.configured = FALSE] /\ "host_closes" \in Faults
          BY <2>2, <3>2, <4>2 DEF host_toggles_ffs
        <5> QED BY <5>1 DEF DeviceInv, Typed, Devices, OnlyDevice
      <4> QED BY <4>1, <4>2
    <3> QED BY <2>2, <3>1, <3>2
  <2> QED BY <2>1, <2>3 DEF DeviceInv, Typed, Requests, HeldByPad
<1>3. CASE ep0_stores
  <2> DEFINE next == [dev.ffs EXCEPT !.enabling = FALSE]
  <2>1. /\ UNCHANGED <<target_type, backend_for, name, type_change, backend_change,
                       name_change_requested, phy, step>>
        /\ dev' = [dev EXCEPT !.configured = TRUE, !.ffs = next]
    BY <1>3 DEF ep0_stores, only_dev, config, requests, link, DeviceInv, Typed, Devices
  <2>2. next \in FfsDevice /\ next.type = target_type
    BY <1>3 DEF ep0_stores, DeviceInv, Typed, Devices, OnlyDevice, Gadgets, FfsDevice
  <2> HIDE DEF next
  <2>3. next # NoDevice
    BY <2>2, DaemonAssumption
  <2>4. /\ dev' \in Devices /\ dev'.uhid = dev.uhid /\ dev'.ffs = next /\ dev'.configured = TRUE
        /\ dev'.backend = dev.backend /\ dev'.held = dev.held
        /\ dev'.device_open = dev.device_open
    BY <2>1, <2>2 DEF DeviceInv, Typed, Devices, Gadgets
  <2> QED BY <1>3, <2>1, <2>2, <2>3, <2>4
          DEF ep0_stores, DeviceInv, Typed, Requests, OnlyDevice, NeverCloses, Opened, HeldByPad
<1> QED BY <1>1, <1>2, <1>3 DEF Environment

\* One case per step of the main loop and per event around it.
LEMMA NextKeepsDevice == DeviceInv /\ [Next]_vars => DeviceInv'
<1> SUFFICES ASSUME DeviceInv, [Next]_vars PROVE DeviceInv'
  OBVIOUS
<1>1. CASE Loop
  BY <1>1, ScanKeepsDevice, IpcKeepsDevice, ChangeKeepsDevice, RenameKeepsDevice, HupKeepsDevice,
     GraceKeepsDevice, ServiceKeepsDevice DEF Loop
<1>2. CASE main_ends
  BY <1>2, GraceKeepsDevice
<1>3. CASE Environment
  BY <1>3, EnvironmentKeepsDevice
<1>4. CASE UNCHANGED vars
  BY <1>4 DEF vars, DeviceInv, Typed, Requests, HeldByPad
<1> QED BY <1>1, <1>2, <1>3, <1>4 DEF Next

\* The inductive invariant of the device.
THEOREM DeviceInvariant == Spec => []DeviceInv
  BY InitEstablishesDeviceInv, NextKeepsDevice, PTL DEF Spec

\* The device is always of the type that is emulated and there is only one,
\* through failed creations, fallbacks and every order of commands.
THEOREM TypeIsRight == Spec => []DeviceHasTargetType
<1>1. DeviceInv => DeviceHasTargetType
  BY DEF DeviceInv, Typed, Devices, Backends, OnlyDevice, DeviceHasTargetType
<1> QED BY <1>1, DeviceInvariant, PTL

\* No button stays down on a device whose controller went away, as long as the
\* host does not close the device while a button is held.
THEOREM ButtonsAreReleased ==
  ASSUME "host_closes" \notin Faults
  PROVE  Spec => []NothingStuck
<1>1. DeviceInv => NothingStuck
  BY DEF DeviceInv, HeldByPad, NothingStuck
<1> QED BY <1>1, DeviceInvariant, PTL

-----------------------------------------------------------------------------
(* The types *)

\* What DeviceInv does not say: the loop's own flags and its step.
LoopTypes ==
  /\ phy \in {"none", "up", "lost"}
  /\ step \in {"scan", "poll", "ipc", "change", "rename", "hup", "grace", "read",
               "uhid", "stopped"}
  /\ pad \in BOOLEAN
  /\ pending_destroy \in BOOLEAN
  /\ grace_over \in BOOLEAN
  /\ standalone_virtual \in BOOLEAN
  /\ ignore_physical \in BOOLEAN
  /\ sentinel \in BOOLEAN

\* A command leaves flags, whether it is served or refused.
LEMMA IpcKeepsTypes == LoopTypes /\ ipc => LoopTypes'
<1> SUFFICES ASSUME LoopTypes, ipc PROVE LoopTypes'
  OBVIOUS
<1> USE DEF LoopTypes
<1>1. step' = "change" /\ UNCHANGED <<pad, sentinel>>
  BY DEF ipc
<1>2. CASE create_virtual
  <2>1. standalone_virtual' \in BOOLEAN
    BY <1>2 DEF create_virtual
  <2> QED BY <1>1, <1>2, <2>1 DEF create_virtual, link
<1>3. CASE destroy_virtual
  BY <1>1, <1>3 DEF destroy_virtual
<1>4. CASE release_physical
  BY <1>1, <1>4 DEF release_physical, link
<1>5. CASE resume_physical \/ no_command
  BY <1>1, <1>5 DEF resume_physical, no_command, link, modes
<1>6. CASE set_type \/ set_backend \/ set_name
  <2>1. UNCHANGED <<link, grace_over, modes>>
    BY <1>6 DEF set_type, set_backend, set_name
  <2> QED BY <1>1, <2>1 DEF link, modes
<1> QED BY <1>2, <1>3, <1>4, <1>5, <1>6 DEF ipc

\* One case per step of the main loop and per event around it.
LEMMA NextKeepsTypes == LoopTypes /\ [Next]_vars => LoopTypes'
<1> SUFFICES ASSUME LoopTypes, [Next]_vars PROVE LoopTypes'
  OBVIOUS
<1> USE DEF LoopTypes
<1>1. CASE scan
  BY <1>1 DEF scan, scan_connects, scan_finds_nothing, reuse_device, new_device, no_emulation,
     link, modes
<1>2. CASE poll
  BY <1>2 DEF poll, link, modes
<1>3. CASE ipc
  BY <1>3, IpcKeepsTypes
<1>4. CASE change
  BY <1>4 DEF change, apply_change, become, link
<1>5. CASE rename \/ hup \/ grace \/ main_ends
  <2>1. UNCHANGED <<pad, modes, sentinel>>
    BY <1>5 DEF rename, hup, grace, main_ends
  <2>2. step' \in {"hup", "grace", "scan", "read", "stopped"} /\ phy' \in {"none", "up", "lost"}
    BY <1>5 DEF rename, hup, grace, main_ends, link
  <2>3. pending_destroy' \in BOOLEAN /\ grace_over' \in BOOLEAN
    BY <1>5 DEF rename, hup, grace, main_ends, link
  <2> QED BY <2>1, <2>2, <2>3 DEF modes
<1>6. CASE read
  BY <1>6 DEF read, link, modes
<1>7. CASE uhid
  <2>1. standalone_virtual' \in BOOLEAN
    BY <1>7 DEF uhid, uhid_dropped, uhid_read_fails, uhid_event, uhid_nothing
  <2> QED BY <1>7, <2>1 DEF uhid, link
<1>8. CASE Environment
  <2>1. UNCHANGED <<step, modes, sentinel, pending_destroy>>
    BY <1>8 DEF Environment, plug, unplug, host_opens, host_closes, ep0_stores, grace_elapses, only_dev, link
  <2>2. pad' \in BOOLEAN /\ phy' \in {"none", "up", "lost"} /\ grace_over' \in BOOLEAN
    BY <1>8 DEF Environment, plug, unplug, host_opens, host_closes, ep0_stores, grace_elapses, only_dev, link
  <2> QED BY <2>1, <2>2 DEF modes
<1>9. CASE UNCHANGED vars
  BY <1>9 DEF vars
<1> QED BY <1>1, <1>2, <1>3, <1>4, <1>5, <1>6, <1>7, <1>8, <1>9 DEF Next, Loop

\* Every variable of the loop keeps its type.
THEOREM TypeCorrect == Spec => []TypeOK
<1>1. Init => LoopTypes
  BY DEF Init, LoopTypes
<1>2. DeviceInv /\ LoopTypes => TypeOK
  BY DEF DeviceInv, Typed, Devices, Uhids, Gadgets, LoopTypes, TypeOK
<1> QED BY <1>1, <1>2, NextKeepsTypes, DeviceInvariant, PTL DEF Spec
=============================================================================
